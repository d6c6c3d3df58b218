-------------------------- MODULE TokioServerProofs --------------------------
(***************************************************************************)
(* The four safety properties of the Tokio server, proved for any lines of *)
(* input, any number of slots, and pools and batches of any size.          *)
(*                                                                         *)
(* None is inductive.  The calls that fill a batch spawn flush_batch, and  *)
(* several of them run at once, beside calls that contribute to the next   *)
(* batch, so that what is needed is a place for everything: a contribution *)
(* is in the batch, with one flush, or in the group a flush is writing     *)
(* (HeldOnce); what was written stays in that group until its callers have *)
(* been told (WritesKnown); a detached job that runs on is in the hands of *)
(* a barrier, which awaits it or dropped it when another failed (JobsKept, *)
(* BarrierKnows).  That sorting a batch and cutting it by slots loses      *)
(* nothing (SortSteps, GroupSteps) is shown by least and greatest numbers, *)
(* where one would think of an induction.                                  *)
(***************************************************************************)
EXTENDS TokioServer, FiniteSetTheorems, SequenceTheorems, WellFoundedInduction, TLAPS

(* The numbers are well founded. *)
LEMMA LeastNumber ==
    ASSUME NEW S \in SUBSET Nat, S # {}
    PROVE  \E n \in S : \A m \in S : n <= m
  <1>. DEFINE R == {p \in Nat \X Nat : p[1] < p[2]}
  <1>1. IsWellFoundedOn(R, Nat)
    BY NatLessThanWellFounded DEF OpToRel
  <1>2. PICK n \in S : \A m \in S : ~(<<m, n>> \in R)
    <2>. HIDE DEF R
    <2>. QED  BY <1>1, WFMin
  <1>3. \A m \in Nat, k \in Nat : m < k => <<m, k>> \in R
    OBVIOUS
  <1>. HIDE DEF R
  <1>4. \A m \in S : ~(m < n)
    BY <1>2, <1>3
  <1>. QED  BY <1>4

(* A bounded set of numbers has a greatest one. *)
LEMMA GreatestNumber ==
    ASSUME NEW S \in SUBSET Nat, S # {}, NEW b \in Nat, \A n \in S : n <= b
    PROVE  \E n \in S : \A m \in S : m <= n
  <1>. DEFINE T == {b - n : n \in S}
  <1>1. T \in SUBSET Nat /\ T # {}
    <2>1. \A n \in S : b - n \in Nat
      OBVIOUS
    <2>. QED  BY <2>1
  <1>2. PICK t \in T : \A u \in T : t <= u
    <2>. HIDE DEF T
    <2>. QED  BY <1>1, LeastNumber
  <1>3. PICK n \in S : t = b - n
    OBVIOUS
  <1>4. \A m \in S : t <= b - m
    BY <1>2
  <1>. QED  BY <1>3, <1>4

-----------------------------------------------------------------------------
(* Sequences *)

LEMMA AppendSteps ==
    ASSUME NEW S, NEW s \in Seq(S), NEW e \in S
    PROVE  /\ Append(s, e) \in Seq(S)
           /\ Len(Append(s, e)) = Len(s) + 1
           /\ DOMAIN Append(s, e) = 1 .. Len(s) + 1
           /\ DOMAIN s = 1 .. Len(s) /\ Len(s) \in Nat
           /\ \A i \in DOMAIN s : Append(s, e)[i] = s[i]
           /\ Append(s, e)[Len(s) + 1] = e
  OBVIOUS

LEMMA TailSteps ==
    ASSUME NEW S, NEW s \in Seq(S), s # <<>>
    PROVE  /\ Head(s) \in S /\ Tail(s) \in Seq(S)
           /\ Len(Tail(s)) = Len(s) - 1 /\ Len(s) \in Nat \ {0}
           /\ DOMAIN s = 1 .. Len(s) /\ DOMAIN Tail(s) = 1 .. Len(s) - 1
           /\ Head(s) = s[1]
           /\ \A i \in DOMAIN Tail(s) : Tail(s)[i] = s[i + 1]
  OBVIOUS

LEMMA ReplaceSteps ==
    ASSUME NEW S, NEW s \in Seq(S), NEW i \in DOMAIN s, NEW e \in S
    PROVE  /\ [s EXCEPT ![i] = e] \in Seq(S)
           /\ Len([s EXCEPT ![i] = e]) = Len(s)
           /\ DOMAIN [s EXCEPT ![i] = e] = DOMAIN s
           /\ [s EXCEPT ![i] = e][i] = e
           /\ \A k \in DOMAIN s : k # i => [s EXCEPT ![i] = e][k] = s[k]
  OBVIOUS

LEMMA AppendMembers ==
    ASSUME NEW s \in Seq(Nat), NEW e \in Nat
    PROVE  Members(Append(s, e)) = Members(s) \cup {e}
  <1>1. \A i \in DOMAIN Append(s, e) :
            \/ i \in DOMAIN s /\ Append(s, e)[i] = s[i]
            \/ Append(s, e)[i] = e
    BY AppendSteps
  <1>2. DOMAIN s \subseteq DOMAIN Append(s, e) /\ Len(s) + 1 \in DOMAIN Append(s, e)
    BY AppendSteps
  <1>. QED  BY <1>1, <1>2, AppendSteps DEF Members

LEMMA TailMembers ==
    ASSUME NEW s \in Seq(Nat), s # <<>>
    PROVE  Members(s) = Members(Tail(s)) \cup {Head(s)}
  <1>1. \A i \in DOMAIN s : i = 1 \/ (i - 1 \in DOMAIN Tail(s) /\ Tail(s)[i - 1] = s[i])
    BY TailSteps
  <1>2. \A i \in DOMAIN Tail(s) : i + 1 \in DOMAIN s /\ Tail(s)[i] = s[i + 1]
    BY TailSteps
  <1>3. 1 \in DOMAIN s /\ Head(s) = s[1]
    BY TailSteps
  <1>4. \A i \in DOMAIN s : s[i] = Head(s) \/ \E j \in DOMAIN Tail(s) : Tail(s)[j] = s[i]
    BY <1>1, <1>3
  <1>5. \A j \in DOMAIN Tail(s) : \E i \in DOMAIN s : Tail(s)[j] = s[i]
    BY <1>2
  <1>. QED  BY <1>3, <1>4, <1>5 DEF Members

(* The entries of a sequence are all different. *)
Distinct(s) == \A i, j \in DOMAIN s : s[i] = s[j] => i = j

LEMMA AppendDistinct ==
    ASSUME NEW S, NEW s \in Seq(S), NEW e \in S, Distinct(s), \A i \in DOMAIN s : s[i] # e
    PROVE  Distinct(Append(s, e))
  BY AppendSteps DEF Distinct

LEMMA TailDistinct ==
    ASSUME NEW S, NEW s \in Seq(S), s # <<>>, Distinct(s)
    PROVE  Distinct(Tail(s)) /\ \A i \in DOMAIN Tail(s) : Tail(s)[i] # Head(s)
  BY TailSteps DEF Distinct

(* A sequence without its first l entries. *)
LEMMA DropSteps ==
    ASSUME NEW s \in Seq(Nat), NEW n \in Nat, n = Len(s), NEW l \in 1 .. n
    PROVE  /\ SubSeq(s, l + 1, n) \in Seq(Nat)
           /\ DOMAIN SubSeq(s, l + 1, n) = 1 .. n - l
           /\ \A i \in 1 .. n - l : SubSeq(s, l + 1, n)[i] = s[i + l]
  <1>. DEFINE rest == SubSeq(s, l + 1, n)
  <1>1. \A i \in l + 1 .. n : s[i] \in Nat
    OBVIOUS
  <1>2. l + 1 \in Int /\ n \in Int
    OBVIOUS
  <1>3. /\ rest \in Seq(Nat)
        /\ Len(rest) = IF l + 1 <= n THEN n - (l + 1) + 1 ELSE 0
        /\ \A i \in 1 .. n - (l + 1) + 1 : rest[i] = s[(l + 1) + i - 1]
    <2>. DEFINE m == l + 1
    <2>1. m \in Int /\ n \in Int /\ \A i \in m .. n : s[i] \in Nat
      BY <1>1, <1>2
    <2>. HIDE DEF m
    <2>2. /\ SubSeq(s, m, n) \in Seq(Nat)
          /\ Len(SubSeq(s, m, n)) = IF m <= n THEN n - m + 1 ELSE 0
          /\ \A i \in 1 .. n - m + 1 : SubSeq(s, m, n)[i] = s[m + i - 1]
      <3>1. SubSeq(s, m, n) \in Seq(Nat)
        BY <2>1, SubSeqProperties
      <3>2. Len(SubSeq(s, m, n)) = IF m <= n THEN n - m + 1 ELSE 0
        BY <2>1, SubSeqProperties
      <3>3. \A i \in 1 .. n - m + 1 : SubSeq(s, m, n)[i] = s[m + i - 1]
        BY <2>1, SubSeqProperties
      <3>. QED  BY <3>1, <3>2, <3>3
    <2>. QED  BY <2>2 DEF m
  <1>. HIDE DEF rest
  <1>4. n - (l + 1) + 1 = n - l /\ (IF l + 1 <= n THEN n - (l + 1) + 1 ELSE 0) = n - l
    OBVIOUS
  <1>5. \A i \in 1 .. n - l : (l + 1) + i - 1 = i + l
    OBVIOUS
  <1>6. Len(rest) = n - l
    BY <1>3, <1>4
  <1>7. DOMAIN rest = 1 .. n - l
    BY <1>3, <1>6
  <1>8. \A i \in 1 .. n - l : rest[i] = s[i + l]
    BY <1>3, <1>4, <1>5
  <1>. QED  BY <1>3, <1>7, <1>8 DEF rest

(* Cut in two, a sequence keeps its entries. *)
LEMMA CutSteps ==
    ASSUME NEW s \in Seq(Nat), NEW l \in DOMAIN s, Distinct(s)
    PROVE  LET first == SubSeq(s, 1, l)
               rest == SubSeq(s, l + 1, Len(s))
           IN  /\ first \in Seq(Nat) /\ rest \in Seq(Nat)
               /\ Len(first) = l /\ \A i \in DOMAIN first : first[i] = s[i]
               /\ Distinct(first) /\ Distinct(rest)
               /\ Members(first) \cup Members(rest) = Members(s)
               /\ Members(first) \cap Members(rest) = {}
  <1>. DEFINE first == SubSeq(s, 1, l)
              rest == SubSeq(s, l + 1, Len(s))
  <1>1. /\ Len(s) \in Nat /\ l \in 1 .. Len(s) /\ DOMAIN s = 1 .. Len(s)
        /\ \A i \in DOMAIN s : s[i] \in Nat
    OBVIOUS
  <1>2. /\ first \in Seq(Nat) /\ Len(first) = l /\ DOMAIN first = 1 .. l
        /\ \A i \in 1 .. l : first[i] = s[i]
    BY <1>1
  <1>3. /\ rest \in Seq(Nat) /\ DOMAIN rest = 1 .. Len(s) - l
        /\ \A i \in 1 .. Len(s) - l : rest[i] = s[i + l]
    BY <1>1, DropSteps
  <1>. HIDE DEF first, rest
  <1>4. \A i \in 1 .. Len(s) - l : i + l \in DOMAIN s /\ i + l > l
    BY <1>1
  <1>5. \A i \in 1 .. l : i \in DOMAIN s
    BY <1>1
  <1>6. \A i \in DOMAIN s : i \in 1 .. l \/ (i - l \in 1 .. Len(s) - l /\ (i - l) + l = i)
    BY <1>1
  <1>7. Distinct(first)
    BY <1>2, <1>5 DEF Distinct
  <1>8. Distinct(rest)
    <2>1. ASSUME NEW i \in 1 .. Len(s) - l, NEW j \in 1 .. Len(s) - l, rest[i] = rest[j]
          PROVE  i = j
      <3>1. i + l = j + l
        BY <2>1, <1>3, <1>4 DEF Distinct
      <3>. QED  BY <3>1, <1>1
    <2>. QED  BY <2>1, <1>3 DEF Distinct
  <1>9. Members(s) \subseteq Members(first) \cup Members(rest)
    <2>1. ASSUME NEW i \in DOMAIN s
          PROVE  s[i] \in Members(first) \cup Members(rest)
      <3>1. CASE i \in 1 .. l
        BY <3>1, <1>2 DEF Members
      <3>2. CASE i - l \in 1 .. Len(s) - l /\ (i - l) + l = i
        <4>1. rest[i - l] = s[i]
          BY <3>2, <1>3
        <4>. QED  BY <3>2, <4>1, <1>3 DEF Members
      <3>. QED  BY <3>1, <3>2, <1>6
    <2>. QED  BY <2>1 DEF Members
  <1>10. Members(first) \subseteq Members(s) /\ Members(rest) \subseteq Members(s)
    BY <1>2, <1>3, <1>4, <1>5 DEF Members
  <1>11. \A i \in 1 .. l, j \in 1 .. Len(s) - l : first[i] # rest[j]
    <2>1. \A i \in 1 .. l, j \in 1 .. Len(s) - l : i # j + l
      BY <1>1
    <2>. QED  BY <2>1, <1>2, <1>3, <1>4, <1>5 DEF Distinct
  <1>12. Members(first) \cap Members(rest) = {}
    BY <1>2, <1>3, <1>11 DEF Members
  <1>. QED  BY <1>2, <1>3, <1>7, <1>8, <1>9, <1>10, <1>12 DEF first, rest

-----------------------------------------------------------------------------
(* flush_batch: what sorting and cutting a batch does to it. *)

Numbered(entries) == \A i \in DOMAIN entries : Slot(entries[i]) \in Nat

(* Sorting a batch neither loses nor repeats a contribution. *)
LEMMA SortSteps ==
    ASSUME NEW entries \in Seq(Nat), Numbered(entries)
    PROVE  LET sorted == SortedBySlot(entries)
           IN  /\ sorted \in Seq(Nat) /\ Len(sorted) = Len(entries)
               /\ Members(sorted) = Members(entries)
               /\ Distinct(entries) => Distinct(sorted)
  <1>. DEFINE P == DOMAIN entries
              Before(i, j) == \/ Slot(entries[i]) < Slot(entries[j])
                              \/ Slot(entries[i]) = Slot(entries[j]) /\ i < j
              Ahead(j) == {i \in P : Before(i, j)}
              rank == [j \in P |-> Cardinality(Ahead(j))]
              place == [p \in P |-> CHOOSE j \in P : Cardinality(Ahead(j)) = p - 1]
              sorted == [p \in P |->
                            entries[CHOOSE j \in P : Cardinality(Ahead(j)) = p - 1]]
  <1>1. P = 1 .. Len(entries) /\ Len(entries) \in Nat /\ P \in SUBSET Nat
        /\ \A i \in P : entries[i] \in Nat
    OBVIOUS
  <1>2. SortedBySlot(entries) = sorted
    BY DEF SortedBySlot
  <1>2a. sorted = [p \in P |-> entries[place[p]]]
    OBVIOUS
  <1>. HIDE DEF P
  <1>3. /\ \A i, j \in P : Before(i, j) \/ Before(j, i) \/ i = j
        /\ \A i \in P : ~Before(i, i)
        /\ \A i, j, k \in P : Before(i, j) /\ Before(j, k) => Before(i, k)
    <2>1. \A i \in P : Slot(entries[i]) \in Nat /\ i \in Nat
      BY <1>1 DEF Numbered, P
    <2>. HIDE DEF P
    <2>2. \A i, j \in P : Before(i, j) \/ Before(j, i) \/ i = j
      BY <2>1
    <2>3. \A i \in P : ~Before(i, i)
      BY <2>1
    <2>4. \A i, j, k \in P : Before(i, j) /\ Before(j, k) => Before(i, k)
      BY <2>1
    <2>. HIDE DEF Before
    <2>. QED  BY <2>2, <2>3, <2>4
  <1>. HIDE DEF Before
  <1>4. \A j \in P : IsFiniteSet(Ahead(j)) /\ Cardinality(Ahead(j)) \in 0 .. Len(entries) - 1
    <2>. TAKE j \in P
    <2>1. IsFiniteSet(P) /\ Cardinality(P) = Len(entries)
      BY <1>1, FS_Interval
    <2>2. Ahead(j) \in SUBSET P /\ j \notin Ahead(j)
      BY <1>3
    <2>. HIDE DEF Ahead
    <2>3. IsFiniteSet(Ahead(j)) /\ Cardinality(Ahead(j)) <= Len(entries)
          /\ Cardinality(Ahead(j)) # Len(entries)
      BY <2>1, <2>2, FS_Subset
    <2>4. Cardinality(Ahead(j)) \in Nat
      BY <2>3, FS_CardinalityType
    <2>. QED  BY <1>1, <2>3, <2>4
  <1>5. \A i, j \in P : Before(i, j) => Cardinality(Ahead(i)) # Cardinality(Ahead(j))
    <2>. SUFFICES ASSUME NEW i \in P, NEW j \in P, Before(i, j)
                  PROVE  Cardinality(Ahead(i)) # Cardinality(Ahead(j))
      OBVIOUS
    <2>1. Ahead(i) \in SUBSET Ahead(j) /\ i \in Ahead(j) /\ i \notin Ahead(i)
      BY <1>3
    <2>. HIDE DEF Ahead
    <2>. QED  BY <2>1, <1>4, FS_Subset
  <1>6. rank \in Injection(P, 0 .. Len(entries) - 1)
    <2>1. rank \in [P -> 0 .. Len(entries) - 1]
      BY <1>4
    <2>2. \A i, j \in P : rank[i] = rank[j] => i = j
      BY <1>3, <1>5
    <2>. HIDE DEF rank
    <2>. QED  BY <2>1, <2>2 DEF Injection, IsInjective
  <1>7. \A q \in 0 .. Len(entries) - 1 : \E j \in P : rank[j] = q
    <2>1. /\ IsFiniteSet(0 .. Len(entries) - 1)
          /\ Cardinality(0 .. Len(entries) - 1) = Len(entries)
          /\ Cardinality(P) = Len(entries)
      <3>0. 0 \in Int /\ Len(entries) - 1 \in Int
        BY <1>1
      <3>1. /\ IsFiniteSet(0 .. Len(entries) - 1)
            /\ Cardinality(0 .. Len(entries) - 1) =
                  IF 0 > Len(entries) - 1 THEN 0 ELSE (Len(entries) - 1) - 0 + 1
        BY <3>0, FS_Interval
      <3>2. Cardinality(P) = IF 1 > Len(entries) THEN 0 ELSE Len(entries) - 1 + 1
        BY <1>1, FS_Interval
      <3>. QED  BY <1>1, <3>1, <3>2
    <2>. HIDE DEF rank
    <2>2. rank \in Surjection(P, 0 .. Len(entries) - 1)
      BY <1>6, <2>1, FS_Injection
    <2>. QED  BY <2>2 DEF Surjection
  <1>8. \A p \in P : place[p] \in P /\ rank[place[p]] = p - 1
    <2>. TAKE p \in P
    <2>1. \E j \in P : rank[j] = p - 1
      <3>1. p - 1 \in 0 .. Len(entries) - 1
        BY <1>1
      <3>. HIDE DEF rank
      <3>. QED  BY <1>7, <3>1
    <2>2. \E j \in P : Cardinality(Ahead(j)) = p - 1
      BY <2>1
    <2>. QED  BY <2>2
  <1>9. \A i, j \in P : rank[i] = rank[j] => i = j
    <2>. HIDE DEF rank
    <2>. QED  BY <1>6 DEF Injection, IsInjective
  <1>10. \A j \in P : \E p \in P : place[p] = j
    <2>. TAKE j \in P
    <2>1. rank[j] \in 0 .. Len(entries) - 1
      BY <1>4
    <2>. HIDE DEF rank, place
    <2>2. rank[j] + 1 \in P /\ (rank[j] + 1) - 1 = rank[j]
      BY <1>1, <2>1
    <2>3. place[rank[j] + 1] = j
      BY <1>8, <1>9, <2>2
    <2>. QED  BY <2>2, <2>3
  <1>11. \A p, q \in P : place[p] = place[q] => p = q
    <2>. TAKE p \in P, q \in P
    <2>. HIDE DEF rank, place
    <2>1. place[p] = place[q] => p - 1 = q - 1
      BY <1>8
    <2>2. p \in Nat /\ q \in Nat
      BY <1>1
    <2>. QED  BY <2>1, <2>2
  <1>. HIDE DEF rank, place, Ahead
  <1>12. /\ sorted \in Seq(Nat) /\ Len(sorted) = Len(entries) /\ DOMAIN sorted = P
         /\ \A p \in P : sorted[p] = entries[place[p]]
    <2>1. sorted \in [1 .. Len(entries) -> Nat]
      <3>1. \A p \in P : entries[place[p]] \in Nat
        BY <1>1, <1>8
      <3>. QED  BY <1>1, <1>2a, <3>1
    <2>2. \A p \in P : sorted[p] = entries[place[p]]
      BY <1>2a
    <2>. HIDE DEF sorted
    <2>3. PICK n \in Nat : n = Len(entries)
      BY <1>1
    <2>4. sorted \in Seq(Nat) /\ Len(sorted) = n /\ DOMAIN sorted = 1 .. n
      BY <2>1, <2>3
    <2>. QED  BY <1>1, <2>2, <2>3, <2>4
  <1>. HIDE DEF sorted
  <1>13. Members(sorted) = Members(entries)
    <2>1. \A p \in DOMAIN sorted : \E i \in DOMAIN entries : sorted[p] = entries[i]
      BY <1>8, <1>12 DEF P
    <2>2. \A i \in DOMAIN entries : \E p \in DOMAIN sorted : sorted[p] = entries[i]
      <3>. TAKE i \in DOMAIN entries
      <3>1. PICK p \in P : place[p] = i
        BY <1>10 DEF P
      <3>. QED  BY <1>12, <3>1
    <2>. QED  BY <2>1, <2>2 DEF Members
  <1>14. Distinct(entries) => Distinct(sorted)
    <2>1. SUFFICES ASSUME Distinct(entries), NEW p \in P, NEW q \in P, sorted[p] = sorted[q]
                   PROVE  p = q
      BY <1>12 DEF Distinct
    <2>2. entries[place[p]] = entries[place[q]] /\ place[p] \in DOMAIN entries
          /\ place[q] \in DOMAIN entries
      BY <1>8, <1>12, <2>1 DEF P
    <2>3. place[p] = place[q]
      BY <2>1, <2>2 DEF Distinct
    <2>. QED  BY <1>11, <2>3
  <1>. QED  BY <1>2, <1>12, <1>13, <1>14

(* The next group is a prefix of what is pending, for adjacent slots. *)
LEMMA GroupSteps ==
    ASSUME NEW entries \in Seq(Nat), entries # <<>>, Numbered(entries)
    PROVE  \E l \in DOMAIN entries :
              /\ GroupOf(entries) = SubSeq(entries, 1, l)
              /\ AdjacentIn(entries, l)
  <1>. DEFINE T == {l \in DOMAIN entries : AdjacentIn(entries, l)}
  <1>1. DOMAIN entries = 1 .. Len(entries) /\ Len(entries) \in Nat \ {0}
    OBVIOUS
  <1>2. 1 \in T
    BY <1>1 DEF AdjacentIn
  <1>3. T \in SUBSET Nat /\ \A l \in T : l <= Len(entries)
    BY <1>1
  <1>4. PICK l \in T : \A m \in T : m <= l
    <2>. HIDE DEF T
    <2>. QED  BY <1>1, <1>2, <1>3, GreatestNumber
  <1>5. l < Len(entries) => ~AdjacentIn(entries, l + 1)
    <2>1. SUFFICES ASSUME l < Len(entries), AdjacentIn(entries, l + 1)
                   PROVE  FALSE
      OBVIOUS
    <2>2. l \in Nat /\ l + 1 \in DOMAIN entries
      BY <1>1, <1>4, <2>1
    <2>3. l + 1 <= l
      BY <1>4, <2>1, <2>2
    <2>. QED  BY <2>2, <2>3
  <1>6. \E m \in DOMAIN entries : /\ AdjacentIn(entries, m)
                                  /\ m < Len(entries) => ~AdjacentIn(entries, m + 1)
    BY <1>4, <1>5
  <1>. QED  BY <1>6 DEF GroupOf

(* In a group the slots count up from that of the first member. *)
LEMMA GroupSlots ==
    ASSUME NEW group \in Seq(Nat), NEW l \in Nat, Numbered(group), l = Len(group),
           AdjacentIn(group, l)
    PROVE  \A i \in DOMAIN group : Slot(group[i]) = Slot(group[1]) + i - 1
  <1>. DEFINE slot == [i \in DOMAIN group |-> Slot(group[i])]
              T == {i \in DOMAIN group : slot[i] # slot[1] + i - 1}
  <1>1. DOMAIN group = 1 .. l
    OBVIOUS
  <1>2. /\ \A i \in 1 .. l : slot[i] \in Nat /\ slot[i] = Slot(group[i])
        /\ \A i \in 2 .. l : slot[i] = slot[i - 1] + 1
    <2>1. \A i \in 2 .. l : i \in 1 .. l /\ i - 1 \in 1 .. l
      OBVIOUS
    <2>. QED  BY <1>1, <2>1 DEF Numbered, AdjacentIn
  <1>. HIDE DEF slot
  <1>4. SUFFICES ASSUME T # {} PROVE FALSE
    <2>1. \A i \in DOMAIN group : slot[i] = slot[1] + i - 1 /\ 1 \in DOMAIN group
      BY <1>1, T = {}
    <2>. QED  BY <1>1, <1>2, <2>1
  <1>5. T \in SUBSET Nat
    BY <1>1
  <1>6. PICK n \in T : \A m \in T : n <= m
    <2>. HIDE DEF T
    <2>. QED  BY <1>4, <1>5, LeastNumber
  <1>7. n \in 2 .. l
    BY <1>1, <1>2, <1>6
  <1>8. n - 1 \in 1 .. l /\ n - 1 \notin T
    BY <1>5, <1>6, <1>7
  <1>9. slot[n - 1] = slot[1] + (n - 1) - 1
    BY <1>1, <1>8
  <1>10. slot[n] = slot[n - 1] + 1 /\ n \in Nat /\ 1 \in 1 .. l
    BY <1>1, <1>2, <1>7
  <1>11. \A a, b, c \in Nat : a = b + 1 /\ b = c + (n - 1) - 1 => a = c + n - 1
    BY <1>10
  <1>12. slot[n] \in Nat /\ slot[n - 1] \in Nat /\ slot[1] \in Nat
    BY <1>1, <1>2, <1>6, <1>8, <1>10
  <1>13. slot[n] = slot[1] + n - 1
    BY <1>9, <1>10, <1>11, <1>12
  <1>. QED  BY <1>6, <1>13

-----------------------------------------------------------------------------
(* The inductive invariant.  First the types. *)

Places == {"called", "contributed", "replied", "working", "aborting", "scheduling",
           "draining", "answered", "panicked"}
Answers == {"none", "ok", "error", "invalid", "cancelled", "mismatch"}
Finished == {"answered", "panicked"}

LineRecord == [request : Requests, at : Places, answer : Answers,
               handles : Seq(Nat), scheduled : SUBSET Nat]
ServeRecord == [threads : Nat,
                at : {"reading", "awaiting", "draining", "stopping", "ended", "failed"},
                next : Nat, handles : Seq(Nat)]
FlushRecord == [by : Nat, at : {"next", "writing"}, group : Seq(Nat), pending : Seq(Nat)]
Users == {"background", "call", "job", "flush"} \X Nat
PieceRecord == [at : {"ready", "queued", "aborted", "running", "written", "done"},
                left : Int, result : Answers]

ServerTypes ==
    /\ lines \in Seq(LineRecord)
    /\ serve \in ServeRecord
    /\ batch \in Seq(Nat)
    /\ flushes \in Seq(FlushRecord)
    /\ detached \in Seq(Nat)
    /\ DOMAIN runs \in SUBSET Users /\ runs \in [DOMAIN runs -> PieceRecord]
    /\ queue \in Seq(Users)
    /\ writer \in {"up", "dead"}

(* Only calls are at work; a piece of work is queued once, that of a flush    *)
(* is handed over for one group at a time and never aborted.                 *)
QueueKnown ==
    /\ Distinct(queue)
    /\ \A i \in DOMAIN queue : /\ queue[i] \in DOMAIN runs
                               /\ runs[queue[i]].at \in {"queued", "aborted"}

CallKnown(n) ==
    /\ n \in DOMAIN lines
    /\ lines[n].request.tool \in PoolTools /\ lines[n].at # "called"
JobKnown(n) ==
    /\ n \in DOMAIN lines
    /\ lines[n].request.tool = "slot_io" /\ lines[n].at \in {"scheduling"} \cup Finished
FlushKnown(m) ==
    IF flushes[m].at = "next"
    THEN FlushOf(m) \in DOMAIN runs => runs[FlushOf(m)].at = "done"
    ELSE /\ FlushOf(m) \in DOMAIN runs
         /\ runs[FlushOf(m)].at \in {"ready", "queued", "running", "done"}
         /\ runs[FlushOf(m)].at # "done" => runs[FlushOf(m)].left = 1

RunsKnown ==
    /\ \A n \in DOMAIN lines : ~IsCall(lines[n].request) => lines[n].at = "answered"
    /\ \A n \in Nat : CallOf(n) \in DOMAIN runs => CallKnown(n)
    /\ \A n \in Nat : JobOf(n) \in DOMAIN runs => JobKnown(n)
    /\ \A n \in DOMAIN lines :
          /\ lines[n].at \in {"working", "aborting"} => CallOf(n) \in DOMAIN runs
          /\ lines[n].at = "scheduling" => JobOf(n) \in DOMAIN runs
    /\ \A m \in Nat : FlushOf(m) \in DOMAIN runs => m \in DOMAIN flushes
    /\ \A m \in DOMAIN flushes : FlushKnown(m)

(* A contribution is in the batch, or pending in one flush, or in the group  *)
(* that flush is writing.                                                    *)
Contribution(n) ==
    n \in DOMAIN lines /\ IsCall(lines[n].request) /\ lines[n].request.tool = "batch_io"
Contributed(n) == Contribution(n) /\ lines[n].at = "contributed"
Held(m) == Members(flushes[m].pending) \cup
           (IF flushes[m].at = "writing" THEN Members(flushes[m].group) ELSE {})

HeldOnce ==
    /\ Distinct(batch)
    /\ \A n \in Members(batch) : Contributed(n)
    /\ \A m \in DOMAIN flushes :
          /\ Distinct(flushes[m].pending)
          /\ \A n \in Held(m) : Contributed(n) /\ n \notin Members(batch)
          /\ flushes[m].at = "writing" =>
                Members(flushes[m].group) \cap Members(flushes[m].pending) = {}
    /\ \A l, m \in DOMAIN flushes : l # m => Held(l) \cap Held(m) = {}

(* The group being written is for adjacent slots and of one policy. *)
GroupRight(group) ==
    /\ 1 \in DOMAIN group
    /\ \A i \in DOMAIN group :
          /\ Slot(group[i]) = Slot(group[1]) + i - 1
          /\ lines[group[i]].request.joined = lines[group[1]].request.joined
          /\ lines[group[i]].request.joined => Instrumented
GroupsRight == \A m \in DOMAIN flushes :
    flushes[m].at = "writing" => GroupRight(flushes[m].group)

(* A write is that of the group its flush still holds, or its members have   *)
(* been replied to; and a reply of success has a write behind it.            *)
Written(m) == runs[FlushOf(m)].at = "done" /\ runs[FlushOf(m)].result = "ok"
WriteKnown(w) ==
    /\ w.flush \in DOMAIN flushes
    /\ \A n \in w.members :
          /\ Contribution(n)
          /\ lines[n].at \in {"contributed", "replied"} \cup Finished
          /\ lines[n].at = "contributed" =>
                /\ flushes[w.flush].at = "writing" /\ Written(w.flush)
                /\ w.members = Members(flushes[w.flush].group)
WritesKnown ==
    /\ \A w \in writes : WriteKnown(w)
    /\ \A v, w \in writes : v.members \cap w.members # {} => v = w
    /\ \A m \in DOMAIN flushes : flushes[m].at = "writing" /\ Written(m) =>
          \E w \in writes : w.members = Members(flushes[m].group)
    /\ \A n \in DOMAIN lines : Contribution(n) /\ lines[n].answer = "ok" =>
          \E w \in writes : n \in w.members

(* A detached job that has not ended is in somebody's hands; a barrier has   *)
(* jobs in its hands while it awaits them and when it failed; ...            *)
Job(n) == JobOf(n) \in DOMAIN runs
HandlesKnown ==
    /\ \A n \in Members(detached) : Job(n)
    /\ \A n \in Members(serve.handles) : Job(n)
    /\ \A b \in DOMAIN lines : \A n \in Members(lines[b].handles) \cup lines[b].scheduled :
          n \in Nat /\ Job(n)
    /\ \A b \in Barriers :
          /\ lines[b].answer # "none" => lines[b].at \in Finished
          /\ lines[b].at = "draining" \/ lines[b].answer = "error" \/ lines[b].handles = <<>>
JobsKept == \A n \in DOMAIN lines : Job(n) =>
    \/ JobEnded(n) \/ lines[n].at = "scheduling"
    \/ n \in Members(detached) \/ n \in Members(serve.handles) \/ serve.at = "failed"
    \/ \E b \in Barriers : Holds(b, n)

(* ... and one reported before a barrier was received is in those of some    *)
(* barrier, once that one has taken what was detached.                       *)
BarrierKnows == \A b \in Barriers : \A n \in lines[b].scheduled :
    \/ JobEnded(n)
    \/ lines[b].at = "called" /\ n \in Members(detached)
    \/ \E c \in Barriers : Holds(c, n)

(* How far the server has come with its end. *)
AllAnswered == \A n \in DOMAIN lines : lines[n].at = "answered"
ServeKnown ==
    /\ serve.next \in Nat \ {0} /\ (serve.at = "reading" => serve.next = 1)
    /\ \A n \in DOMAIN lines : n < serve.next => lines[n].at = "answered"
    /\ serve.at \in {"reading", "awaiting"} => serve.handles = <<>>
    /\ serve.at \in {"draining", "stopping", "ended"} => AllAnswered /\ detached = <<>>
    /\ serve.at \in {"stopping", "ended"} => serve.handles = <<>>
    /\ serve.at = "ended" => printed = DOMAIN lines
    /\ \A n \in printed : n \in DOMAIN lines /\ lines[n].at = "answered"

ServerInv ==
    /\ ServerTypes /\ QueueKnown /\ RunsKnown /\ HeldOnce /\ GroupsRight
    /\ WritesAreOwned /\ WritesKnown
    /\ HandlesKnown /\ JobsKept /\ BarrierKnows /\ ServeKnown

-----------------------------------------------------------------------------
(* What the parts of a step do. *)

LEMMA KeysApart ==
    ASSUME NEW n, NEW m
    PROVE  /\ CallOf(n) = CallOf(m) => n = m
           /\ JobOf(n) = JobOf(m) => n = m
           /\ FlushOf(n) = FlushOf(m) => n = m
           /\ CallOf(n) # JobOf(m) /\ CallOf(n) # FlushOf(m) /\ JobOf(n) # FlushOf(m)
           /\ CallOf(n) # Background /\ JobOf(n) # Background /\ FlushOf(n) # Background
  BY DEF CallOf, JobOf, FlushOf, Background

LEMMA KeyTypes ==
    ASSUME NEW n \in Nat
    PROVE  CallOf(n) \in Users /\ JobOf(n) \in Users /\ FlushOf(n) \in Users
           /\ Background \in Users
  BY DEF CallOf, JobOf, FlushOf, Background, Users

LEMMA RecordTypes ==
    ASSUME ServerTypes
    PROVE  /\ DOMAIN lines \in SUBSET Nat /\ DOMAIN lines = 1 .. Len(lines) /\ Len(lines) \in Nat
           /\ DOMAIN flushes \in SUBSET Nat /\ DOMAIN flushes = 1 .. Len(flushes)
           /\ Len(flushes) \in Nat
           /\ \A n \in DOMAIN lines :
                 /\ lines[n] \in LineRecord /\ lines[n].request \in Request
                 /\ lines[n].request \in Requests
                 /\ lines[n].at \in Places /\ lines[n].answer \in Answers
                 /\ lines[n].handles \in Seq(Nat) /\ lines[n].scheduled \in SUBSET Nat
                 /\ Slot(n) \in Nat /\ lines[n].request.rounds \in Nat
                 /\ lines[n].request.width \in Nat
                 /\ lines[n].request.joined \in BOOLEAN
           /\ \A m \in DOMAIN flushes :
                 /\ flushes[m] \in FlushRecord /\ flushes[m].at \in {"next", "writing"}
                 /\ flushes[m].by \in Nat
                 /\ flushes[m].group \in Seq(Nat) /\ flushes[m].pending \in Seq(Nat)
           /\ \A k \in DOMAIN runs :
                 /\ runs[k] \in PieceRecord /\ runs[k].left \in Int
                 /\ runs[k].result \in Answers
           /\ serve.handles \in Seq(Nat) /\ serve.next \in Nat
  <1>1. /\ DOMAIN lines = 1 .. Len(lines) /\ Len(lines) \in Nat
        /\ DOMAIN flushes = 1 .. Len(flushes) /\ Len(flushes) \in Nat
        /\ \A n \in DOMAIN lines : lines[n] \in LineRecord
        /\ \A m \in DOMAIN flushes : flushes[m] \in FlushRecord
        /\ \A k \in DOMAIN runs : runs[k] \in PieceRecord
        /\ serve \in ServeRecord
    BY DEF ServerTypes
  <1>2. ASSUME NEW n \in DOMAIN lines
        PROVE  /\ lines[n].request \in Requests
               /\ lines[n].at \in Places /\ lines[n].answer \in Answers
               /\ lines[n].handles \in Seq(Nat) /\ lines[n].scheduled \in SUBSET Nat
    BY <1>1 DEF LineRecord
  <1>3. \A r \in Request : /\ r.slot \in Nat /\ r.rounds \in Nat /\ r.width \in Nat
                           /\ r.joined \in BOOLEAN
    BY DEF Request
  <1>4. Requests \in SUBSET Request
    BY ServerAssumption
  <1>5. \A m \in DOMAIN flushes :
                 /\ flushes[m].at \in {"next", "writing"} /\ flushes[m].by \in Nat
                 /\ flushes[m].group \in Seq(Nat) /\ flushes[m].pending \in Seq(Nat)
    BY <1>1 DEF FlushRecord
  <1>6. \A k \in DOMAIN runs : runs[k].left \in Int /\ runs[k].result \in Answers
    BY <1>1 DEF PieceRecord
  <1>7. serve.handles \in Seq(Nat) /\ serve.next \in Nat
    BY <1>1 DEF ServeRecord
  <1>. QED  BY <1>1, <1>2, <1>3, <1>4, <1>5, <1>6, <1>7 DEF Slot

(* A task changes its own line, and never its request. *)
LineStep(n) ==
    /\ n \in DOMAIN lines /\ DOMAIN lines' = DOMAIN lines
    /\ lines' \in Seq(LineRecord)
    /\ \A i \in DOMAIN lines : i # n => lines'[i] = lines[i]
    /\ lines'[n].request = lines[n].request
    /\ lines'[n].scheduled = lines[n].scheduled

LEMMA MoveLine ==
    ASSUME ServerTypes, NEW n \in DOMAIN lines, NEW place \in Places,
           lines' = [lines EXCEPT ![n].at = place]
    PROVE  /\ LineStep(n) /\ lines'[n].at = place
           /\ lines'[n].answer = lines[n].answer /\ lines'[n].handles = lines[n].handles
  <1>. DEFINE r == [lines[n] EXCEPT !.at = place]
  <1>1. lines[n] \in LineRecord /\ lines \in Seq(LineRecord)
    BY RecordTypes DEF ServerTypes
  <1>2. /\ r \in LineRecord /\ r.at = place /\ r.request = lines[n].request
        /\ r.scheduled = lines[n].scheduled /\ r.answer = lines[n].answer
        /\ r.handles = lines[n].handles
    BY <1>1 DEF LineRecord
  <1>3. lines' = [lines EXCEPT ![n] = r]
    OBVIOUS
  <1>. HIDE DEF r
  <1>. QED  BY <1>1, <1>2, <1>3, ReplaceSteps DEF LineStep

LEMMA AnswerLine ==
    ASSUME ServerTypes, NEW n \in DOMAIN lines, NEW answer \in Answers, Answer(n, answer)
    PROVE  /\ LineStep(n) /\ lines'[n].at \in Finished
           /\ lines'[n].answer = answer /\ lines'[n].handles = lines[n].handles
  <1>. DEFINE place == IF writer = "up" THEN "answered" ELSE "panicked"
              r == [lines[n] EXCEPT !.at = place, !.answer = answer]
  <1>1. lines[n] \in LineRecord /\ lines \in Seq(LineRecord)
    BY RecordTypes DEF ServerTypes
  <1>2. place \in Places /\ place \in Finished
    BY DEF Places, Finished
  <1>. HIDE DEF place
  <1>3. /\ r \in LineRecord /\ r.at \in Finished /\ r.request = lines[n].request
        /\ r.scheduled = lines[n].scheduled /\ r.answer = answer
        /\ r.handles = lines[n].handles
    <2>1. /\ r.at = place /\ r.request = lines[n].request /\ r.answer = answer
          /\ r.scheduled = lines[n].scheduled /\ r.handles = lines[n].handles
      BY <1>1 DEF LineRecord
    <2>2. r \in LineRecord
      BY <1>1, <1>2 DEF LineRecord
    <2>. QED  BY <1>2, <2>1, <2>2
  <1>4. lines' = [lines EXCEPT ![n] = r]
    BY DEF Answer, WithAnswer, place
  <1>. HIDE DEF r
  <1>. QED  BY <1>1, <1>3, <1>4, ReplaceSteps DEF LineStep

LEMMA HandleLine ==
    ASSUME ServerTypes, NEW n \in DOMAIN lines, NEW handles \in Seq(Nat), NEW place \in Places,
           lines' = [lines EXCEPT ![n].at = place, ![n].handles = handles]
    PROVE  /\ LineStep(n) /\ lines'[n].at = place
           /\ lines'[n].answer = lines[n].answer /\ lines'[n].handles = handles
  <1>. DEFINE r == [lines[n] EXCEPT !.at = place, !.handles = handles]
  <1>1. lines[n] \in LineRecord /\ lines \in Seq(LineRecord)
    BY RecordTypes DEF ServerTypes
  <1>2. /\ r \in LineRecord /\ r.at = place /\ r.request = lines[n].request
        /\ r.scheduled = lines[n].scheduled /\ r.answer = lines[n].answer
        /\ r.handles = handles
    BY <1>1 DEF LineRecord
  <1>3. lines' = [lines EXCEPT ![n] = r]
    OBVIOUS
  <1>. HIDE DEF r
  <1>4. /\ lines' \in Seq(LineRecord) /\ DOMAIN lines' = DOMAIN lines /\ lines'[n] = r
        /\ \A i \in DOMAIN lines : i # n => lines'[i] = lines[i]
    <2>1. LET new == [lines EXCEPT ![n] = r]
          IN  /\ new \in Seq(LineRecord) /\ DOMAIN new = DOMAIN lines /\ new[n] = r
              /\ \A i \in DOMAIN lines : i # n => new[i] = lines[i]
      BY <1>1, <1>2, ReplaceSteps, Zenon
    <2>. QED  BY <1>3, <2>1, Zenon
  <1>. QED  BY <1>2, <1>4 DEF LineStep

(* One user of the pool goes on. *)
PieceStep(k) ==
    /\ DOMAIN runs' = DOMAIN runs \cup {k}
    /\ DOMAIN runs' \in SUBSET Users /\ runs' \in [DOMAIN runs' -> PieceRecord]
    /\ \A u \in DOMAIN runs : u # k => runs'[u] = runs[u]

LEMMA MovePiece ==
    ASSUME ServerTypes, NEW k \in DOMAIN runs,
           NEW place \in {"ready", "queued", "aborted", "running", "written", "done"},
           runs' = [runs EXCEPT ![k].at = place]
    PROVE  /\ PieceStep(k) /\ runs'[k].at = place
           /\ runs'[k].left = runs[k].left /\ runs'[k].result = runs[k].result
  <1>. DEFINE r == [runs[k] EXCEPT !.at = place]
  <1>1. runs[k] \in PieceRecord /\ DOMAIN runs \in SUBSET Users
    BY RecordTypes DEF ServerTypes
  <1>2. /\ r \in PieceRecord /\ r.at = place
        /\ r.left = runs[k].left /\ r.result = runs[k].result
    BY <1>1 DEF PieceRecord
  <1>3. runs' = [runs EXCEPT ![k] = r]
    OBVIOUS
  <1>. HIDE DEF r
  <1>4. DOMAIN runs' = DOMAIN runs /\ runs'[k] = r
        /\ \A u \in DOMAIN runs : u # k => runs'[u] = runs[u]
    BY <1>3
  <1>5. runs' \in [DOMAIN runs' -> PieceRecord]
    BY <1>2, <1>3 DEF ServerTypes
  <1>. QED  BY <1>1, <1>2, <1>4, <1>5 DEF PieceStep

LEMMA SetPiece ==
    ASSUME ServerTypes, NEW k \in Users, NEW piece \in PieceRecord,
           \/ WithRun(k, piece)
           \/ k \in DOMAIN runs /\ runs' = [runs EXCEPT ![k] = piece]
    PROVE  PieceStep(k) /\ runs'[k] = piece
  <1>1. /\ DOMAIN runs' = DOMAIN runs \cup {k} /\ runs'[k] = piece
        /\ \A u \in DOMAIN runs : u # k => runs'[u] = runs[u]
        /\ runs' = [u \in DOMAIN runs' |-> runs'[u]]
    BY DEF WithRun
  <1>2. /\ DOMAIN runs \in SUBSET Users
        /\ \A u \in DOMAIN runs : runs[u] \in PieceRecord
    BY RecordTypes DEF ServerTypes
  <1>3. \A u \in DOMAIN runs' : runs'[u] \in PieceRecord
    BY <1>1, <1>2
  <1>4. runs' \in [DOMAIN runs' -> PieceRecord]
    BY <1>1, <1>3
  <1>. QED  BY <1>1, <1>2, <1>4 DEF PieceStep

LEMMA PieceTypes ==
    ASSUME NEW place \in {"ready", "queued", "aborted", "running", "written", "done"},
           NEW left \in Int, NEW result \in Answers
    PROVE  /\ Piece(place, left, result) \in PieceRecord
           /\ Piece(place, left, result).at = place
           /\ Piece(place, left, result).left = left
           /\ Piece(place, left, result).result = result
  BY DEF Piece, PieceRecord

-----------------------------------------------------------------------------
(* What the steps that change several variables do. *)

LEMMA ReceiveSteps ==
    ASSUME ServerTypes, NEW request \in Requests, Receive(request)
    PROVE  /\ serve.at = "reading"
           /\ UNCHANGED <<batch, flushes, detached, runs, queue, file, writes, writer,
                          printed>>
           /\ \/ UNCHANGED lines /\ serve' = [serve EXCEPT !.at = "failed"]
              \/ /\ UNCHANGED serve
                 /\ \E l \in LineRecord :
                       /\ lines' = Append(lines, l) /\ l.request = request
                       /\ l.scheduled = Reported /\ l.handles = <<>>
                       /\ IF IsCall(request) THEN l.at = "called" /\ l.answer = "none"
                          ELSE l.at = "answered"
  <1>1. Reported \in SUBSET Nat
    BY RecordTypes DEF Reported
  <1>2. \A place \in Places, answer \in Answers :
            LET l == Line(request, place, answer, Reported)
            IN  /\ l \in LineRecord /\ l.request = request /\ l.scheduled = Reported
                /\ l.handles = <<>> /\ l.at = place /\ l.answer = answer
    <2>. TAKE place \in Places, answer \in Answers
    <2>1. <<>> \in Seq(Nat)
      OBVIOUS
    <2>. QED  BY <1>1, <2>1 DEF Line, LineRecord
  <1>3. {"called", "answered"} \subseteq Places /\ {"ok", "error", "none"} \subseteq Answers
    BY DEF Places, Answers
  <1>4. /\ serve.at = "reading"
        /\ UNCHANGED <<batch, flushes, detached, runs, queue, file, writes, writer,
                       printed>>
    BY DEF Receive
  <1>5. CASE request.method = "not JSON" /\ ServeAt("failed") /\ UNCHANGED lines
    BY <1>4, <1>5 DEF ServeAt
  <1>6. CASE /\ request.method # "not JSON" /\ ~IsCall(request)
             /\ IF writer = "up"
                THEN /\ lines' = Append(lines, Line(request, "answered",
                           IF request.id = "fresh" THEN "ok" ELSE "error", Reported))
                     /\ UNCHANGED serve
                ELSE ServeAt("failed") /\ UNCHANGED lines
    <2>1. CASE writer = "up"
      <3>. DEFINE answer == IF request.id = "fresh" THEN "ok" ELSE "error"
                  l == Line(request, "answered", answer, Reported)
      <3>1. answer \in Answers
        BY <1>3
      <3>2. /\ l \in LineRecord /\ l.request = request /\ l.scheduled = Reported
            /\ l.handles = <<>> /\ l.at = "answered"
        BY <1>2, <1>3, <3>1
      <3>3. lines' = Append(lines, l) /\ UNCHANGED serve /\ ~IsCall(request)
        BY <1>6, <2>1
      <3>. HIDE DEF l
      <3>. QED  BY <1>4, <3>2, <3>3
    <2>2. CASE writer # "up"
      BY <1>4, <1>6, <2>2 DEF ServeAt
    <2>. QED  BY <2>1, <2>2
  <1>7. CASE IsCall(request) /\ Instrumented /\ ServeAt("failed") /\ UNCHANGED lines
    BY <1>4, <1>7 DEF ServeAt
  <1>8. CASE /\ IsCall(request)
             /\ lines' = Append(lines, Line(request, "called", "none", Reported))
             /\ UNCHANGED serve
    <2>. DEFINE l == Line(request, "called", "none", Reported)
    <2>1. /\ l \in LineRecord /\ l.request = request /\ l.scheduled = Reported
          /\ l.handles = <<>> /\ l.at = "called" /\ l.answer = "none"
      BY <1>2, <1>3
    <2>2. lines' = Append(lines, l) /\ UNCHANGED serve /\ IsCall(request)
      BY <1>8
    <2>. HIDE DEF l
    <2>. QED  BY <1>4, <2>1, <2>2
  <1>. QED  BY <1>5, <1>6, <1>7, <1>8 DEF Receive

LEMMA HeldNumbered ==
    ASSUME ServerTypes, NEW s \in Seq(Nat), \A n \in Members(s) : n \in DOMAIN lines
    PROVE  Numbered(s)
  BY RecordTypes DEF Numbered, Members

(* batch_io: refused, or put into the batch, which it may fill. *)
LEMMA ContributeSteps ==
    ASSUME ServerTypes, HeldOnce, NEW n \in DOMAIN lines, Contribute(n)
    PROVE  /\ Up /\ lines[n].at = "called" /\ lines[n].request.tool = "batch_io"
           /\ LineStep(n)
           /\ UNCHANGED <<serve, detached, runs, queue, file, writes, writer, printed>>
           /\ \/ /\ lines'[n].at \in Finished /\ lines'[n].answer = "invalid"
                 /\ lines'[n].handles = lines[n].handles /\ UNCHANGED <<batch, flushes>>
              \/ /\ lines'[n].at = "contributed" /\ lines'[n].answer = lines[n].answer
                 /\ lines'[n].handles = lines[n].handles
                 /\ \/ batch' = Append(batch, n) /\ UNCHANGED flushes
                    \/ /\ batch' = <<>>
                       /\ \E f \in FlushRecord :
                             /\ flushes' = Append(flushes, f)
                             /\ f.at = "next" /\ Distinct(f.pending)
                             /\ Members(f.pending) = Members(batch) \cup {n}
  <1>. DEFINE entries == Append(batch, n)
              request == lines[n].request
  <1>1. /\ Up /\ lines[n].at = "called" /\ lines[n].request.tool = "batch_io"
        /\ UNCHANGED <<serve, detached, runs, queue, file, writes, writer, printed>>
        /\ IF ~(request.slot < MaxSlot) \/ request.width = 0
           THEN Answer(n, "invalid") /\ UNCHANGED <<batch, flushes>>
           ELSE /\ lines' = [lines EXCEPT ![n].at = "contributed"]
                /\ IF Len(entries) >= request.width
                   THEN /\ batch' = <<>>
                        /\ flushes' = Append(flushes,
                              [by |-> n, at |-> "next", group |-> <<>>,
                               pending |-> SortedBySlot(entries)])
                   ELSE batch' = entries /\ UNCHANGED flushes
    BY DEF Contribute, InCall
  <1>2. "invalid" \in Answers /\ "contributed" \in Places
    BY DEF Answers, Places
  <1>3. CASE ~(request.slot < MaxSlot) \/ request.width = 0
    BY <1>1, <1>2, <1>3, AnswerLine
  <1>4. CASE ~(~(request.slot < MaxSlot) \/ request.width = 0)
    <2>1. /\ LineStep(n) /\ lines'[n].at = "contributed"
          /\ lines'[n].answer = lines[n].answer /\ lines'[n].handles = lines[n].handles
      BY <1>1, <1>2, <1>4, MoveLine
    <2>2. CASE ~(Len(entries) >= request.width)
      BY <1>1, <1>4, <2>1, <2>2
    <2>3. CASE Len(entries) >= request.width
      <3>1. batch \in Seq(Nat) /\ n \in Nat /\ entries \in Seq(Nat)
        BY RecordTypes, AppendSteps DEF ServerTypes
      <3>2. Members(entries) = Members(batch) \cup {n}
        BY <3>1, AppendMembers
      <3>3. \A i \in Members(batch) : i \in DOMAIN lines /\ i # n
        BY <1>1 DEF HeldOnce, Contributed, Contribution
      <3>4. Distinct(entries)
        <4>1. \A i \in DOMAIN batch : batch[i] # n
          BY <3>3 DEF Members
        <4>. QED  BY <3>1, <4>1, AppendDistinct DEF HeldOnce
      <3>. HIDE DEF entries
      <3>5. Numbered(entries)
        BY <3>1, <3>2, <3>3, HeldNumbered
      <3>. DEFINE sorted == SortedBySlot(entries)
                  f == [by |-> n, at |-> "next", group |-> <<>>, pending |-> sorted]
      <3>6. sorted \in Seq(Nat) /\ Members(sorted) = Members(entries) /\ Distinct(sorted)
        BY <3>1, <3>4, <3>5, SortSteps
      <3>7. batch' = <<>> /\ flushes' = Append(flushes, f)
        BY <1>1, <1>4, <2>3
      <3>. HIDE DEF sorted
      <3>8. f \in FlushRecord /\ f.at = "next" /\ f.pending = sorted
        <4>1. <<>> \in Seq(Nat)
          OBVIOUS
        <4>. QED  BY <3>1, <3>6, <4>1 DEF FlushRecord
      <3>9. Distinct(f.pending) /\ Members(f.pending) = Members(batch) \cup {n}
        BY <3>2, <3>6, <3>8
      <3>. HIDE DEF f
      <3>. QED  BY <1>1, <2>1, <3>7, <3>8, <3>9
    <2>. QED  BY <2>2, <2>3
  <1>. QED  BY <1>3, <1>4

(* One user of the pool goes on, the tasks stay where they are. *)
Stays == <<lines, serve, batch, flushes, detached, writer, printed>>
PoolStep(k) ==
    /\ UNCHANGED Stays
    /\ k \in DOMAIN runs /\ PieceStep(k) /\ runs[k].at # "done"

LEMMA SubmitSteps ==
    ASSUME ServerTypes, NEW k \in DOMAIN runs, Submit(k)
    PROVE  /\ PoolStep(k) /\ UNCHANGED writes
           /\ runs[k].at = "ready" /\ queue' = Append(queue, k)
           /\ runs'[k].at = "queued" /\ runs'[k].left = runs[k].left
  <1>1. /\ UNCHANGED Stays /\ UNCHANGED writes /\ runs[k].at = "ready"
        /\ queue' = Append(queue, k) /\ runs' = [runs EXCEPT ![k].at = "queued"]
    BY DEF Submit, Stays
  <1>2. PieceStep(k) /\ runs'[k].at = "queued" /\ runs'[k].left = runs[k].left
    BY <1>1, MovePiece
  <1>. QED  BY <1>1, <1>2 DEF PoolStep

LEMMA TakeWorkSteps ==
    ASSUME ServerTypes, QueueKnown, TakeWork
    PROVE  /\ queue # <<>> /\ queue' = Tail(queue) /\ UNCHANGED writes
           /\ PoolStep(Head(queue))
           /\ LET k == Head(queue) IN
              \/ /\ runs[k].at = "queued" /\ runs'[k].at = "running"
                 /\ runs'[k].left = runs[k].left
              \/ runs[k].at = "aborted" /\ runs'[k].at = "done"
  <1>. DEFINE k == Head(queue)
  <1>1. /\ UNCHANGED Stays /\ UNCHANGED writes /\ queue # <<>> /\ queue' = Tail(queue)
        /\ runs' = [runs EXCEPT ![k] =
              IF runs[k].at = "aborted" THEN Piece("done", 0, "cancelled")
              ELSE [@ EXCEPT !.at = "running"]]
    BY DEF TakeWork, Stays
  <1>2. k \in DOMAIN runs /\ runs[k].at \in {"queued", "aborted"}
    <2>1. 1 \in DOMAIN queue /\ k = queue[1]
      BY <1>1, TailSteps DEF ServerTypes
    <2>. QED  BY <2>1 DEF QueueKnown
  <1>. HIDE DEF k
  <1>3. CASE runs[k].at = "aborted"
    <2>1. runs' = [runs EXCEPT ![k] = Piece("done", 0, "cancelled")]
      BY <1>1, <1>3
    <2>2. Piece("done", 0, "cancelled") \in PieceRecord
          /\ Piece("done", 0, "cancelled").at = "done"
      BY PieceTypes DEF Answers
    <2>3. PieceStep(k) /\ runs'[k] = Piece("done", 0, "cancelled")
      BY <1>2, <2>1, <2>2, SetPiece DEF ServerTypes
    <2>. QED  BY <1>1, <1>2, <1>3, <2>2, <2>3 DEF PoolStep, k
  <1>4. CASE runs[k].at = "queued"
    <2>1. runs' = [runs EXCEPT ![k].at = "running"]
      BY <1>1, <1>4
    <2>2. PieceStep(k) /\ runs'[k].at = "running" /\ runs'[k].left = runs[k].left
      BY <1>2, <2>1, MovePiece
    <2>. QED  BY <1>1, <1>2, <1>4, <2>2 DEF PoolStep, k
  <1>. QED  BY <1>2, <1>3, <1>4

(* The piece of a user that has no second one is over. *)
LEMMA OverSteps ==
    ASSUME ServerTypes, NEW k \in DOMAIN runs, NEW result \in Answers,
           runs' = [runs EXCEPT ![k] = Over(k, result)]
    PROVE  /\ PieceStep(k) /\ runs'[k].at \in {"ready", "done"}
           /\ k # Background /\ runs[k].left = 1 =>
                 runs'[k].at = "done" /\ runs'[k].result = result
  <1>. DEFINE left == IF k = Background THEN 1 ELSE runs[k].left - 1
              over == Over(k, result)
  <1>1. left \in Int
    BY RecordTypes
  <1>2. over = IF result = "ok" /\ left > 0 THEN Piece("ready", left, "ok")
               ELSE Piece("done", left, result)
    BY DEF Over
  <1>3. k # Background /\ runs[k].left = 1 => left = 0
    OBVIOUS
  <1>. HIDE DEF left
  <1>4. /\ over \in PieceRecord /\ over.at \in {"ready", "done"}
        /\ left = 0 => over.at = "done" /\ over.result = result
    <2>1. CASE result = "ok" /\ left > 0
      BY <1>1, <1>2, <2>1, PieceTypes DEF Answers
    <2>2. CASE ~(result = "ok" /\ left > 0)
      BY <1>1, <1>2, <2>2, PieceTypes
    <2>. QED  BY <2>1, <2>2
  <1>5. k \in Users
    BY DEF ServerTypes
  <1>. HIDE DEF over
  <1>6. PieceStep(k) /\ runs'[k] = over
    BY <1>4, <1>5, SetPiece DEF over
  <1>. QED  BY <1>3, <1>4, <1>6

LEMMA ReadBackSteps ==
    ASSUME ServerTypes, NEW k \in DOMAIN runs, ReadBack(k)
    PROVE  /\ PoolStep(k) /\ UNCHANGED <<queue, writes>>
           /\ runs[k].at = "written" /\ runs'[k].at \in {"ready", "done"}
  <1>1. /\ UNCHANGED Stays /\ UNCHANGED <<queue, writes>> /\ runs[k].at = "written"
        /\ \E result \in {"ok", "mismatch", "error"} :
              runs' = [runs EXCEPT ![k] = Over(k, result)]
    BY DEF ReadBack, Stays
  <1>2. PICK result \in Answers : runs' = [runs EXCEPT ![k] = Over(k, result)]
    BY <1>1 DEF Answers
  <1>. QED  BY <1>1, <1>2, OverSteps DEF PoolStep

(* What a piece of work leaves when it is run. *)
FlushWrite(m) ==
    [flush |-> m, members |-> Members(flushes[m].group),
     slots |-> {Target(FlushOf(m))[i] : i \in DOMAIN Target(FlushOf(m))},
     owners |-> Owners(flushes[m])]

LEMMA PerformSteps ==
    ASSUME ServerTypes, RunsKnown, NEW k \in DOMAIN runs, Perform(k)
    PROVE  /\ PoolStep(k) /\ UNCHANGED queue
           /\ runs[k].at = "running" /\ runs'[k].at \in {"ready", "written", "done"}
           /\ \/ /\ UNCHANGED writes
                 /\ \A m \in DOMAIN flushes : k = FlushOf(m) =>
                       runs'[k].at = "done" /\ runs'[k].result = "error"
              \/ \E m \in DOMAIN flushes :
                    /\ k = FlushOf(m) /\ runs'[k].at = "done" /\ runs'[k].result = "ok"
                    /\ writes' = writes \cup {FlushWrite(m)}
  <1>. DEFINE target == Target(k)
  <1>1. /\ UNCHANGED Stays /\ UNCHANGED queue /\ runs[k].at = "running"
        /\ \/ /\ runs' = [runs EXCEPT ![k] = IF Tool(k) = "slot_io"
                                             THEN [@ EXCEPT !.at = "written"]
                                             ELSE Over(k, "ok")]
              /\ writes' = IF Tool(k) # "flush" THEN writes
                           ELSE writes \cup {[flush |-> k[2],
                                              members |-> Members(flushes[k[2]].group),
                                              slots |-> {target[i] : i \in DOMAIN target},
                                              owners |-> Owners(flushes[k[2]])]}
           \/ /\ runs' = [runs EXCEPT ![k] = Over(k, "error")]
              /\ UNCHANGED writes
    BY DEF Perform, Stays
  <1>2. \A m \in DOMAIN flushes : k = FlushOf(m) =>
           k # Background /\ runs[k].left = 1 /\ Tool(k) = "flush" /\ k[2] = m
    <2>. TAKE m \in DOMAIN flushes
    <2>. HAVE k = FlushOf(m)
    <2>1. runs[k].left = 1
      BY <1>1 DEF RunsKnown, FlushKnown
    <2>. QED  BY <2>1 DEF FlushOf, Background, Tool
  <1>3. Tool(k) = "flush" => \E m \in DOMAIN flushes : k = FlushOf(m)
    <2>1. k \in Users
      BY DEF ServerTypes
    <2>2. PICK who \in {"background", "call", "job", "flush"}, n \in Nat : k = <<who, n>>
      BY <2>1 DEF Users
    <2>3. CASE who = "call"
      <3>1. lines[n].request.tool \in PoolTools /\ k = CallOf(n) /\ Tool(k) = lines[n].request.tool
        BY <2>2, <2>3 DEF RunsKnown, CallKnown, CallOf, Tool
      <3>. QED  BY <3>1 DEF PoolTools
    <2>4. CASE who = "job"
      <3>1. lines[n].request.tool = "slot_io" /\ k = JobOf(n) /\ Tool(k) = lines[n].request.tool
        BY <2>2, <2>4 DEF RunsKnown, JobKnown, JobOf, Tool
      <3>. QED  BY <3>1
    <2>5. CASE who = "flush"
      BY <2>2, <2>5 DEF RunsKnown, FlushOf
    <2>6. CASE who = "background"
      BY <2>2, <2>6 DEF Tool
    <2>. QED  BY <2>2, <2>3, <2>4, <2>5, <2>6
  <1>. HIDE DEF target
  <1>4. CASE runs' = [runs EXCEPT ![k] = Over(k, "error")] /\ UNCHANGED writes
    <2>1. "error" \in Answers
      BY DEF Answers
    <2>. QED  BY <1>1, <1>2, <1>4, <2>1, OverSteps DEF PoolStep
  <1>5. CASE /\ Tool(k) = "slot_io" /\ UNCHANGED writes
             /\ runs' = [runs EXCEPT ![k].at = "written"]
    <2>1. PieceStep(k) /\ runs'[k].at = "written"
      BY <1>5, MovePiece
    <2>2. \A m \in DOMAIN flushes : k # FlushOf(m)
      BY <1>2, <1>5
    <2>. QED  BY <1>1, <1>5, <2>1, <2>2 DEF PoolStep
  <1>6. CASE /\ Tool(k) \notin {"slot_io", "flush"} /\ UNCHANGED writes
             /\ runs' = [runs EXCEPT ![k] = Over(k, "ok")]
    <2>1. "ok" \in Answers
      BY DEF Answers
    <2>2. \A m \in DOMAIN flushes : k # FlushOf(m)
      BY <1>2, <1>6
    <2>. QED  BY <1>1, <1>6, <2>1, <2>2, OverSteps DEF PoolStep
  <1>7. CASE /\ Tool(k) = "flush" /\ runs' = [runs EXCEPT ![k] = Over(k, "ok")]
             /\ writes' = writes \cup {[flush |-> k[2],
                                        members |-> Members(flushes[k[2]].group),
                                        slots |-> {target[i] : i \in DOMAIN target},
                                        owners |-> Owners(flushes[k[2]])]}
    <2>1. PICK m \in DOMAIN flushes : k = FlushOf(m)
      BY <1>3, <1>7
    <2>2. k # Background /\ runs[k].left = 1 /\ k[2] = m
      BY <1>2, <2>1
    <2>3. writes' = writes \cup {FlushWrite(m)}
      BY <1>7, <2>1, <2>2 DEF FlushWrite, target
    <2>4. "ok" \in Answers
      BY DEF Answers
    <2>5. PieceStep(k) /\ runs'[k].at = "done" /\ runs'[k].result = "ok"
      BY <1>7, <2>2, <2>4, OverSteps
    <2>. QED  BY <1>1, <2>1, <2>3, <2>5 DEF PoolStep
  <1>. QED  BY <1>1, <1>4, <1>5, <1>6, <1>7

-----------------------------------------------------------------------------
(* The pool keeps the invariant. *)

LEMMA PoolStepKeeps ==
    ASSUME ServerInv, NEW k, PoolStep(k)
    PROVE  /\ DOMAIN runs' = DOMAIN runs
           /\ HeldOnce' /\ GroupsRight' /\ HandlesKnown' /\ JobsKept' /\ BarrierKnows'
           /\ ServeKnown'
  <1>1. /\ UNCHANGED <<lines, serve, batch, flushes, detached, writer, printed>>
        /\ DOMAIN runs' = DOMAIN runs /\ runs[k].at # "done"
        /\ \A u \in DOMAIN runs : u # k => runs'[u] = runs[u]
    BY DEF PoolStep, PieceStep, Stays
  <1>2. HeldOnce'
    <2>1. /\ \A n : Contributed(n)' <=> Contributed(n)
          /\ \A m : Held(m)' = Held(m)
          /\ Members(batch)' = Members(batch) /\ (Distinct(batch)' <=> Distinct(batch))
      BY <1>1 DEF Contributed, Contribution, Held, Members, Distinct
    <2>2. \A m \in DOMAIN flushes :
             /\ Members(flushes[m].group)' = Members(flushes[m].group)
             /\ Members(flushes[m].pending)' = Members(flushes[m].pending)
             /\ Distinct(flushes[m].pending)' <=> Distinct(flushes[m].pending)
      BY <1>1 DEF Members, Distinct
    <2>. QED  BY <1>1, <2>1, <2>2 DEF ServerInv, HeldOnce
  <1>3. GroupsRight'
    BY <1>1 DEF ServerInv, GroupsRight, GroupRight, Slot
  <1>4. \A n : Job(n)' <=> Job(n)
    BY <1>1 DEF Job
  <1>5. \A n : Job(n) /\ JobEnded(n) => JobEnded(n)'
    BY <1>1 DEF Job, JobEnded
  <1>6. HandlesKnown'
    BY <1>1, <1>4 DEF ServerInv, HandlesKnown, Members, Barriers
  <1>7. /\ Barriers' = Barriers /\ \A b, n : Holds(b, n)' <=> Holds(b, n)
        /\ Members(detached)' = Members(detached)
        /\ Members(serve.handles)' = Members(serve.handles)
    BY <1>1 DEF Barriers, Holds, Members
  <1>8. JobsKept'
    BY <1>1, <1>4, <1>5, <1>7 DEF ServerInv, JobsKept
  <1>9. BarrierKnows'
    <2>1. SUFFICES ASSUME NEW b \in Barriers', NEW n \in (lines[b].scheduled)'
                   PROVE  \/ JobEnded(n)'
                          \/ lines[b].at = "called" /\ n \in Members(detached)
                          \/ \E c \in Barriers : Holds(c, n)'
      BY <1>1, <1>7 DEF BarrierKnows
    <2>2. b \in Barriers /\ n \in lines[b].scheduled
      BY <1>1, <1>7, <2>1
    <2>3. Job(n)
      BY <2>2 DEF ServerInv, HandlesKnown, Barriers
    <2>. QED  BY <1>5, <1>7, <2>2, <2>3 DEF ServerInv, BarrierKnows
  <1>10. ServeKnown'
    BY <1>1 DEF ServerInv, ServeKnown, AllAnswered
  <1>. QED  BY <1>1, <1>2, <1>3, <1>6, <1>8, <1>9, <1>10

(* What is done of a flush is done in its turn. *)
LEMMA PoolStepRuns ==
    ASSUME ServerInv, NEW k, PoolStep(k),
           \A m \in DOMAIN flushes : k = FlushOf(m) =>
              /\ runs'[k].at \in {"queued", "running", "done"}
              /\ runs'[k].at # "done" => runs'[k].left = runs[k].left
    PROVE  RunsKnown'
  <1>1. /\ lines' = lines /\ flushes' = flushes
        /\ DOMAIN runs' = DOMAIN runs /\ runs[k].at # "done"
        /\ \A u \in DOMAIN runs : u # k => runs'[u] = runs[u]
    BY DEF PoolStep, PieceStep, Stays
  <1>2. ASSUME NEW m \in DOMAIN flushes
        PROVE  FlushKnown(m)'
    <2>1. FlushKnown(m)
      BY DEF ServerInv, RunsKnown
    <2>2. CASE k # FlushOf(m)
      BY <1>1, <2>1, <2>2 DEF FlushKnown, FlushOf
    <2>3. CASE k = FlushOf(m)
      <3>1. k \in DOMAIN runs
        BY DEF PoolStep
      <3>2. flushes[m].at # "next"
        BY <1>1, <2>1, <2>3, <3>1 DEF FlushKnown
      <3>3. runs[k].left = 1
        BY <1>1, <2>1, <2>3, <3>2 DEF FlushKnown
      <3>. QED  BY <1>1, <2>3, <3>1, <3>2, <3>3 DEF FlushKnown, FlushOf
    <2>. QED  BY <2>2, <2>3
  <1>3. \A n : (CallKnown(n)' <=> CallKnown(n)) /\ (JobKnown(n)' <=> JobKnown(n))
    BY <1>1 DEF CallKnown, JobKnown
  <1>. HIDE DEF FlushKnown, CallKnown, JobKnown
  <1>4. RunsKnown
    BY DEF ServerInv
  <1>. QED  BY <1>1, <1>2, <1>3, <1>4 DEF RunsKnown, CallOf, JobOf, FlushOf

LEMMA PoolStepWrites ==
    ASSUME ServerInv, NEW k, PoolStep(k), UNCHANGED writes,
           \A m \in DOMAIN flushes : k = FlushOf(m) =>
              runs'[k].at # "done" \/ runs'[k].result = "error"
    PROVE  WritesAreOwned' /\ WritesKnown'
  <1>1. /\ lines' = lines /\ flushes' = flushes /\ writes' = writes
        /\ DOMAIN runs' = DOMAIN runs /\ runs[k].at # "done"
        /\ \A u \in DOMAIN runs : u # k => runs'[u] = runs[u]
    BY DEF PoolStep, PieceStep, Stays
  <1>2. WritesAreOwned'
    BY <1>1 DEF ServerInv, WritesAreOwned, Slot
  <1>3. \A m \in DOMAIN flushes : flushes[m].at = "writing" => (Written(m)' <=> Written(m))
    <2>. TAKE m \in DOMAIN flushes
    <2>. HAVE flushes[m].at = "writing"
    <2>1. FlushOf(m) \in DOMAIN runs
      BY DEF ServerInv, RunsKnown, FlushKnown
    <2>. QED  BY <1>1, <2>1 DEF Written, FlushOf
  <1>4. \A n : Contribution(n)' <=> Contribution(n)
    BY <1>1 DEF Contribution
  <1>5. \A w \in writes : WriteKnown(w) => WriteKnown(w)'
    BY <1>1, <1>3, <1>4 DEF WriteKnown, Members
  <1>. HIDE DEF Written, Contribution, WriteKnown
  <1>6. WritesKnown
    BY DEF ServerInv
  <1>7. \A w \in writes' : WriteKnown(w)'
    BY <1>1, <1>5, <1>6 DEF WritesKnown
  <1>8. \A v, w \in writes' : v.members \cap w.members # {} => v = w
    BY <1>1, <1>6 DEF WritesKnown
  <1>9. \A m \in DOMAIN flushes' : flushes'[m].at = "writing" /\ Written(m)' =>
          \E w \in writes' : w.members = Members(flushes[m].group)'
    BY <1>1, <1>3, <1>6 DEF WritesKnown, Members
  <1>10. \A n \in DOMAIN lines' : Contribution(n)' /\ lines'[n].answer = "ok" =>
          \E w \in writes' : n \in w.members
    BY <1>1, <1>4, <1>6 DEF WritesKnown
  <1>. QED  BY <1>2, <1>7, <1>8, <1>9, <1>10 DEF WritesKnown

LEMMA PoolStepTypes ==
    ASSUME ServerTypes, NEW k, PoolStep(k), queue' \in Seq(Users)
    PROVE  ServerTypes'
  BY DEF ServerTypes, PoolStep, PieceStep, Stays

LEMMA SubmitInv ==
    ASSUME ServerInv, NEW k \in DOMAIN runs, Submit(k)
    PROVE  ServerInv'
  <1>0. ServerTypes /\ QueueKnown
    BY DEF ServerInv
  <1>1. /\ PoolStep(k) /\ UNCHANGED writes
        /\ runs[k].at = "ready" /\ queue' = Append(queue, k)
        /\ runs'[k].at = "queued" /\ runs'[k].left = runs[k].left
    BY <1>0, SubmitSteps
  <1>2. queue \in Seq(Users) /\ k \in Users /\ queue' \in Seq(Users)
    BY <1>0, <1>1, AppendSteps DEF ServerTypes
  <1>3. QueueKnown'
    <2>1. \A i \in DOMAIN queue : queue[i] # k
      BY <1>0, <1>1 DEF QueueKnown
    <2>2. Distinct(queue')
      BY <1>0, <1>1, <1>2, <2>1, AppendDistinct DEF QueueKnown
    <2>3. \A i \in DOMAIN queue' : queue'[i] = k \/ \E j \in DOMAIN queue : queue'[i] = queue[j]
      BY <1>1, <1>2, AppendSteps
    <2>4. \A u \in DOMAIN runs : u # k => runs'[u] = runs[u]
      BY <1>1 DEF PoolStep, PieceStep
    <2>5. DOMAIN runs' = DOMAIN runs
      BY <1>1, PoolStepKeeps
    <2>. QED  BY <1>0, <1>1, <2>1, <2>2, <2>3, <2>4, <2>5 DEF QueueKnown
  <1>4. RunsKnown'
    BY <1>1, PoolStepRuns
  <1>5. WritesAreOwned' /\ WritesKnown'
    BY <1>1, PoolStepWrites
  <1>6. ServerTypes'
    BY <1>0, <1>1, <1>2, PoolStepTypes
  <1>. QED  BY <1>1, <1>3, <1>4, <1>5, <1>6, PoolStepKeeps DEF ServerInv

LEMMA TakeWorkInv ==
    ASSUME ServerInv, TakeWork
    PROVE  ServerInv'
  <1>. DEFINE k == Head(queue)
  <1>0. ServerTypes /\ QueueKnown /\ RunsKnown
    BY DEF ServerInv
  <1>1. /\ queue # <<>> /\ queue' = Tail(queue) /\ UNCHANGED writes
        /\ PoolStep(k)
        /\ \/ /\ runs[k].at = "queued" /\ runs'[k].at = "running"
              /\ runs'[k].left = runs[k].left
           \/ runs[k].at = "aborted" /\ runs'[k].at = "done"
    BY <1>0, TakeWorkSteps
  <1>. HIDE DEF k
  <1>2. queue \in Seq(Users) /\ queue' \in Seq(Users)
    BY <1>0, <1>1, TailSteps DEF ServerTypes
  <1>3. QueueKnown'
    <2>1. Distinct(queue') /\ \A i \in DOMAIN queue' : queue'[i] # k
      BY <1>0, <1>1, <1>2, TailDistinct DEF QueueKnown, k
    <2>2. \A i \in DOMAIN queue' : \E j \in DOMAIN queue : queue'[i] = queue[j]
      <3>1. \A i \in DOMAIN queue' : queue'[i] = queue[i + 1] /\ i + 1 \in DOMAIN queue
        BY <1>1, <1>2, TailSteps
      <3>. QED  BY <3>1
    <2>3. \A u \in DOMAIN runs : u # k => runs'[u] = runs[u]
      BY <1>1 DEF PoolStep, PieceStep
    <2>4. DOMAIN runs' = DOMAIN runs
      BY <1>1, PoolStepKeeps
    <2>. QED  BY <1>0, <2>1, <2>2, <2>3, <2>4 DEF QueueKnown
  <1>4. \A m \in DOMAIN flushes : k = FlushOf(m) =>
              runs'[k].at = "running" /\ runs'[k].left = runs[k].left
    <2>1. \A m \in DOMAIN flushes : k = FlushOf(m) => runs[k].at # "aborted"
      <3>. TAKE m \in DOMAIN flushes
      <3>. HAVE k = FlushOf(m)
      <3>1. FlushKnown(m) /\ k \in DOMAIN runs
        BY <1>0, <1>1 DEF RunsKnown, PoolStep
      <3>. QED  BY <3>1 DEF FlushKnown
    <2>. QED  BY <1>1, <2>1
  <1>5. RunsKnown'
    BY <1>1, <1>4, PoolStepRuns
  <1>6. WritesAreOwned' /\ WritesKnown'
    BY <1>1, <1>4, PoolStepWrites
  <1>7. ServerTypes'
    BY <1>0, <1>1, <1>2, PoolStepTypes
  <1>. QED  BY <1>1, <1>3, <1>5, <1>6, <1>7, PoolStepKeeps DEF ServerInv

(* A queued piece is not on a thread. *)
LEMMA ThreadQueue ==
    ASSUME ServerInv, NEW k, PoolStep(k), UNCHANGED queue,
           runs[k].at \notin {"queued", "aborted"}
    PROVE  QueueKnown'
  <1>1. /\ \A u \in DOMAIN runs : u # k => runs'[u] = runs[u]
        /\ DOMAIN runs' = DOMAIN runs /\ queue' = queue
    BY DEF PoolStep, PieceStep
  <1>. QED  BY <1>1 DEF ServerInv, QueueKnown, Distinct

LEMMA ReadBackInv ==
    ASSUME ServerInv, NEW k \in DOMAIN runs, ReadBack(k)
    PROVE  ServerInv'
  <1>0. ServerTypes /\ RunsKnown
    BY DEF ServerInv
  <1>1. /\ PoolStep(k) /\ UNCHANGED <<queue, writes>>
        /\ runs[k].at = "written" /\ runs'[k].at \in {"ready", "done"}
    BY <1>0, ReadBackSteps
  <1>2. \A m \in DOMAIN flushes : k # FlushOf(m)
    <2>1. \A m \in DOMAIN flushes : FlushKnown(m)
      BY <1>0 DEF RunsKnown
    <2>. QED  BY <1>1, <2>1 DEF FlushKnown
  <1>3. QueueKnown'
    BY <1>1, ThreadQueue
  <1>4. RunsKnown'
    BY <1>1, <1>2, PoolStepRuns
  <1>5. WritesAreOwned' /\ WritesKnown'
    BY <1>1, <1>2, PoolStepWrites
  <1>6. ServerTypes'
    BY <1>0, <1>1, PoolStepTypes DEF ServerTypes
  <1>. QED  BY <1>1, <1>3, <1>4, <1>5, <1>6, PoolStepKeeps DEF ServerInv

(* A shared write: its group was right, and nothing had been written for it. *)
LEMMA FlushWriteRight ==
    ASSUME ServerInv, NEW m \in DOMAIN flushes, flushes[m].at = "writing"
    PROVE  LET w == FlushWrite(m)
           IN  /\ w.slots = {Slot(n) : n \in w.members}
               /\ (Instrumented /\ \E n \in w.members : lines[n].request.joined)
                     => w.owners = w.members
  <1>. DEFINE group == flushes[m].group
              w == FlushWrite(m)
  <1>1. GroupRight(group)
    BY DEF ServerInv, GroupsRight
  <1>2. w.members = Members(group) /\ w.owners = Owners(flushes[m])
        /\ w.slots = {Target(FlushOf(m))[i] : i \in DOMAIN Target(FlushOf(m))}
    BY DEF FlushWrite
  <1>3. Target(FlushOf(m)) = [i \in DOMAIN group |-> Slot(group[1]) + i - 1]
    BY DEF Target, FlushOf, Tool
  <1>4. \A i \in DOMAIN group : Slot(group[i]) = Slot(group[1]) + i - 1
    BY <1>1 DEF GroupRight
  <1>5. w.slots = {Slot(group[i]) : i \in DOMAIN group}
    BY <1>2, <1>3, <1>4
  <1>6. w.slots = {Slot(n) : n \in w.members}
    BY <1>2, <1>5 DEF Members
  <1>7. ASSUME Instrumented, NEW n \in w.members, lines[n].request.joined
        PROVE  w.owners = w.members
    <2>1. PICK i \in DOMAIN group : n = group[i]
      BY <1>2, <1>7 DEF Members
    <2>2. lines[group[1]].request.joined
      BY <1>1, <1>7, <2>1 DEF GroupRight
    <2>3. Owners(flushes[m]) = Members(group)
      BY <1>7, <2>2 DEF Owners
    <2>. QED  BY <1>2, <2>3
  <1>. QED  BY <1>6, <1>7

LEMMA NothingWritten ==
    ASSUME ServerInv, NEW m \in DOMAIN flushes, flushes[m].at = "writing", ~Written(m),
           NEW w \in writes
    PROVE  w.members \cap Members(flushes[m].group) = {}
  <1>1. SUFFICES ASSUME NEW n \in w.members, n \in Members(flushes[m].group)
                 PROVE  FALSE
    OBVIOUS
  <1>2. n \in Held(m)
    BY <1>1 DEF Held
  <1>3. Contributed(n)
    BY <1>2 DEF ServerInv, HeldOnce
  <1>4. WriteKnown(w)
    BY DEF ServerInv, WritesKnown
  <1>5. /\ w.flush \in DOMAIN flushes
        /\ flushes[w.flush].at = "writing" /\ Written(w.flush)
        /\ w.members = Members(flushes[w.flush].group)
    BY <1>1, <1>3, <1>4 DEF WriteKnown, Contributed
  <1>6. n \in Held(w.flush)
    BY <1>1, <1>5 DEF Held
  <1>7. w.flush = m
    BY <1>2, <1>5, <1>6 DEF ServerInv, HeldOnce
  <1>. QED  BY <1>5, <1>7

LEMMA PerformInv ==
    ASSUME ServerInv, NEW k \in DOMAIN runs, Perform(k)
    PROVE  ServerInv'
  <1>0. ServerTypes /\ RunsKnown
    BY DEF ServerInv
  <1>1. /\ PoolStep(k) /\ UNCHANGED queue
        /\ runs[k].at = "running" /\ runs'[k].at \in {"ready", "written", "done"}
        /\ \/ /\ UNCHANGED writes
              /\ \A m \in DOMAIN flushes : k = FlushOf(m) =>
                    runs'[k].at = "done" /\ runs'[k].result = "error"
           \/ \E m \in DOMAIN flushes :
                 /\ k = FlushOf(m) /\ runs'[k].at = "done" /\ runs'[k].result = "ok"
                 /\ writes' = writes \cup {FlushWrite(m)}
    BY <1>0, PerformSteps
  <1>2. QueueKnown'
    BY <1>1, ThreadQueue
  <1>3. RunsKnown'
    <2>1. \A m \in DOMAIN flushes : k = FlushOf(m) => runs'[k].at = "done"
      BY <1>1
    <2>. QED  BY <1>1, <2>1, PoolStepRuns
  <1>4. ServerTypes'
    BY <1>0, <1>1, PoolStepTypes DEF ServerTypes
  <1>5. WritesAreOwned' /\ WritesKnown'
    <2>1. CASE /\ UNCHANGED writes
               /\ \A m \in DOMAIN flushes : k = FlushOf(m) =>
                     runs'[k].at = "done" /\ runs'[k].result = "error"
      BY <1>1, <2>1, PoolStepWrites
    <2>2. CASE \E m \in DOMAIN flushes :
                 /\ k = FlushOf(m) /\ runs'[k].at = "done" /\ runs'[k].result = "ok"
                 /\ writes' = writes \cup {FlushWrite(m)}
      <3>. PICK m \in DOMAIN flushes :
                 /\ k = FlushOf(m) /\ runs'[k].at = "done" /\ runs'[k].result = "ok"
                 /\ writes' = writes \cup {FlushWrite(m)}
        BY <2>2
      <3>0. PICK new : new = FlushWrite(m)
        OBVIOUS
      <3>1. /\ lines' = lines /\ flushes' = flushes
            /\ DOMAIN runs' = DOMAIN runs
            /\ \A u \in DOMAIN runs : u # k => runs'[u] = runs[u]
        BY <1>1 DEF PoolStep, PieceStep, Stays
      <3>2. flushes[m].at = "writing" /\ ~Written(m)
        <4>1. FlushKnown(m)
          BY <1>0 DEF RunsKnown
        <4>. QED  BY <1>1, <4>1, RecordTypes, <1>0 DEF FlushKnown, Written
      <3>3. WritesAreOwned'
        <4>1. WritesAreOwned
          BY DEF ServerInv
        <4>2. /\ new.slots = {Slot(n) : n \in new.members}
              /\ (Instrumented /\ \E n \in new.members : lines[n].request.joined)
                     => new.owners = new.members
          BY <3>0, <3>2, FlushWriteRight
        <4>3. writes' = writes \cup {new}
          BY <3>0
        <4>. QED  BY <3>1, <4>1, <4>2, <4>3 DEF WritesAreOwned, Slot
      <3>4. Written(m)'
        BY DEF Written, FlushOf
      <3>5. \A l \in DOMAIN flushes : flushes[l].at = "writing" /\ l # m =>
               (Written(l)' <=> Written(l))
        <4>. TAKE l \in DOMAIN flushes
        <4>. HAVE flushes[l].at = "writing" /\ l # m
        <4>1. FlushOf(l) \in DOMAIN runs
          BY DEF ServerInv, RunsKnown, FlushKnown
        <4>2. FlushOf(l) # k
          BY KeysApart
        <4>. QED  BY <3>1, <4>1, <4>2 DEF Written, FlushOf
      <3>6. \A n : Contribution(n)' <=> Contribution(n)
        BY <3>1 DEF Contribution
      <3>7. new.flush = m /\ new.members = Members(flushes[m].group)
        BY <3>0 DEF FlushWrite
      <3>8. \A n \in new.members : Contributed(n)
        BY <3>2, <3>7 DEF ServerInv, HeldOnce, Held
      <3>9. writes' = writes \cup {new}
        BY <3>0
      <3>10. WriteKnown(new)'
        BY <3>1, <3>2, <3>4, <3>6, <3>7, <3>8 DEF WriteKnown, Contributed, Members
      <3>11. \A w \in writes : WriteKnown(w)'
        <4>. TAKE w \in writes
        <4>1. WriteKnown(w)
          BY DEF ServerInv, WritesKnown
        <4>2. w.flush \in DOMAIN flushes /\ flushes[w.flush].at = "writing" /\ Written(w.flush)
              => Written(w.flush)'
          BY <3>4, <3>5
        <4>. QED  BY <3>1, <3>6, <4>1, <4>2 DEF WriteKnown, Members
      <3>12. \A w \in writes : w.members \cap new.members = {}
        BY <3>2, <3>7, NothingWritten
      <3>. HIDE DEF Written, Contribution, WriteKnown
      <3>13. WritesKnown
        BY DEF ServerInv
      <3>14. \A w \in writes' : WriteKnown(w)'
        BY <3>9, <3>10, <3>11
      <3>15. \A v, w \in writes' : v.members \cap w.members # {} => v = w
        BY <3>9, <3>12, <3>13 DEF WritesKnown
      <3>16. \A l \in DOMAIN flushes' : flushes'[l].at = "writing" /\ Written(l)' =>
              \E w \in writes' : w.members = Members(flushes[l].group)'
        <4>. TAKE l \in DOMAIN flushes'
        <4>. HAVE flushes'[l].at = "writing" /\ Written(l)'
        <4>1. Members(flushes[l].group)' = Members(flushes[l].group)
          BY <3>1 DEF Members
        <4>2. CASE l = m
          BY <3>7, <3>9, <4>1, <4>2
        <4>3. CASE l # m
          BY <3>1, <3>5, <3>9, <3>13, <4>1, <4>3 DEF WritesKnown
        <4>. QED  BY <4>2, <4>3
      <3>17. \A n \in DOMAIN lines' : Contribution(n)' /\ lines'[n].answer = "ok" =>
              \E w \in writes' : n \in w.members
        BY <3>1, <3>6, <3>9, <3>13 DEF WritesKnown
      <3>. QED  BY <3>3, <3>14, <3>15, <3>16, <3>17 DEF WritesKnown
    <2>. QED  BY <1>1, <2>1, <2>2
  <1>. QED  BY <1>1, <1>2, <1>3, <1>4, <1>5, PoolStepKeeps DEF ServerInv

-----------------------------------------------------------------------------
(* The flushes keep the invariant. *)

(* A group gets its answer. *)
RepliedStep(group, answer) ==
    /\ lines' \in Seq(LineRecord) /\ DOMAIN lines' = DOMAIN lines
    /\ \A n \in DOMAIN lines :
          IF n \in Members(group)
          THEN /\ lines'[n].at = "replied" /\ lines'[n].answer = answer
               /\ lines'[n].request = lines[n].request
               /\ lines'[n].scheduled = lines[n].scheduled
               /\ lines'[n].handles = lines[n].handles
          ELSE lines'[n] = lines[n]

LEMMA RepliedSteps ==
    ASSUME ServerTypes, NEW group, NEW answer \in Answers, Replied(group, answer)
    PROVE  RepliedStep(group, answer)
  <1>. DEFINE r(n) == IF n \in Members(group)
                      THEN [lines[n] EXCEPT !.at = "replied", !.answer = answer]
                      ELSE lines[n]
  <1>1. lines' = [n \in DOMAIN lines |-> r(n)]
    BY DEF Replied
  <1>2. "replied" \in Places
    BY DEF Places
  <1>3. ASSUME NEW n \in DOMAIN lines
        PROVE  /\ r(n) \in LineRecord
               /\ IF n \in Members(group)
                  THEN /\ r(n).at = "replied" /\ r(n).answer = answer
                       /\ r(n).request = lines[n].request
                       /\ r(n).scheduled = lines[n].scheduled
                       /\ r(n).handles = lines[n].handles
                  ELSE r(n) = lines[n]
    <2>1. lines[n] \in LineRecord
      BY RecordTypes
    <2>. QED  BY <1>2, <2>1 DEF LineRecord
  <1>. HIDE DEF r
  <1>4. lines' \in Seq(LineRecord) /\ DOMAIN lines' = DOMAIN lines
    <2>1. PICK l \in Nat : DOMAIN lines = 1 .. l
      BY RecordTypes
    <2>2. lines' \in [1 .. l -> LineRecord]
      BY <1>1, <1>3, <2>1
    <2>. QED  BY <2>1, <2>2, <1>1
  <1>. QED  BY <1>1, <1>3, <1>4 DEF RepliedStep

LEMMA FlushNextSteps ==
    ASSUME ServerInv, NEW m \in DOMAIN flushes, FlushNext(m)
    PROVE  /\ flushes[m].at = "next"
           /\ UNCHANGED <<serve, batch, detached, queue, writes, writer, printed>>
           /\ \E group \in Seq(Nat), rest \in Seq(Nat), f \in FlushRecord :
                 /\ Members(group) \cup Members(rest) = Members(flushes[m].pending)
                 /\ Members(group) \cap Members(rest) = {}
                 /\ Distinct(rest)
                 /\ flushes' = [flushes EXCEPT ![m] = f] /\ f.pending = rest
                 /\ \/ /\ f.at = "next" /\ UNCHANGED runs
                       /\ RepliedStep(group, "error")
                    \/ /\ f.at = "writing" /\ f.group = group
                       /\ GroupRight(group) /\ UNCHANGED lines
                       /\ PieceStep(FlushOf(m))
                       /\ runs'[FlushOf(m)].at = "ready" /\ runs'[FlushOf(m)].left = 1
  <1>. DEFINE pending == flushes[m].pending
              group == GroupOf(pending)
              rest == SubSeq(pending, Len(group) + 1, Len(pending))
  <1>0. ServerTypes /\ HeldOnce
    BY DEF ServerInv
  <1>1. /\ flushes[m].at = "next" /\ pending # <<>>
        /\ UNCHANGED <<serve, batch, detached, queue, writes, writer, printed>>
        /\ \/ /\ Replied(group, "error") /\ UNCHANGED runs
              /\ flushes' = [flushes EXCEPT ![m].pending =
                    SubSeq(@, Len(group) + 1, Len(@))]
           \/ /\ ~Refused(group)
              /\ flushes' = [flushes EXCEPT
                    ![m].at = "writing", ![m].group = group,
                    ![m].pending = SubSeq(@, Len(group) + 1, Len(@))]
              /\ WithRun(FlushOf(m), Piece("ready", 1, "ok"))
              /\ UNCHANGED lines
    BY DEF FlushNext
  <1>2. flushes[m] \in FlushRecord /\ pending \in Seq(Nat) /\ Distinct(pending)
        /\ \A n \in Members(pending) : n \in DOMAIN lines
    BY <1>0, RecordTypes DEF HeldOnce, Held, Contributed, Contribution
  <1>3. Numbered(pending)
    BY <1>0, <1>2, HeldNumbered
  <1>4. PICK l \in DOMAIN pending : group = SubSeq(pending, 1, l) /\ AdjacentIn(pending, l)
    <2>. HIDE DEF pending
    <2>. QED  BY <1>1, <1>2, <1>3, GroupSteps
  <1>5. /\ group \in Seq(Nat) /\ Len(group) = l
        /\ SubSeq(pending, l + 1, Len(pending)) \in Seq(Nat)
        /\ \A i \in DOMAIN group : group[i] = pending[i]
        /\ Distinct(SubSeq(pending, l + 1, Len(pending)))
        /\ Members(group) \cup Members(SubSeq(pending, l + 1, Len(pending))) = Members(pending)
        /\ Members(group) \cap Members(SubSeq(pending, l + 1, Len(pending))) = {}
    <2>. HIDE DEF pending
    <2>. QED  BY <1>2, <1>4, CutSteps
  <1>6. /\ rest \in Seq(Nat) /\ Distinct(rest)
        /\ Members(group) \cup Members(rest) = Members(pending)
        /\ Members(group) \cap Members(rest) = {}
    <2>. HIDE DEF pending, group
    <2>. QED  BY <1>5
  <1>7. /\ flushes' = [flushes EXCEPT ![m].pending = SubSeq(@, Len(group) + 1, Len(@))]
           => flushes' = [flushes EXCEPT ![m] = [@ EXCEPT !.pending = rest]]
        /\ flushes' = [flushes EXCEPT ![m].at = "writing", ![m].group = group,
                                      ![m].pending = SubSeq(@, Len(group) + 1, Len(@))]
           => flushes' = [flushes EXCEPT ![m] =
                 [@ EXCEPT !.at = "writing", !.group = group, !.pending = rest]]
    OBVIOUS
  <1>. HIDE DEF rest
  <1>8. CASE /\ Replied(group, "error") /\ UNCHANGED runs
             /\ flushes' = [flushes EXCEPT ![m].pending =
                    SubSeq(@, Len(group) + 1, Len(@))]
    <2>. DEFINE f == [flushes[m] EXCEPT !.pending = rest]
    <2>1. f \in FlushRecord /\ f.at = "next" /\ f.pending = rest
      BY <1>1, <1>2, <1>6 DEF FlushRecord
    <2>2. flushes' = [flushes EXCEPT ![m] = f]
      BY <1>7, <1>8
    <2>3. RepliedStep(group, "error")
      BY <1>0, <1>8, RepliedSteps DEF Answers
    <2>. HIDE DEF f, group
    <2>. QED  BY <1>1, <1>5, <1>6, <1>8, <2>1, <2>2, <2>3
  <1>9. CASE /\ ~Refused(group)
             /\ flushes' = [flushes EXCEPT
                    ![m].at = "writing", ![m].group = group,
                    ![m].pending = SubSeq(@, Len(group) + 1, Len(@))]
             /\ WithRun(FlushOf(m), Piece("ready", 1, "ok"))
             /\ UNCHANGED lines
    <2>. DEFINE f == [flushes[m] EXCEPT !.at = "writing", !.group = group, !.pending = rest]
    <2>1. f \in FlushRecord /\ f.at = "writing" /\ f.group = group /\ f.pending = rest
      BY <1>1, <1>2, <1>5, <1>6 DEF FlushRecord
    <2>2. flushes' = [flushes EXCEPT ![m] = f]
      BY <1>7, <1>9
    <2>3. Piece("ready", 1, "ok") \in PieceRecord
          /\ Piece("ready", 1, "ok").at = "ready" /\ Piece("ready", 1, "ok").left = 1
      BY PieceTypes DEF Answers
    <2>4. m \in Nat /\ FlushOf(m) \in Users
      BY <1>0, RecordTypes, KeyTypes
    <2>5. PieceStep(FlushOf(m)) /\ runs'[FlushOf(m)] = Piece("ready", 1, "ok")
      BY <1>0, <1>9, <2>3, <2>4, SetPiece
    <2>6. GroupRight(group)
      <3>. HIDE DEF group
      <3>1. 1 \in DOMAIN group /\ DOMAIN group = 1 .. l /\ l \in Nat
        <4>1. l \in Nat \ {0}
          <5>. HIDE DEF pending
          <5>. QED  BY <1>2, <1>4
        <4>. QED  BY <4>1, <1>5
      <3>2. Numbered(group)
        <4>1. \A i \in DOMAIN group : i \in DOMAIN pending
          <5>. HIDE DEF pending
          <5>. QED  BY <1>2, <1>4, <3>1
        <4>. QED  BY <1>3, <1>5, <4>1 DEF Numbered
      <3>3. AdjacentIn(group, l)
        <4>1. \A i \in 2 .. l : i \in DOMAIN group /\ i - 1 \in DOMAIN group
          BY <3>1
        <4>. QED  BY <1>4, <1>5, <4>1 DEF AdjacentIn
      <3>4. \A i \in DOMAIN group : Slot(group[i]) = Slot(group[1]) + i - 1
        BY <1>5, <3>1, <3>2, <3>3, GroupSlots
      <3>5. \A i \in DOMAIN group :
               lines[group[i]].request.joined = lines[group[1]].request.joined
        BY <1>9 DEF Refused
      <3>6. lines[group[1]].request.joined => Instrumented
        BY <1>9 DEF Refused
      <3>. QED  BY <3>1, <3>4, <3>5, <3>6 DEF GroupRight
    <2>. HIDE DEF f, group
    <2>. QED  BY <1>1, <1>5, <1>6, <1>9, <2>1, <2>2, <2>3, <2>5, <2>6
  <1>. QED  BY <1>1, <1>8, <1>9

LEMMA FlushWrittenSteps ==
    ASSUME ServerInv, NEW m \in DOMAIN flushes, FlushWritten(m)
    PROVE  /\ flushes[m].at = "writing" /\ runs[FlushOf(m)].at = "done"
           /\ UNCHANGED <<serve, batch, detached, runs, queue, writes, writer, printed>>
           /\ RepliedStep(flushes[m].group, runs[FlushOf(m)].result)
           /\ \E f \in FlushRecord :
                 /\ flushes' = [flushes EXCEPT ![m] = f]
                 /\ f.at = "next" /\ f.pending = flushes[m].pending
  <1>0. ServerTypes
    BY DEF ServerInv
  <1>1. /\ flushes[m].at = "writing" /\ runs[FlushOf(m)].at = "done"
        /\ UNCHANGED <<serve, batch, detached, runs, queue, writes, writer, printed>>
        /\ Replied(flushes[m].group, runs[FlushOf(m)].result)
        /\ flushes' = [flushes EXCEPT ![m].at = "next"]
    BY DEF FlushWritten
  <1>2. FlushOf(m) \in DOMAIN runs
    BY <1>1 DEF ServerInv, RunsKnown, FlushKnown
  <1>3. RepliedStep(flushes[m].group, runs[FlushOf(m)].result)
    BY <1>0, <1>1, <1>2, RecordTypes, RepliedSteps
  <1>. DEFINE f == [flushes[m] EXCEPT !.at = "next"]
  <1>4. f \in FlushRecord /\ f.at = "next" /\ f.pending = flushes[m].pending
    <2>1. flushes[m] \in FlushRecord
      BY <1>0, RecordTypes
    <2>. QED  BY <2>1 DEF FlushRecord
  <1>5. flushes' = [flushes EXCEPT ![m] = f]
    BY <1>1
  <1>. HIDE DEF f
  <1>. QED  BY <1>1, <1>3, <1>4, <1>5

(* Some lines that are not answered yet change, but for what they ask. *)
LinesStep(S) ==
    /\ lines' \in Seq(LineRecord) /\ DOMAIN lines' = DOMAIN lines
    /\ \A n \in DOMAIN lines : /\ lines'[n].request = lines[n].request
                               /\ lines'[n].scheduled = lines[n].scheduled
                               /\ n \notin S => lines'[n] = lines[n]
    /\ \A n \in S : n \in DOMAIN lines /\ lines[n].at \notin Finished

(* Detached jobs are not lost by a step of other calls than barriers. *)
LEMMA JobsUnmoved ==
    ASSUME ServerInv, NEW S, LinesStep(S), UNCHANGED <<serve, printed>>,
           \A n \in S : /\ lines[n].request.tool # "barrier"
                        /\ lines'[n].handles \in {lines[n].handles, <<>>}
                        /\ lines[n].at = "scheduling" =>
                              lines'[n].at = "scheduling" \/ n \in Members(detached'),
           Members(detached) \subseteq Members(detached'), S = {} => detached' = detached,
           \A n \in Members(detached') : Job(n)',
           \A n : Job(n) => Job(n)' /\ (JobEnded(n) => JobEnded(n)'),
           \A n : Job(n)' => Job(n) \/ (n \in S /\ lines'[n].at = "scheduling")
    PROVE  HandlesKnown' /\ JobsKept' /\ BarrierKnows' /\ ServeKnown'
  <1>1. /\ serve' = serve /\ printed' = printed /\ DOMAIN lines' = DOMAIN lines
        /\ \A n \in DOMAIN lines : /\ lines'[n].request = lines[n].request
                                   /\ lines'[n].scheduled = lines[n].scheduled
                                   /\ n \notin S => lines'[n] = lines[n]
        /\ \A n \in S : n \in DOMAIN lines /\ lines[n].at \notin Finished
    BY DEF LinesStep
  <1>2. Barriers' = Barriers /\ \A b \in Barriers : b \in DOMAIN lines /\ lines'[b] = lines[b]
    <2>1. \A b \in DOMAIN lines :
             IsCall(lines'[b].request) /\ lines'[b].request.tool = "barrier"
             <=> IsCall(lines[b].request) /\ lines[b].request.tool = "barrier"
      BY <1>1
    <2>2. Barriers' = Barriers
      BY <1>1, <2>1 DEF Barriers
    <2>. QED  BY <1>1, <2>2 DEF Barriers
  <1>3. \A n : \A b \in Barriers : Holds(b, n)' <=> Holds(b, n)
    BY <1>2 DEF Holds, Members
  <1>4. HandlesKnown'
    <2>1. HandlesKnown
      BY DEF ServerInv
    <2>2. \A n \in Members(serve.handles)' : Job(n)'
      BY <1>1, <2>1 DEF HandlesKnown, Members
    <2>3. ASSUME NEW b \in DOMAIN lines
          PROVE  Members(lines'[b].handles) \subseteq Members(lines[b].handles)
                 /\ lines'[b].scheduled = lines[b].scheduled
      <3>1. lines'[b].handles \in {lines[b].handles, <<>>}
        BY <1>1
      <3>2. Members(<<>>) = {}
        BY DEF Members
      <3>. QED  BY <1>1, <3>1, <3>2
    <2>4. \A b \in DOMAIN lines : \A n \in Members(lines'[b].handles) \cup lines'[b].scheduled :
             n \in Nat /\ Job(n)'
      BY <2>1, <2>3 DEF HandlesKnown
    <2>5. \A b : Members(lines'[b].handles) = Members(lines[b].handles)'
             /\ Members(detached)' = Members(detached')
      BY DEF Members
    <2>6. \A b \in Barriers' :
             /\ lines'[b].answer # "none" => lines'[b].at \in Finished
             /\ lines'[b].at = "draining" \/ lines'[b].answer = "error"
                   \/ lines'[b].handles = <<>>
      BY <1>2, <2>1 DEF HandlesKnown
    <2>. HIDE DEF Job, Members
    <2>. QED  BY <1>1, <2>2, <2>4, <2>5, <2>6 DEF HandlesKnown
  <1>5. JobsKept'
    <2>1. SUFFICES ASSUME NEW n \in DOMAIN lines, Job(n)'
                   PROVE  \/ JobEnded(n)' \/ lines'[n].at = "scheduling"
                          \/ n \in Members(detached') \/ n \in Members(serve.handles)
                          \/ serve.at = "failed"
                          \/ \E b \in Barriers : Holds(b, n)'
      BY <1>1, <1>2 DEF JobsKept, Members
    <2>2. CASE ~Job(n)
      BY <2>1, <2>2
    <2>3. CASE Job(n)
      <3>1. \/ JobEnded(n) \/ lines[n].at = "scheduling"
            \/ n \in Members(detached) \/ n \in Members(serve.handles) \/ serve.at = "failed"
            \/ \E b \in Barriers : Holds(b, n)
        BY <2>3 DEF ServerInv, JobsKept
      <3>2. lines[n].at = "scheduling" =>
               lines'[n].at = "scheduling" \/ n \in Members(detached')
        BY <1>1
      <3>. QED  BY <1>2, <1>3, <2>3, <3>1, <3>2
    <2>. QED  BY <2>2, <2>3
  <1>6. BarrierKnows'
    <2>1. SUFFICES ASSUME NEW b \in Barriers, NEW n \in lines[b].scheduled
                   PROVE  \/ JobEnded(n)'
                          \/ lines'[b].at = "called" /\ n \in Members(detached')
                          \/ \E c \in Barriers : Holds(c, n)'
      BY <1>2 DEF BarrierKnows, Members
    <2>2. Job(n)
      BY <1>2, <2>1 DEF ServerInv, HandlesKnown
    <2>3. \/ JobEnded(n)
          \/ lines[b].at = "called" /\ n \in Members(detached)
          \/ \E c \in Barriers : Holds(c, n)
      BY <2>1 DEF ServerInv, BarrierKnows
    <2>. QED  BY <1>2, <1>3, <2>1, <2>2, <2>3
  <1>7. ServeKnown'
    <2>1. ServeKnown
      BY DEF ServerInv
    <2>2. \A n \in DOMAIN lines : lines[n].at = "answered" => n \notin S /\ lines'[n] = lines[n]
      BY <1>1 DEF Finished
    <2>3. AllAnswered => AllAnswered' /\ detached' = detached
      BY <1>1, <2>2 DEF AllAnswered
    <2>. HIDE DEF AllAnswered
    <2>. QED  BY <1>1, <2>1, <2>2, <2>3 DEF ServeKnown
  <1>. QED  BY <1>4, <1>5, <1>6, <1>7

(* The writes done stay what they were: their members move on together. *)
LEMMA WritesUnmoved ==
    ASSUME ServerInv, NEW S, LinesStep(S), UNCHANGED writes,
           \A n \in S : Contribution(n) =>
              /\ lines'[n].answer = "ok" =>
                    lines[n].answer = "ok" \/ \E w \in writes : n \in w.members
              /\ lines[n].at \in {"contributed", "replied"} =>
                    lines'[n].at \in {"replied"} \cup Finished,
           DOMAIN flushes \subseteq DOMAIN flushes',
           \A m \in DOMAIN flushes : flushes[m].at = "writing" =>
              \/ flushes'[m] = flushes[m] /\ (Written(m)' <=> Written(m))
              \/ \A n \in Members(flushes[m].group) : n \in S,
           \A m \in DOMAIN flushes' : flushes'[m].at = "writing" /\ Written(m)' =>
              /\ m \in DOMAIN flushes /\ flushes'[m] = flushes[m] /\ Written(m)
    PROVE  WritesAreOwned' /\ WritesKnown'
  <1>1. /\ writes' = writes /\ DOMAIN lines' = DOMAIN lines
        /\ \A n \in DOMAIN lines : /\ lines'[n].request = lines[n].request
                                   /\ n \notin S => lines'[n] = lines[n]
        /\ \A n \in S : n \in DOMAIN lines /\ lines[n].at \notin Finished
    BY DEF LinesStep
  <1>2. WritesKnown /\ WritesAreOwned
    BY DEF ServerInv
  <1>3. \A w \in writes : \A n \in w.members : n \in DOMAIN lines
    BY <1>2 DEF WritesKnown, WriteKnown, Contribution
  <1>4. WritesAreOwned'
    <2>1. \A w \in writes : \A n \in w.members :
             Slot(n)' = Slot(n) /\ lines'[n].request.joined = lines[n].request.joined
      BY <1>1, <1>3 DEF Slot
    <2>2. \A w \in writes : {Slot(n)' : n \in w.members} = {Slot(n) : n \in w.members}
      BY <2>1
    <2>. QED  BY <1>1, <1>2, <2>1, <2>2 DEF WritesAreOwned
  <1>5. \A n : Contribution(n)' <=> Contribution(n)
    BY <1>1 DEF Contribution
  <1>6. ASSUME NEW w \in writes
        PROVE  WriteKnown(w)'
    <2>1. WriteKnown(w)
      BY <1>2 DEF WritesKnown
    <2>2. ASSUME NEW n \in w.members
          PROVE  /\ Contribution(n)'
                 /\ lines'[n].at \in {"contributed", "replied"} \cup Finished
                 /\ lines'[n].at = "contributed" =>
                       /\ flushes'[w.flush].at = "writing" /\ Written(w.flush)'
                       /\ w.members = Members(flushes'[w.flush].group)
      <3>1. /\ Contribution(n) /\ n \in DOMAIN lines
            /\ lines[n].at \in {"contributed", "replied"} \cup Finished
            /\ lines[n].at = "contributed" =>
                 /\ flushes[w.flush].at = "writing" /\ Written(w.flush)
                 /\ w.members = Members(flushes[w.flush].group)
        BY <2>1 DEF WriteKnown, Contribution
      <3>2. CASE n \in S
        <4>1. lines'[n].at \in {"replied"} \cup Finished
          BY <1>1, <3>1, <3>2
        <4>2. lines'[n].at # "contributed"
          BY <4>1 DEF Finished
        <4>. QED  BY <1>5, <3>1, <4>1, <4>2
      <3>3. CASE n \notin S
        <4>1. lines'[n] = lines[n]
          BY <1>1, <3>1, <3>3
        <4>2. lines[n].at = "contributed" =>
                 flushes'[w.flush] = flushes[w.flush] /\ Written(w.flush)'
          BY <2>1, <3>1, <3>3 DEF WriteKnown
        <4>. QED  BY <1>5, <3>1, <4>1, <4>2
      <3>. QED  BY <3>2, <3>3
    <2>3. w.flush \in DOMAIN flushes'
      BY <2>1 DEF WriteKnown
    <2>4. Members(flushes[w.flush].group)' = Members(flushes'[w.flush].group)
      BY DEF Members
    <2>. HIDE DEF Members, Contribution, Written
    <2>. QED  BY <2>2, <2>3, <2>4 DEF WriteKnown
  <1>. HIDE DEF WriteKnown, Contribution, Written
  <1>7. \A v, w \in writes' : v.members \cap w.members # {} => v = w
    BY <1>1, <1>2 DEF WritesKnown
  <1>8. \A m \in DOMAIN flushes' : flushes'[m].at = "writing" /\ Written(m)' =>
          \E w \in writes' : w.members = Members(flushes[m].group)'
    <2>. TAKE m \in DOMAIN flushes'
    <2>. HAVE flushes'[m].at = "writing" /\ Written(m)'
    <2>1. m \in DOMAIN flushes /\ flushes'[m] = flushes[m] /\ Written(m)
      OBVIOUS
    <2>2. Members(flushes[m].group)' = Members(flushes[m].group)
      BY <2>1 DEF Members
    <2>. QED  BY <1>1, <1>2, <2>1, <2>2 DEF WritesKnown
  <1>9. \A n \in DOMAIN lines' : Contribution(n)' /\ lines'[n].answer = "ok" =>
          \E w \in writes' : n \in w.members
    <2>. TAKE n \in DOMAIN lines'
    <2>. HAVE Contribution(n)' /\ lines'[n].answer = "ok"
    <2>1. Contribution(n) /\ n \in DOMAIN lines
      BY <1>1, <1>5
    <2>2. lines[n].answer = "ok" \/ \E w \in writes : n \in w.members
      BY <1>1, <2>1
    <2>. QED  BY <1>1, <1>2, <2>1, <2>2 DEF WritesKnown
  <1>10. \A w \in writes' : WriteKnown(w)'
    BY <1>1, <1>6
  <1>. QED  BY <1>4, <1>7, <1>8, <1>9, <1>10 DEF WritesKnown

(* Whoever works is a call, and works while its line says so. *)
LEMMA RunsUnmoved ==
    ASSUME ServerInv, NEW S, LinesStep(S), DOMAIN runs \subseteq DOMAIN runs',
           \A n \in S :
              /\ lines'[n].at # "called"
              /\ lines'[n].at \in {"working", "aborting"} => CallOf(n) \in DOMAIN runs'
              /\ lines'[n].at = "scheduling" => JobOf(n) \in DOMAIN runs'
              /\ CallOf(n) \in DOMAIN runs' => lines[n].request.tool \in PoolTools
              /\ JobOf(n) \in DOMAIN runs' =>
                    /\ lines[n].request.tool = "slot_io"
                    /\ lines'[n].at \in {"scheduling"} \cup Finished,
           \A n : CallOf(n) \in DOMAIN runs' => CallOf(n) \in DOMAIN runs \/ n \in S,
           \A n : JobOf(n) \in DOMAIN runs' => JobOf(n) \in DOMAIN runs \/ n \in S,
           \A m \in Nat : FlushOf(m) \in DOMAIN runs' => m \in DOMAIN flushes',
           \A m \in DOMAIN flushes' : FlushKnown(m)'
    PROVE  RunsKnown'
  <1>1. /\ DOMAIN lines' = DOMAIN lines
        /\ \A n \in DOMAIN lines : /\ lines'[n].request = lines[n].request
                                   /\ n \notin S => lines'[n] = lines[n]
        /\ \A n \in S : n \in DOMAIN lines /\ lines[n].at \notin Finished
    BY DEF LinesStep
  <1>2. RunsKnown
    BY DEF ServerInv
  <1>3. \A n : /\ CallOf(n)' = CallOf(n) /\ JobOf(n)' = JobOf(n)
               /\ FlushOf(n)' = FlushOf(n)
    BY DEF CallOf, JobOf, FlushOf
  <1>4. \A n \in DOMAIN lines' : ~IsCall(lines'[n].request) => lines'[n].at = "answered"
    <2>. TAKE n \in DOMAIN lines'
    <2>1. ~IsCall(lines[n].request) => n \notin S
      BY <1>1, <1>2 DEF RunsKnown, Finished
    <2>. QED  BY <1>1, <1>2, <2>1 DEF RunsKnown
  <1>5. ASSUME NEW n \in Nat, CallOf(n) \in DOMAIN runs'
        PROVE  CallKnown(n)'
    <2>1. CASE n \in S
      BY <1>1, <1>5, <2>1 DEF CallKnown
    <2>2. CASE n \notin S
      <3>1. CallKnown(n)
        BY <1>2, <1>5, <2>2 DEF RunsKnown
      <3>. QED  BY <1>1, <2>2, <3>1 DEF CallKnown
    <2>. QED  BY <2>1, <2>2
  <1>6. ASSUME NEW n \in Nat, JobOf(n) \in DOMAIN runs'
        PROVE  JobKnown(n)'
    <2>1. CASE n \in S
      BY <1>1, <1>6, <2>1 DEF JobKnown
    <2>2. CASE n \notin S
      <3>1. JobKnown(n)
        BY <1>2, <1>6, <2>2 DEF RunsKnown
      <3>. QED  BY <1>1, <2>2, <3>1 DEF JobKnown
    <2>. QED  BY <2>1, <2>2
  <1>7. \A n \in DOMAIN lines' :
           /\ lines'[n].at \in {"working", "aborting"} => CallOf(n) \in DOMAIN runs'
           /\ lines'[n].at = "scheduling" => JobOf(n) \in DOMAIN runs'
    BY <1>1, <1>2 DEF RunsKnown
  <1>. HIDE DEF FlushKnown, CallKnown, JobKnown, CallOf, JobOf, FlushOf
  <1>. QED  BY <1>3, <1>4, <1>5, <1>6, <1>7 DEF RunsKnown

(* A group keeps its slots and its policy. *)
LEMMA GroupsUnmoved ==
    ASSUME ServerInv, NEW S, LinesStep(S),
           \A m \in DOMAIN flushes' : flushes'[m].at = "writing" =>
              /\ GroupRight(flushes'[m].group)
              /\ Members(flushes'[m].group) \subseteq DOMAIN lines
    PROVE  GroupsRight'
  <1>1. \A n \in DOMAIN lines : lines'[n].request = lines[n].request
    BY DEF LinesStep
  <1>2. SUFFICES ASSUME NEW m \in DOMAIN flushes', flushes'[m].at = "writing"
                 PROVE  GroupRight(flushes[m].group)'
    BY DEF GroupsRight
  <1>3. PICK group : group = flushes'[m].group
    OBVIOUS
  <1>4. GroupRight(group) /\ \A i \in DOMAIN group : group[i] \in DOMAIN lines
    BY <1>2, <1>3 DEF Members
  <1>5. \A i \in DOMAIN group : Slot(group[i])' = Slot(group[i])
                                /\ lines'[group[i]].request = lines[group[i]].request
    BY <1>1, <1>4 DEF Slot
  <1>6. GroupRight(group)'
    BY <1>4, <1>5 DEF GroupRight
  <1>. QED  BY <1>3, <1>6 DEF GroupRight, Slot

(* A flush goes on; the members of a group that is over are replied to. *)
LEMMA FlushStepInv ==
    ASSUME ServerInv, NEW m \in DOMAIN flushes, NEW f \in FlushRecord,
           flushes' = [flushes EXCEPT ![m] = f],
           UNCHANGED <<serve, batch, detached, queue, writes, writer, printed>>,
           NEW S, LinesStep(S),
           \A n \in S : /\ n \in Held(m) /\ lines'[n].at = "replied"
                        /\ lines'[n].handles = lines[n].handles
                        /\ lines'[n].answer = "ok" => \E w \in writes : n \in w.members,
           Distinct(f.pending), Members(f.pending) \subseteq Held(m) \ S,
           f.at = "writing" =>
              /\ Members(f.group) \subseteq Held(m) \ S
              /\ Members(f.group) \cap Members(f.pending) = {}
              /\ GroupRight(f.group) /\ ~Written(m)',
           flushes[m].at = "writing" => Members(flushes[m].group) \subseteq S,
           \/ UNCHANGED runs
           \/ /\ PieceStep(FlushOf(m))
              /\ FlushOf(m) \in DOMAIN runs => runs[FlushOf(m)].at = "done",
           FlushKnown(m)'
    PROVE  ServerInv'
  <1>0. ServerTypes /\ HeldOnce /\ RunsKnown
    BY DEF ServerInv
  <1>1. /\ serve' = serve /\ batch' = batch /\ detached' = detached /\ queue' = queue
        /\ writes' = writes /\ writer' = writer /\ printed' = printed
    OBVIOUS
  <1>2. /\ flushes' \in Seq(FlushRecord) /\ DOMAIN flushes' = DOMAIN flushes
        /\ flushes'[m] = f /\ \A l \in DOMAIN flushes : l # m => flushes'[l] = flushes[l]
    <2>1. flushes \in Seq(FlushRecord)
      BY <1>0 DEF ServerTypes
    <2>2. LET new == [flushes EXCEPT ![m] = f]
          IN  /\ new \in Seq(FlushRecord) /\ DOMAIN new = DOMAIN flushes /\ new[m] = f
              /\ \A l \in DOMAIN flushes : l # m => new[l] = flushes[l]
      BY <2>1, ReplaceSteps, Zenon
    <2>. QED  BY <2>2, Zenon
  <1>3. /\ DOMAIN runs \subseteq DOMAIN runs'
        /\ DOMAIN runs' \subseteq DOMAIN runs \cup {FlushOf(m)}
        /\ \A u \in DOMAIN runs : u # FlushOf(m) => runs'[u] = runs[u]
        /\ DOMAIN runs' \in SUBSET Users /\ runs' \in [DOMAIN runs' -> PieceRecord]
    BY <1>0 DEF PieceStep, ServerTypes
  <1>4. \A n \in S : Contributed(n) /\ n \notin Members(batch)
    BY <1>0 DEF HeldOnce
  <1>5. /\ DOMAIN lines' = DOMAIN lines /\ lines' \in Seq(LineRecord)
        /\ \A n \in DOMAIN lines : /\ lines'[n].request = lines[n].request
                                   /\ n \notin S => lines'[n] = lines[n]
    BY DEF LinesStep
  <1>6. ServerTypes'
    BY <1>0, <1>1, <1>2, <1>3, <1>5 DEF ServerTypes
  <1>7. QueueKnown'
    <2>1. QueueKnown
      BY DEF ServerInv
    <2>2. \A i \in DOMAIN queue : runs'[queue[i]] = runs[queue[i]]
      BY <1>3, <2>1 DEF QueueKnown
    <2>. QED  BY <1>1, <1>3, <2>1, <2>2 DEF QueueKnown, Distinct
  <1>8. /\ \A l \in DOMAIN flushes : l # m => Held(l)' = Held(l)
        /\ Held(m)' \subseteq Held(m) \ S
    BY <1>2 DEF Held, Members
  <1>9. HeldOnce'
    <2>1. \A n : Contributed(n) /\ n \notin S => Contributed(n)'
      BY <1>5 DEF Contributed, Contribution
    <2>2. /\ Members(batch)' = Members(batch) /\ Distinct(batch)' = Distinct(batch)
      BY <1>1 DEF Members, Distinct
    <2>3. \A n \in Members(batch) : Contributed(n)'
      BY <1>0, <1>4, <2>1 DEF HeldOnce
    <2>4. ASSUME NEW l \in DOMAIN flushes
          PROVE  /\ Distinct(flushes[l].pending)'
                 /\ \A n \in Held(l)' : Contributed(n)' /\ n \notin Members(batch)
                 /\ flushes'[l].at = "writing" =>
                       (Members(flushes[l].group) \cap Members(flushes[l].pending) = {})'
      <3>1. CASE l = m
        <4>1. Distinct(flushes[l].pending)'
          BY <1>2, <3>1 DEF Distinct
        <4>2. \A n \in Held(l)' : Contributed(n)' /\ n \notin Members(batch)
          BY <1>0, <1>8, <2>1, <3>1 DEF HeldOnce
        <4>3. flushes'[l].at = "writing" =>
                 (Members(flushes[l].group) \cap Members(flushes[l].pending) = {})'
          BY <1>2, <3>1 DEF Members
        <4>. QED  BY <4>1, <4>2, <4>3
      <3>2. CASE l # m
        <4>1. Distinct(flushes[l].pending)'
          BY <1>0, <1>2, <3>2 DEF Distinct, HeldOnce
        <4>2. \A n \in Held(l) : n \notin S
          BY <1>0, <3>2 DEF HeldOnce
        <4>3. \A n \in Held(l)' : Contributed(n)' /\ n \notin Members(batch)
          BY <1>0, <1>8, <2>1, <3>2, <4>2 DEF HeldOnce
        <4>4. flushes'[l].at = "writing" =>
                 (Members(flushes[l].group) \cap Members(flushes[l].pending) = {})'
          <5>1. /\ Members(flushes[l].group)' = Members(flushes[l].group)
                /\ Members(flushes[l].pending)' = Members(flushes[l].pending)
                /\ flushes'[l] = flushes[l]
            BY <1>2, <3>2 DEF Members
          <5>. QED  BY <1>0, <5>1 DEF HeldOnce
        <4>. QED  BY <4>1, <4>3, <4>4
      <3>. QED  BY <3>1, <3>2
    <2>5. \A k, l \in DOMAIN flushes : k # l => Held(k)' \cap Held(l)' = {}
      BY <1>0, <1>8 DEF HeldOnce
    <2>. HIDE DEF Held, Contributed, Members, Distinct
    <2>. QED  BY <1>0, <1>2, <2>2, <2>3, <2>4, <2>5 DEF HeldOnce
  <1>10. GroupsRight'
    <2>1. \A l \in DOMAIN flushes : \A n \in Held(l) : n \in DOMAIN lines
      BY <1>0 DEF HeldOnce, Contributed, Contribution
    <2>2. ASSUME NEW l \in DOMAIN flushes', flushes'[l].at = "writing"
          PROVE  /\ GroupRight(flushes'[l].group)
                 /\ Members(flushes'[l].group) \subseteq DOMAIN lines
      <3>1. CASE l = m
        BY <1>2, <2>1, <2>2, <3>1
      <3>2. CASE l # m
        <4>1. GroupRight(flushes[l].group) /\ flushes[l].at = "writing" /\ l \in DOMAIN flushes
          BY <1>2, <2>2, <3>2 DEF ServerInv, GroupsRight
        <4>2. Members(flushes[l].group) \subseteq Held(l)
          BY <4>1 DEF Held
        <4>. QED  BY <1>2, <2>1, <3>2, <4>1, <4>2
      <3>. QED  BY <3>1, <3>2
    <2>. QED  BY <2>2, GroupsUnmoved
  <1>11. WritesAreOwned' /\ WritesKnown'
    <2>1. ASSUME NEW l \in DOMAIN flushes, l # m, flushes[l].at = "writing"
          PROVE  Written(l)' <=> Written(l)
      <3>1. FlushOf(l) \in DOMAIN runs
        BY <1>0, <2>1 DEF RunsKnown, FlushKnown
      <3>2. FlushOf(l) # FlushOf(m)
        BY <2>1, KeysApart
      <3>. QED  BY <1>3, <3>1, <3>2 DEF Written, FlushOf
    <2>2. \A n \in S : Contribution(n) =>
              /\ lines'[n].answer = "ok" =>
                    lines[n].answer = "ok" \/ \E w \in writes : n \in w.members
              /\ lines[n].at \in {"contributed", "replied"} =>
                    lines'[n].at \in {"replied"} \cup Finished
      OBVIOUS
    <2>3. \A l \in DOMAIN flushes : flushes[l].at = "writing" =>
              \/ flushes'[l] = flushes[l] /\ (Written(l)' <=> Written(l))
              \/ \A n \in Members(flushes[l].group) : n \in S
      BY <1>2, <2>1
    <2>4. \A l \in DOMAIN flushes' : flushes'[l].at = "writing" /\ Written(l)' =>
              /\ l \in DOMAIN flushes /\ flushes'[l] = flushes[l] /\ Written(l)
      BY <1>2, <2>1
    <2>. QED  BY <1>1, <1>2, <2>2, <2>3, <2>4, WritesUnmoved
  <1>12. HandlesKnown' /\ JobsKept' /\ BarrierKnows' /\ ServeKnown'
    <2>1. \A n \in S : /\ lines[n].request.tool # "barrier"
                       /\ lines'[n].handles \in {lines[n].handles, <<>>}
                       /\ lines[n].at # "scheduling"
      BY <1>4 DEF Contributed, Contribution
    <2>2. \A n : (Job(n)' <=> Job(n)) /\ (Job(n) => (JobEnded(n)' <=> JobEnded(n)))
      BY <1>3, KeysApart DEF Job, JobEnded, JobOf
    <2>3. \A n \in Members(detached') : Job(n)'
      BY <1>1, <2>2 DEF ServerInv, HandlesKnown
    <2>. QED  BY <1>1, <2>1, <2>2, <2>3, JobsUnmoved
  <1>13. RunsKnown'
    <2>1. ASSUME NEW n \in S
          PROVE  /\ lines'[n].at = "replied"
                 /\ CallOf(n) \notin DOMAIN runs' /\ JobOf(n) \notin DOMAIN runs'
      <3>1. lines[n].request.tool = "batch_io" /\ n \in Nat
        BY <1>0, <1>4, RecordTypes DEF Contributed, Contribution
      <3>2. CallOf(n) \notin DOMAIN runs
        BY <1>0, <3>1 DEF RunsKnown, CallKnown, PoolTools
      <3>3. JobOf(n) \notin DOMAIN runs
        BY <1>0, <3>1 DEF RunsKnown, JobKnown
      <3>. QED  BY <1>3, <3>2, <3>3, KeysApart
    <2>2. \A n \in S :
              /\ lines'[n].at # "called"
              /\ lines'[n].at \in {"working", "aborting"} => CallOf(n) \in DOMAIN runs'
              /\ lines'[n].at = "scheduling" => JobOf(n) \in DOMAIN runs'
              /\ CallOf(n) \in DOMAIN runs' => lines[n].request.tool \in PoolTools
              /\ JobOf(n) \in DOMAIN runs' =>
                    /\ lines[n].request.tool = "slot_io"
                    /\ lines'[n].at \in {"scheduling"} \cup Finished
      BY <2>1
    <2>3. \A n : /\ CallOf(n) \in DOMAIN runs' => CallOf(n) \in DOMAIN runs
                 /\ JobOf(n) \in DOMAIN runs' => JobOf(n) \in DOMAIN runs
      BY <1>3, KeysApart
    <2>4. \A l \in Nat : FlushOf(l) \in DOMAIN runs' => l \in DOMAIN flushes'
      BY <1>0, <1>2, <1>3, KeysApart DEF RunsKnown
    <2>5. \A l \in DOMAIN flushes' : FlushKnown(l)'
      <3>. TAKE l \in DOMAIN flushes'
      <3>1. CASE l # m
        <4>1. FlushOf(l) # FlushOf(m) /\ FlushKnown(l)
          BY <1>0, <1>2, <3>1, KeysApart DEF RunsKnown
        <4>2. /\ FlushOf(l) \in DOMAIN runs' <=> FlushOf(l) \in DOMAIN runs
              /\ FlushOf(l) \in DOMAIN runs => runs'[FlushOf(l)] = runs[FlushOf(l)]
          BY <1>3, <4>1
        <4>. QED  BY <1>2, <3>1, <4>1, <4>2 DEF FlushKnown, FlushOf
      <3>. QED  BY <3>1
    <2>. HIDE DEF FlushKnown
    <2>. QED  BY <1>3, <2>2, <2>3, <2>4, <2>5, RunsUnmoved
  <1>. QED  BY <1>6, <1>7, <1>9, <1>10, <1>11, <1>12, <1>13 DEF ServerInv

LEMMA GroupLines ==
    ASSUME ServerInv, NEW m \in DOMAIN flushes, NEW group, NEW answer,
           RepliedStep(group, answer), Members(group) \subseteq Held(m)
    PROVE  /\ LinesStep(Members(group))
           /\ \A n \in Members(group) :
                 /\ lines'[n].at = "replied" /\ lines'[n].handles = lines[n].handles
                 /\ lines'[n].answer = answer
  <1>1. \A n \in Members(group) : n \in DOMAIN lines /\ lines[n].at \notin Finished
    BY DEF ServerInv, HeldOnce, Contributed, Contribution, Finished
  <1>. QED  BY <1>1 DEF RepliedStep, LinesStep

LEMMA FlushNextInv ==
    ASSUME ServerInv, NEW m \in DOMAIN flushes, FlushNext(m)
    PROVE  ServerInv'
  <1>1. /\ flushes[m].at = "next"
        /\ UNCHANGED <<serve, batch, detached, queue, writes, writer, printed>>
    BY FlushNextSteps
  <1>2. PICK group \in Seq(Nat), rest \in Seq(Nat), f \in FlushRecord :
                 /\ Members(group) \cup Members(rest) = Members(flushes[m].pending)
                 /\ Members(group) \cap Members(rest) = {}
                 /\ Distinct(rest)
                 /\ flushes' = [flushes EXCEPT ![m] = f] /\ f.pending = rest
                 /\ \/ /\ f.at = "next" /\ UNCHANGED runs
                       /\ RepliedStep(group, "error")
                    \/ /\ f.at = "writing" /\ f.group = group
                       /\ GroupRight(group) /\ UNCHANGED lines
                       /\ PieceStep(FlushOf(m))
                       /\ runs'[FlushOf(m)].at = "ready" /\ runs'[FlushOf(m)].left = 1
    BY FlushNextSteps
  <1>3. Held(m) = Members(group) \cup Members(rest)
    BY <1>1, <1>2 DEF Held
  <1>4. FlushOf(m) \in DOMAIN runs => runs[FlushOf(m)].at = "done"
    BY <1>1 DEF ServerInv, RunsKnown, FlushKnown
  <1>5. flushes'[m] = f
    BY <1>2 DEF ServerInv, ServerTypes
  <1>6. CASE f.at = "next" /\ UNCHANGED runs /\ RepliedStep(group, "error")
    <2>1. /\ LinesStep(Members(group))
          /\ \A n \in Members(group) :
                 /\ lines'[n].at = "replied" /\ lines'[n].handles = lines[n].handles
                 /\ lines'[n].answer = "error"
      BY <1>3, <1>6, GroupLines
    <2>2. FlushKnown(m)'
      BY <1>4, <1>5, <1>6 DEF FlushKnown, FlushOf
    <2>. HIDE DEF FlushKnown
    <2>. QED  BY <1>1, <1>2, <1>3, <1>6, <2>1, <2>2, FlushStepInv
  <1>7. CASE /\ f.at = "writing" /\ f.group = group
             /\ GroupRight(group) /\ UNCHANGED lines
             /\ PieceStep(FlushOf(m))
             /\ runs'[FlushOf(m)].at = "ready" /\ runs'[FlushOf(m)].left = 1
    <2>1. LinesStep({})
      BY <1>7 DEF ServerInv, ServerTypes, LinesStep
    <2>2. FlushKnown(m)'
      BY <1>5, <1>7 DEF FlushKnown, FlushOf, PieceStep
    <2>3. ~Written(m)'
      BY <1>7 DEF Written, FlushOf
    <2>. HIDE DEF FlushKnown, Written
    <2>. QED  BY <1>1, <1>2, <1>3, <1>4, <1>7, <2>1, <2>2, <2>3, FlushStepInv
  <1>. QED  BY <1>2, <1>6, <1>7

LEMMA FlushWrittenInv ==
    ASSUME ServerInv, NEW m \in DOMAIN flushes, FlushWritten(m)
    PROVE  ServerInv'
  <1>. DEFINE group == flushes[m].group
              answer == runs[FlushOf(m)].result
  <1>1. /\ flushes[m].at = "writing" /\ runs[FlushOf(m)].at = "done"
        /\ UNCHANGED <<serve, batch, detached, runs, queue, writes, writer, printed>>
        /\ RepliedStep(group, answer)
    BY FlushWrittenSteps
  <1>2. PICK f \in FlushRecord :
                 /\ flushes' = [flushes EXCEPT ![m] = f]
                 /\ f.at = "next" /\ f.pending = flushes[m].pending
    BY FlushWrittenSteps
  <1>3. Held(m) = Members(group) \cup Members(f.pending)
    BY <1>1, <1>2 DEF Held
  <1>4. Distinct(f.pending) /\ Members(group) \cap Members(f.pending) = {}
    BY <1>1, <1>2 DEF ServerInv, HeldOnce
  <1>5. /\ LinesStep(Members(group))
        /\ \A n \in Members(group) :
                 /\ lines'[n].at = "replied" /\ lines'[n].handles = lines[n].handles
                 /\ lines'[n].answer = answer
    <2>. HIDE DEF group, answer
    <2>. QED  BY <1>1, <1>3, GroupLines
  <1>6. answer = "ok" => \E w \in writes : w.members = Members(group)
    BY <1>1 DEF ServerInv, WritesKnown, Written
  <1>7. \A n \in Members(group) : lines'[n].answer = "ok" => \E w \in writes : n \in w.members
    BY <1>5, <1>6
  <1>8. FlushKnown(m)'
    <2>1. flushes'[m] = f
      BY <1>2 DEF ServerInv, ServerTypes
    <2>. QED  BY <1>1, <1>2, <2>1 DEF FlushKnown, FlushOf
  <1>. HIDE DEF FlushKnown, answer
  <1>. QED  BY <1>1, <1>2, <1>3, <1>4, <1>5, <1>7, <1>8, FlushStepInv

-----------------------------------------------------------------------------
(* The tasks of the calls keep the invariant. *)

LEMMA LineLines ==
    ASSUME NEW n, LineStep(n), lines[n].at \notin Finished
    PROVE  LinesStep({n})
  BY DEF LineStep, LinesStep

LEMMA HeldUnmoved ==
    ASSUME ServerInv, NEW S, LinesStep(S), UNCHANGED <<batch, flushes>>,
           \A n \in S : ~Contributed(n)
    PROVE  HeldOnce' /\ GroupsRight'
  <1>1. /\ \A m : Held(m)' = Held(m)
        /\ Members(batch)' = Members(batch) /\ (Distinct(batch)' <=> Distinct(batch))
    BY DEF Held, Members, Distinct
  <1>2. \A m \in DOMAIN flushes :
             /\ Members(flushes[m].group)' = Members(flushes[m].group)
             /\ Members(flushes[m].pending)' = Members(flushes[m].pending)
             /\ Distinct(flushes[m].pending)' <=> Distinct(flushes[m].pending)
    BY DEF Members, Distinct
  <1>3. \A n : Contributed(n) => Contributed(n)'
    <2>1. \A n : Contributed(n) => n \in DOMAIN lines /\ n \notin S
      BY DEF Contributed, Contribution
    <2>. QED  BY <2>1 DEF LinesStep, Contributed, Contribution
  <1>4. HeldOnce
    BY DEF ServerInv
  <1>5. HeldOnce'
    <2>. HIDE DEF Held, Contributed, Members, Distinct
    <2>. QED  BY <1>1, <1>2, <1>3, <1>4 DEF HeldOnce
  <1>6. \A m \in DOMAIN flushes : flushes[m].at = "writing" =>
           GroupRight(flushes[m].group) /\ Members(flushes[m].group) \subseteq DOMAIN lines
    BY DEF ServerInv, GroupsRight, HeldOnce, Held, Contributed, Contribution
  <1>7. GroupsRight'
    BY <1>6, GroupsUnmoved
  <1>. QED  BY <1>5, <1>7

(* A call other than a barrier goes on. *)
LEMMA CallStepInv ==
    ASSUME ServerInv, NEW n \in DOMAIN lines, LineStep(n),
           lines[n].at \notin Finished \cup {"contributed"},
           lines[n].request.tool # "barrier",
           UNCHANGED <<serve, batch, flushes, queue, writes, writer, printed>>,
           lines'[n].handles \in {lines[n].handles, <<>>},
           lines'[n].at \notin {"called", "contributed"},
           lines[n].request.tool = "batch_io" =>
              /\ lines[n].at = "replied" => lines'[n].at \in Finished
              /\ lines'[n].answer = "ok" => lines[n].answer = "ok",
           \/ UNCHANGED runs
           \/ \E k \in {CallOf(n), JobOf(n)} :
                 /\ PieceStep(k)
                 /\ k \in DOMAIN runs => runs[k].at = "queued" /\ runs'[k].at = "aborted",
           lines'[n].at \in {"working", "aborting"} => CallOf(n) \in DOMAIN runs',
           lines'[n].at = "scheduling" => JobOf(n) \in DOMAIN runs',
           CallOf(n) \in DOMAIN runs' => lines[n].request.tool \in PoolTools,
           JobOf(n) \in DOMAIN runs' =>
              /\ lines[n].request.tool = "slot_io"
              /\ lines'[n].at \in {"scheduling"} \cup Finished
              /\ JobOf(n) \in DOMAIN runs \/ lines'[n].at = "scheduling",
           \/ UNCHANGED detached /\ lines[n].at # "scheduling"
           \/ /\ detached' = Append(detached, n) /\ JobOf(n) \in DOMAIN runs'
    PROVE  ServerInv'
  <1>0. ServerTypes /\ HeldOnce /\ RunsKnown /\ QueueKnown
    BY DEF ServerInv
  <1>1. LinesStep({n}) /\ n \in Nat
    BY <1>0, LineLines, RecordTypes
  <1>2. /\ serve' = serve /\ batch' = batch /\ flushes' = flushes /\ queue' = queue
        /\ writes' = writes /\ writer' = writer /\ printed' = printed
    OBVIOUS
  <1>3. /\ DOMAIN runs \subseteq DOMAIN runs'
        /\ DOMAIN runs' \subseteq DOMAIN runs \cup {CallOf(n), JobOf(n)}
        /\ \A u \in DOMAIN runs :
              \/ runs'[u] = runs[u]
              \/ runs[u].at = "queued" /\ runs'[u].at = "aborted"
        /\ \A m : FlushOf(m) \in DOMAIN runs => runs'[FlushOf(m)] = runs[FlushOf(m)]
        /\ DOMAIN runs' \in SUBSET Users /\ runs' \in [DOMAIN runs' -> PieceRecord]
    <2>0. DOMAIN runs \in SUBSET Users /\ runs \in [DOMAIN runs -> PieceRecord]
      BY <1>0 DEF ServerTypes
    <2>1. CASE UNCHANGED runs
      <3>1. runs' = runs
        BY <2>1
      <3>2. DOMAIN runs' \in SUBSET Users /\ runs' \in [DOMAIN runs' -> PieceRecord]
        BY <2>0, <3>1
      <3>. QED  BY <3>1, <3>2
    <2>2. CASE \E k \in {CallOf(n), JobOf(n)} :
                 /\ PieceStep(k)
                 /\ k \in DOMAIN runs => runs[k].at = "queued" /\ runs'[k].at = "aborted"
      <3>1. \A m : FlushOf(m) # CallOf(n) /\ FlushOf(m) # JobOf(n)
        BY KeysApart
      <3>2. PICK k \in {CallOf(n), JobOf(n)} :
                 /\ PieceStep(k)
                 /\ k \in DOMAIN runs => runs[k].at = "queued" /\ runs'[k].at = "aborted"
        BY <2>2
      <3>3. /\ DOMAIN runs' = DOMAIN runs \cup {k}
            /\ \A u \in DOMAIN runs : u # k => runs'[u] = runs[u]
            /\ DOMAIN runs' \in SUBSET Users /\ runs' \in [DOMAIN runs' -> PieceRecord]
        BY <3>2 DEF PieceStep
      <3>4. \A u \in DOMAIN runs :
               \/ runs'[u] = runs[u]
               \/ runs[u].at = "queued" /\ runs'[u].at = "aborted"
        <4>. TAKE u \in DOMAIN runs
        <4>1. CASE u = k
          BY <3>2, <4>1
        <4>2. CASE u # k
          BY <3>3, <4>2
        <4>. QED  BY <4>1, <4>2
      <3>5. \A m : FlushOf(m) \in DOMAIN runs => runs'[FlushOf(m)] = runs[FlushOf(m)]
        BY <3>1, <3>3
      <3>. QED  BY <3>3, <3>4, <3>5
    <2>. QED  BY <2>1, <2>2
  <1>4. detached' \in Seq(Nat) /\ Members(detached) \subseteq Members(detached')
        /\ Members(detached') \subseteq Members(detached) \cup {n}
        /\ (n \in Members(detached') => n \in Members(detached) \/ JobOf(n) \in DOMAIN runs')
        /\ (lines[n].at = "scheduling" => n \in Members(detached'))
    <2>1. detached \in Seq(Nat)
      BY <1>0 DEF ServerTypes
    <2>2. CASE UNCHANGED detached /\ lines[n].at # "scheduling"
      BY <2>1, <2>2
    <2>3. CASE detached' = Append(detached, n) /\ JobOf(n) \in DOMAIN runs'
      <3>1. Append(detached, n) \in Seq(Nat)
            /\ Members(Append(detached, n)) = Members(detached) \cup {n}
        BY <1>1, <2>1, AppendMembers, AppendSteps
      <3>. QED  BY <2>3, <3>1
    <2>. QED  BY <2>2, <2>3
  <1>5. ServerTypes'
    BY <1>0, <1>2, <1>3, <1>4 DEF ServerTypes, LineStep
  <1>6. QueueKnown'
    BY <1>0, <1>2, <1>3 DEF QueueKnown, Distinct
  <1>7. HeldOnce' /\ GroupsRight'
    BY <1>1, <1>2, HeldUnmoved DEF Contributed
  <1>8. \A m \in DOMAIN flushes : FlushKnown(m)' /\
           (flushes[m].at = "writing" => (Written(m)' <=> Written(m)))
    <2>. TAKE m \in DOMAIN flushes
    <2>1. FlushKnown(m)
      BY <1>0 DEF RunsKnown
    <2>2. FlushOf(m) \in DOMAIN runs' => FlushOf(m) \in DOMAIN runs
      BY <1>3, KeysApart
    <2>3. FlushKnown(m)'
      BY <1>2, <1>3, <2>1, <2>2 DEF FlushKnown, FlushOf
    <2>4. flushes[m].at = "writing" => (Written(m)' <=> Written(m))
      BY <1>3, <2>1 DEF FlushKnown, Written, FlushOf
    <2>. QED  BY <2>3, <2>4
  <1>9. WritesAreOwned' /\ WritesKnown'
    <2>1. \A x \in {n} : Contribution(x) =>
              /\ lines'[x].answer = "ok" =>
                    lines[x].answer = "ok" \/ \E w \in writes : x \in w.members
              /\ lines[x].at \in {"contributed", "replied"} =>
                    lines'[x].at \in {"replied"} \cup Finished
      BY DEF Contribution
    <2>. HIDE DEF Written, FlushKnown
    <2>. QED  BY <1>1, <1>2, <1>8, <2>1, WritesUnmoved
  <1>10. RunsKnown'
    <2>1. \A x : /\ CallOf(x) \in DOMAIN runs' => CallOf(x) \in DOMAIN runs \/ x \in {n}
                 /\ JobOf(x) \in DOMAIN runs' => JobOf(x) \in DOMAIN runs \/ x \in {n}
      BY <1>3, KeysApart
    <2>2. \A m \in Nat : FlushOf(m) \in DOMAIN runs' => m \in DOMAIN flushes'
      BY <1>0, <1>2, <1>3, KeysApart DEF RunsKnown
    <2>. HIDE DEF FlushKnown
    <2>. QED  BY <1>1, <1>2, <1>3, <1>8, <2>1, <2>2, RunsUnmoved
  <1>11. HandlesKnown' /\ JobsKept' /\ BarrierKnows' /\ ServeKnown'
    <2>1. \A x : Job(x) => Job(x)' /\ (JobEnded(x) => JobEnded(x)')
      BY <1>3 DEF Job, JobEnded, JobOf
    <2>2. \A x : Job(x)' => Job(x) \/ (x \in {n} /\ lines'[x].at = "scheduling")
      <3>1. \A x : JobOf(x) \in DOMAIN runs' => JobOf(x) \in DOMAIN runs \/ x = n
        BY <1>3, KeysApart
      <3>. QED  BY <3>1 DEF Job, JobOf
    <2>3. \A x \in Members(detached') : Job(x)'
      <3>1. \A x \in Members(detached) : Job(x)
        BY DEF ServerInv, HandlesKnown
      <3>2. JobOf(n) \in DOMAIN runs' => Job(n)'
        BY DEF Job, JobOf
      <3>. QED  BY <1>4, <2>1, <3>1, <3>2
    <2>4. \A x \in {n} : /\ lines[x].request.tool # "barrier"
                        /\ lines'[x].handles \in {lines[x].handles, <<>>}
                        /\ lines[x].at = "scheduling" =>
                              lines'[x].at = "scheduling" \/ x \in Members(detached')
      BY <1>4
    <2>5. {n} # {}
      OBVIOUS
    <2>. HIDE DEF Job, JobEnded
    <2>. QED  BY <1>1, <1>2, <1>4, <2>1, <2>2, <2>3, <2>4, <2>5, JobsUnmoved
  <1>. QED  BY <1>5, <1>6, <1>7, <1>9, <1>10, <1>11 DEF ServerInv

(* Who is behind a line that has not begun, or works, or schedules. *)
LEMMA LineRuns ==
    ASSUME ServerInv, NEW n \in DOMAIN lines
    PROVE  /\ n \in Nat
           /\ lines[n].at = "called" =>
                 CallOf(n) \notin DOMAIN runs /\ JobOf(n) \notin DOMAIN runs
           /\ CallOf(n) \in DOMAIN runs => lines[n].request.tool \in PoolTools
           /\ JobOf(n) \in DOMAIN runs =>
                 /\ lines[n].request.tool = "slot_io"
                 /\ lines[n].at \in {"scheduling"} \cup Finished
           /\ lines[n].at \in {"working", "aborting"} => CallOf(n) \in DOMAIN runs
           /\ lines[n].at = "scheduling" => JobOf(n) \in DOMAIN runs
  <1>1. n \in Nat
    BY RecordTypes DEF ServerInv
  <1>. QED  BY <1>1 DEF ServerInv, RunsKnown, CallKnown, JobKnown, Finished

(* A call that uses the pool no more is answered. *)
LEMMA AnswerInv ==
    ASSUME ServerInv, NEW n \in DOMAIN lines, NEW answer \in Answers, Answer(n, answer),
           lines[n].at \notin Finished \cup {"contributed", "scheduling"},
           lines[n].request.tool # "barrier",
           lines[n].request.tool = "batch_io" => answer # "ok" \/ lines[n].answer = "ok",
           UNCHANGED <<serve, batch, flushes, detached, runs, queue, writes, writer,
                       printed>>
    PROVE  ServerInv'
  <1>1. /\ LineStep(n) /\ lines'[n].at \in Finished
        /\ lines'[n].answer = answer /\ lines'[n].handles = lines[n].handles
    BY AnswerLine DEF ServerInv
  <1>2. lines'[n].at \notin {"called", "contributed", "working", "aborting", "scheduling"}
    BY <1>1 DEF Finished
  <1>. QED  BY <1>1, <1>2, LineRuns, CallStepInv

LEMMA EndContributionInv ==
    ASSUME ServerInv, NEW n \in DOMAIN lines, EndContribution(n)
    PROVE  ServerInv'
  <1>1. /\ lines[n].at = "replied" /\ lines[n].request.tool = "batch_io"
        /\ Answer(n, lines[n].answer)
        /\ UNCHANGED <<serve, batch, flushes, detached, runs, queue, writes, writer, printed>>
    BY DEF EndContribution, InCall
  <1>2. lines[n].answer \in Answers
    BY RecordTypes DEF ServerInv
  <1>3. lines[n].at \notin Finished \cup {"contributed", "scheduling"}
    BY <1>1 DEF Finished
  <1>. QED  BY <1>1, <1>2, <1>3, AnswerInv

LEMMA EndWorkInv ==
    ASSUME ServerInv, NEW n \in DOMAIN lines, EndWork(n)
    PROVE  ServerInv'
  <1>1. /\ lines[n].at = "working" /\ lines[n].request.tool \in PoolTools
        /\ Answer(n, runs[CallOf(n)].result)
        /\ UNCHANGED <<serve, batch, flushes, detached, runs, queue, writes, writer, printed>>
    BY DEF EndWork, InCall
  <1>2. runs[CallOf(n)].result \in Answers
    BY <1>1, LineRuns, RecordTypes DEF ServerInv
  <1>3. /\ lines[n].at \notin Finished \cup {"contributed", "scheduling"}
        /\ lines[n].request.tool \notin {"barrier", "batch_io"}
    BY <1>1 DEF Finished, PoolTools
  <1>. QED  BY <1>1, <1>2, <1>3, AnswerInv

LEMMA RunChildInv ==
    ASSUME ServerInv, NEW n \in DOMAIN lines, RunChild(n) \/ UnknownTool(n)
    PROVE  ServerInv'
  <1>1. /\ lines[n].at = "called" /\ lines[n].request.tool \in {"spawn_slot", "unknown"}
        /\ \E answer \in {"ok", "error"} : Answer(n, answer)
        /\ UNCHANGED <<serve, batch, flushes, detached, runs, queue, writes, writer, printed>>
    BY DEF RunChild, UnknownTool, InCall
  <1>2. PICK answer \in Answers : Answer(n, answer)
    BY <1>1 DEF Answers
  <1>3. /\ lines[n].at \notin Finished \cup {"contributed", "scheduling"}
        /\ lines[n].request.tool \notin {"barrier", "batch_io"}
    BY <1>1 DEF Finished
  <1>. QED  BY <1>1, <1>2, <1>3, AnswerInv

LEMMA StartedTypes ==
    ASSUME ServerTypes, NEW n \in DOMAIN lines
    PROVE  Started(lines[n].request) \in PieceRecord
  <1>1. lines[n].request.rounds \in Int /\ 0 \in Int
    BY RecordTypes
  <1>2. "invalid" \in Answers /\ "ok" \in Answers
    BY DEF Answers
  <1>. QED  BY <1>1, <1>2, PieceTypes DEF Started

LEMMA BeginWorkInv ==
    ASSUME ServerInv, NEW n \in DOMAIN lines, BeginWork(n)
    PROVE  ServerInv'
  <1>. DEFINE place == IF lines[n].request.tool = "cancel_probe" /\ lines[n].request.cancel
                       THEN "aborting" ELSE "working"
  <1>1. /\ lines[n].at = "called" /\ lines[n].request.tool \in PoolTools
        /\ WithRun(CallOf(n), Started(lines[n].request))
        /\ lines' = [lines EXCEPT ![n].at = place]
        /\ UNCHANGED <<serve, batch, flushes, detached, queue, writes, writer, printed>>
    BY DEF BeginWork, InCall
  <1>2. place \in Places /\ place \in {"aborting", "working"}
    BY DEF Places
  <1>. HIDE DEF place
  <1>3. /\ LineStep(n) /\ lines'[n].at = place
        /\ lines'[n].answer = lines[n].answer /\ lines'[n].handles = lines[n].handles
    BY <1>1, <1>2, MoveLine DEF ServerInv
  <1>4. /\ n \in Nat /\ CallOf(n) \notin DOMAIN runs /\ JobOf(n) \notin DOMAIN runs
    BY <1>1, LineRuns
  <1>5. PieceStep(CallOf(n))
    BY <1>1, <1>4, KeyTypes, StartedTypes, SetPiece DEF ServerInv
  <1>6. CallOf(n) \in DOMAIN runs' /\ JobOf(n) \notin DOMAIN runs'
    BY <1>4, <1>5, KeysApart DEF PieceStep
  <1>7. /\ lines[n].at \notin Finished \cup {"contributed", "scheduling"}
        /\ lines[n].request.tool \notin {"barrier", "batch_io"}
    BY <1>1 DEF Finished, PoolTools
  <1>. QED  BY <1>1, <1>2, <1>3, <1>4, <1>5, <1>6, <1>7, CallStepInv

LEMMA AbortInv ==
    ASSUME ServerInv, NEW n \in DOMAIN lines, Abort(n)
    PROVE  ServerInv'
  <1>1. /\ lines[n].at = "aborting" /\ lines[n].request.tool = "cancel_probe"
        /\ runs' = IF runs[CallOf(n)].at = "queued"
                   THEN [runs EXCEPT ![CallOf(n)].at = "aborted"] ELSE runs
        /\ lines' = [lines EXCEPT ![n].at = "working"]
        /\ UNCHANGED <<serve, batch, flushes, detached, queue, writes, writer, printed>>
    BY DEF Abort, InCall
  <1>2. "working" \in Places
    BY DEF Places
  <1>3. /\ LineStep(n) /\ lines'[n].at = "working"
        /\ lines'[n].answer = lines[n].answer /\ lines'[n].handles = lines[n].handles
    BY <1>1, <1>2, MoveLine DEF ServerInv
  <1>4. /\ n \in Nat /\ CallOf(n) \in DOMAIN runs /\ JobOf(n) \notin DOMAIN runs
    BY <1>1, LineRuns DEF Finished
  <1>5. \/ UNCHANGED runs
        \/ /\ PieceStep(CallOf(n)) /\ runs[CallOf(n)].at = "queued"
           /\ runs'[CallOf(n)].at = "aborted"
    <2>1. CASE runs[CallOf(n)].at = "queued"
      BY <1>1, <1>4, <2>1, MovePiece DEF ServerInv
    <2>2. CASE runs[CallOf(n)].at # "queued"
      BY <1>1, <2>2
    <2>. QED  BY <2>1, <2>2
  <1>6. CallOf(n) \in DOMAIN runs' /\ JobOf(n) \notin DOMAIN runs'
    BY <1>4, <1>5, KeysApart DEF PieceStep
  <1>7. /\ lines[n].at \notin Finished \cup {"contributed", "scheduling"}
        /\ lines[n].request.tool \notin {"barrier", "batch_io"}
        /\ lines[n].request.tool \in PoolTools
    BY <1>1 DEF Finished, PoolTools
  <1>. QED  BY <1>1, <1>3, <1>4, <1>5, <1>6, <1>7, CallStepInv

LEMMA DetachInv ==
    ASSUME ServerInv, NEW n \in DOMAIN lines, Detach(n)
    PROVE  ServerInv'
  <1>1. /\ lines[n].at = "called" /\ lines[n].request.tool = "slot_io"
        /\ WithRun(JobOf(n), Started(lines[n].request))
        /\ lines' = [lines EXCEPT ![n].at = "scheduling"]
        /\ UNCHANGED <<serve, batch, flushes, detached, queue, writes, writer, printed>>
    BY DEF Detach, InCall
  <1>2. "scheduling" \in Places
    BY DEF Places
  <1>3. /\ LineStep(n) /\ lines'[n].at = "scheduling"
        /\ lines'[n].answer = lines[n].answer /\ lines'[n].handles = lines[n].handles
    BY <1>1, <1>2, MoveLine DEF ServerInv
  <1>4. /\ n \in Nat /\ CallOf(n) \notin DOMAIN runs /\ JobOf(n) \notin DOMAIN runs
    BY <1>1, LineRuns
  <1>5. PieceStep(JobOf(n))
    BY <1>1, <1>4, KeyTypes, StartedTypes, SetPiece DEF ServerInv
  <1>6. JobOf(n) \in DOMAIN runs' /\ CallOf(n) \notin DOMAIN runs'
    BY <1>4, <1>5, KeysApart DEF PieceStep
  <1>7. lines[n].at \notin Finished \cup {"contributed", "scheduling"}
    BY <1>1 DEF Finished
  <1>. QED  BY <1>1, <1>3, <1>4, <1>5, <1>6, <1>7, CallStepInv

LEMMA PushHandleInv ==
    ASSUME ServerInv, NEW n \in DOMAIN lines, PushHandle(n)
    PROVE  ServerInv'
  <1>1. /\ lines[n].at = "scheduling" /\ lines[n].request.tool = "slot_io"
        /\ detached' = Append(detached, n) /\ Answer(n, "ok")
        /\ UNCHANGED <<serve, batch, flushes, runs, queue, writes, writer, printed>>
    BY DEF PushHandle, InCall
  <1>2. "ok" \in Answers
    BY DEF Answers
  <1>3. /\ LineStep(n) /\ lines'[n].at \in Finished
        /\ lines'[n].answer = "ok" /\ lines'[n].handles = lines[n].handles
    BY <1>1, <1>2, AnswerLine DEF ServerInv
  <1>4. lines'[n].at \notin {"called", "contributed", "working", "aborting", "scheduling"}
    BY <1>3 DEF Finished
  <1>5. /\ JobOf(n) \in DOMAIN runs'
        /\ CallOf(n) \in DOMAIN runs' => lines[n].request.tool \in PoolTools
    BY <1>1, LineRuns
  <1>6. lines[n].at \notin Finished \cup {"contributed"}
    BY <1>1 DEF Finished
  <1>. QED  BY <1>1, <1>3, <1>4, <1>5, <1>6, CallStepInv

(* batch_io: the call joins the batch, or takes it away to be flushed. *)
LEMMA ContributedInv ==
    ASSUME ServerInv, NEW n \in DOMAIN lines, LineStep(n), lines[n].at = "called",
           lines[n].request.tool = "batch_io", lines'[n].at = "contributed",
           lines'[n].answer = lines[n].answer, lines'[n].handles = lines[n].handles,
           UNCHANGED <<serve, detached, runs, queue, writes, writer, printed>>,
           \/ batch' = Append(batch, n) /\ UNCHANGED flushes
           \/ /\ batch' = <<>>
              /\ \E f \in FlushRecord :
                    /\ flushes' = Append(flushes, f)
                    /\ f.at = "next" /\ Distinct(f.pending)
                    /\ Members(f.pending) = Members(batch) \cup {n}
    PROVE  ServerInv'
  <1>0. ServerTypes /\ HeldOnce /\ RunsKnown /\ QueueKnown
    BY DEF ServerInv
  <1>1. LinesStep({n}) /\ n \in Nat
    BY <1>0, LineLines, RecordTypes DEF Finished
  <1>2. /\ serve' = serve /\ detached' = detached /\ runs' = runs /\ queue' = queue
        /\ writes' = writes /\ writer' = writer /\ printed' = printed
    OBVIOUS
  <1>3. /\ DOMAIN flushes \subseteq DOMAIN flushes' /\ flushes' \in Seq(FlushRecord)
        /\ \A m \in DOMAIN flushes : flushes'[m] = flushes[m]
        /\ \A m \in DOMAIN flushes' : m \notin DOMAIN flushes =>
              /\ flushes'[m].at = "next" /\ m \in Nat
              /\ Distinct(flushes'[m].pending)
              /\ Members(flushes'[m].pending) = Members(batch) \cup {n}
              /\ batch' = <<>>
        /\ \A l, m \in DOMAIN flushes' \ DOMAIN flushes : l = m
    <2>1. flushes \in Seq(FlushRecord)
      BY <1>0 DEF ServerTypes
    <2>2. CASE UNCHANGED flushes
      BY <2>1, <2>2
    <2>3. CASE /\ batch' = <<>>
               /\ \E f \in FlushRecord :
                    /\ flushes' = Append(flushes, f)
                    /\ f.at = "next" /\ Distinct(f.pending)
                    /\ Members(f.pending) = Members(batch) \cup {n}
      <3>1. PICK f \in FlushRecord :
                    /\ flushes' = Append(flushes, f)
                    /\ f.at = "next" /\ Distinct(f.pending)
                    /\ Members(f.pending) = Members(batch) \cup {n}
        BY <2>3
      <3>2. PICK l \in Nat : l = Len(flushes)
        BY <2>1
      <3>3. /\ flushes' \in Seq(FlushRecord) /\ DOMAIN flushes' = 1 .. l + 1
            /\ DOMAIN flushes = 1 .. l /\ flushes'[l + 1] = f
            /\ \A m \in DOMAIN flushes : flushes'[m] = flushes[m]
        BY <2>1, <3>1, <3>2, AppendSteps
      <3>4. \A m \in 1 .. l + 1 : m \notin 1 .. l => m = l + 1 /\ m \in Nat
        BY <3>2
      <3>5. 1 .. l \subseteq 1 .. l + 1
        BY <3>2
      <3>. QED  BY <2>3, <3>1, <3>3, <3>4, <3>5
    <2>. QED  BY <2>2, <2>3
  <1>4. batch \in Seq(Nat) /\ batch' \in Seq(Nat)
        /\ batch' \in {Append(batch, n), <<>>}
    <2>1. batch \in Seq(Nat)
      BY <1>0 DEF ServerTypes
    <2>2. Append(batch, n) \in Seq(Nat) /\ <<>> \in Seq(Nat)
      BY <1>1, <2>1
    <2>3. batch' \in {Append(batch, n), <<>>}
      OBVIOUS
    <2>. QED  BY <2>1, <2>2, <2>3
  <1>5. ServerTypes'
    BY <1>0, <1>2, <1>3, <1>4 DEF ServerTypes, LineStep
  <1>6. QueueKnown'
    BY <1>0, <1>2 DEF QueueKnown, Distinct
  <1>7. Contributed(n)' /\ \A x : Contributed(x) => Contributed(x)' /\ x # n
    <2>1. IsCall(lines[n].request)
      BY <1>0 DEF RunsKnown
    <2>. QED  BY <1>1, <2>1 DEF Contributed, Contribution, LinesStep
  <1>8. \A m \in DOMAIN flushes :
          /\ Held(m)' = Held(m)
          /\ Distinct(flushes[m].pending)' <=> Distinct(flushes[m].pending)
          /\ Members(flushes[m].group)' = Members(flushes[m].group)
          /\ Members(flushes[m].pending)' = Members(flushes[m].pending)
    BY <1>3 DEF Held, Members, Distinct
  <1>9. \A m \in DOMAIN flushes' : m \notin DOMAIN flushes =>
          /\ Held(m)' = Members(batch) \cup {n}
          /\ Distinct(flushes[m].pending)'
    BY <1>3 DEF Held, Members, Distinct
  <1>10. HeldOnce'
    <2>1. \A x \in Members(batch) : Contributed(x) /\ x # n
      BY <1>0, <1>7 DEF HeldOnce
    <2>2. /\ Distinct(batch') /\ Members(batch') \subseteq Members(batch) \cup {n}
          /\ batch' = <<>> => Members(batch') = {}
      <3>0. Members(<<>>) = {} /\ Distinct(<<>>)
        BY DEF Members, Distinct
      <3>1. CASE batch' = <<>>
        BY <3>0, <3>1
      <3>2. CASE batch' = Append(batch, n)
        <4>1. \A i \in DOMAIN batch : batch[i] # n
          BY <2>1 DEF Members
        <4>2. Distinct(Append(batch, n))
          BY <1>0, <1>1, <1>4, <4>1, AppendDistinct DEF HeldOnce
        <4>3. Members(Append(batch, n)) = Members(batch) \cup {n}
          BY <1>1, <1>4, AppendMembers
        <4>. QED  BY <3>0, <3>2, <4>2, <4>3
      <3>. QED  BY <1>4, <3>1, <3>2
    <2>3. Members(batch)' = Members(batch') /\ (Distinct(batch)' <=> Distinct(batch'))
      BY DEF Members, Distinct
    <2>4. \A x \in Members(batch') : Contributed(x)'
      BY <1>7, <2>1, <2>2
    <2>5. \A m \in DOMAIN flushes : \A x \in Held(m) : Contributed(x) /\ x # n
                                                      /\ x \notin Members(batch)
      BY <1>0, <1>7 DEF HeldOnce
    <2>6. ASSUME NEW m \in DOMAIN flushes'
          PROVE  /\ Distinct(flushes[m].pending)'
                 /\ \A x \in Held(m)' : Contributed(x)' /\ x \notin Members(batch')
                 /\ flushes'[m].at = "writing" =>
                       (Members(flushes[m].group) \cap Members(flushes[m].pending) = {})'
      <3>1. CASE m \in DOMAIN flushes
        <4>1. Distinct(flushes[m].pending)'
          BY <1>0, <1>8, <3>1 DEF HeldOnce
        <4>2. \A x \in Held(m)' : Contributed(x)' /\ x \notin Members(batch')
          BY <1>7, <1>8, <2>2, <2>5, <3>1
        <4>3. flushes'[m].at = "writing" =>
                       (Members(flushes[m].group) \cap Members(flushes[m].pending) = {})'
          BY <1>0, <1>3, <1>8, <3>1 DEF HeldOnce
        <4>. QED  BY <4>1, <4>2, <4>3
      <3>2. CASE m \notin DOMAIN flushes
        <4>1. flushes'[m].at # "writing" /\ batch' = <<>>
          BY <1>3, <3>2
        <4>2. \A x \in Held(m)' : Contributed(x)' /\ x \notin Members(batch')
          BY <1>7, <1>9, <2>1, <2>2, <3>2, <4>1
        <4>. QED  BY <1>9, <3>2, <4>1, <4>2
      <3>. QED  BY <3>1, <3>2
    <2>7. \A k, l \in DOMAIN flushes' : k # l => Held(k)' \cap Held(l)' = {}
      <3>. SUFFICES ASSUME NEW k \in DOMAIN flushes', NEW l \in DOMAIN flushes', k # l
                    PROVE  Held(k)' \cap Held(l)' = {}
        OBVIOUS
      <3>1. CASE k \in DOMAIN flushes /\ l \in DOMAIN flushes
        BY <1>0, <1>8, <3>1 DEF HeldOnce
      <3>2. CASE k \in DOMAIN flushes /\ l \notin DOMAIN flushes
        BY <1>8, <1>9, <2>5, <3>2
      <3>3. CASE k \notin DOMAIN flushes /\ l \in DOMAIN flushes
        BY <1>8, <1>9, <2>5, <3>3
      <3>. QED  BY <1>3, <3>1, <3>2, <3>3
    <2>. HIDE DEF Held, Contributed, Members, Distinct
    <2>. QED  BY <2>2, <2>3, <2>4, <2>6, <2>7 DEF HeldOnce
  <1>11. GroupsRight'
    <2>1. \A m \in DOMAIN flushes : flushes[m].at = "writing" =>
           GroupRight(flushes[m].group) /\ Members(flushes[m].group) \subseteq DOMAIN lines
      BY DEF ServerInv, GroupsRight, HeldOnce, Held, Contributed, Contribution
    <2>2. \A m \in DOMAIN flushes' : flushes'[m].at = "writing" =>
             m \in DOMAIN flushes /\ flushes'[m] = flushes[m]
      BY <1>3
    <2>3. \A m \in DOMAIN flushes' : flushes'[m].at = "writing" =>
              /\ GroupRight(flushes'[m].group)
              /\ Members(flushes'[m].group) \subseteq DOMAIN lines
      BY <2>1, <2>2
    <2>. QED  BY <1>1, <2>3, GroupsUnmoved
  <1>12. \A m \in DOMAIN flushes : Written(m)' <=> Written(m)
    BY <1>2 DEF Written, FlushOf
  <1>13. WritesAreOwned' /\ WritesKnown'
    <2>1. \A x \in {n} : Contribution(x) =>
              /\ lines'[x].answer = "ok" =>
                    lines[x].answer = "ok" \/ \E w \in writes : x \in w.members
              /\ lines[x].at \in {"contributed", "replied"} =>
                    lines'[x].at \in {"replied"} \cup Finished
      OBVIOUS
    <2>2. \A m \in DOMAIN flushes' : flushes'[m].at = "writing" /\ Written(m)' =>
              /\ m \in DOMAIN flushes /\ flushes'[m] = flushes[m] /\ Written(m)
      BY <1>3, <1>12
    <2>. QED  BY <1>1, <1>2, <1>3, <1>12, <2>1, <2>2, WritesUnmoved
  <1>14. RunsKnown'
    <2>1. \A m \in DOMAIN flushes' : FlushKnown(m)'
      <3>. TAKE m \in DOMAIN flushes'
      <3>1. CASE m \in DOMAIN flushes
        <4>1. FlushKnown(m)
          BY <1>0, <3>1 DEF RunsKnown
        <4>. QED  BY <1>2, <1>3, <3>1, <4>1 DEF FlushKnown, FlushOf
      <3>2. CASE m \notin DOMAIN flushes
        <4>1. FlushOf(m) \notin DOMAIN runs
          BY <1>0, <1>3, <3>2 DEF RunsKnown
        <4>. QED  BY <1>2, <1>3, <3>2, <4>1 DEF FlushKnown, FlushOf
      <3>. QED  BY <3>1, <3>2
    <2>2. CallOf(n) \notin DOMAIN runs /\ JobOf(n) \notin DOMAIN runs
      BY LineRuns
    <2>3. \A m \in Nat : FlushOf(m) \in DOMAIN runs' => m \in DOMAIN flushes'
      BY <1>0, <1>2, <1>3 DEF RunsKnown
    <2>. HIDE DEF FlushKnown
    <2>. QED  BY <1>1, <1>2, <2>1, <2>2, <2>3, RunsUnmoved
  <1>15. HandlesKnown' /\ JobsKept' /\ BarrierKnows' /\ ServeKnown'
    <2>1. \A x : (Job(x)' <=> Job(x)) /\ (JobEnded(x)' <=> JobEnded(x))
      BY <1>2 DEF Job, JobEnded, JobOf
    <2>2. \A x \in Members(detached) : Job(x)
      BY DEF ServerInv, HandlesKnown
    <2>. QED  BY <1>1, <1>2, <2>1, <2>2, JobsUnmoved
  <1>. QED  BY <1>5, <1>6, <1>10, <1>11, <1>13, <1>14, <1>15 DEF ServerInv

LEMMA ContributeInv ==
    ASSUME ServerInv, NEW n \in DOMAIN lines, Contribute(n)
    PROVE  ServerInv'
  <1>1. /\ lines[n].at = "called" /\ lines[n].request.tool = "batch_io"
        /\ LineStep(n)
        /\ UNCHANGED <<serve, detached, runs, queue, writes, writer, printed>>
        /\ \/ /\ lines'[n].at \in Finished /\ lines'[n].answer = "invalid"
              /\ lines'[n].handles = lines[n].handles /\ UNCHANGED <<batch, flushes>>
           \/ /\ lines'[n].at = "contributed" /\ lines'[n].answer = lines[n].answer
              /\ lines'[n].handles = lines[n].handles
              /\ \/ batch' = Append(batch, n) /\ UNCHANGED flushes
                 \/ /\ batch' = <<>>
                    /\ \E f \in FlushRecord :
                             /\ flushes' = Append(flushes, f)
                             /\ f.at = "next" /\ Distinct(f.pending)
                             /\ Members(f.pending) = Members(batch) \cup {n}
    BY ContributeSteps DEF ServerInv
  <1>2. CASE /\ lines'[n].at \in Finished /\ lines'[n].answer = "invalid"
             /\ lines'[n].handles = lines[n].handles /\ UNCHANGED <<batch, flushes>>
    <2>1. lines'[n].at \notin {"called", "contributed", "working", "aborting", "scheduling"}
      BY <1>2 DEF Finished
    <2>2. CallOf(n) \notin DOMAIN runs /\ JobOf(n) \notin DOMAIN runs
      BY <1>1, LineRuns
    <2>3. lines[n].at \notin Finished \cup {"contributed", "scheduling"}
      BY <1>1 DEF Finished
    <2>. QED  BY <1>1, <1>2, <2>1, <2>2, <2>3, CallStepInv
  <1>3. CASE /\ lines'[n].at = "contributed" /\ lines'[n].answer = lines[n].answer
             /\ lines'[n].handles = lines[n].handles
             /\ \/ batch' = Append(batch, n) /\ UNCHANGED flushes
                \/ /\ batch' = <<>>
                   /\ \E f \in FlushRecord :
                             /\ flushes' = Append(flushes, f)
                             /\ f.at = "next" /\ Distinct(f.pending)
                             /\ Members(f.pending) = Members(batch) \cup {n}
    BY <1>1, <1>3, ContributedInv
  <1>. QED  BY <1>1, <1>2, <1>3

(* A barrier goes on: what it held, or finds, has ended or stays in its hands. *)
LEMMA BarrierInv ==
    ASSUME ServerInv, NEW b \in DOMAIN lines, LineStep(b),
           lines[b].request.tool = "barrier", lines[b].at \in {"called", "draining"},
           lines'[b].at \in {"draining"} \cup Finished,
           lines'[b].answer # "none" => lines'[b].at \in Finished,
           \/ lines'[b].at = "draining" \/ lines'[b].answer = "error"
           \/ lines'[b].handles = <<>>,
           Members(lines'[b].handles) \subseteq Members(lines[b].handles) \cup Members(detached),
           UNCHANGED <<serve, batch, flushes, runs, queue, writes, writer, printed>>,
           detached' \in Seq(Nat), Members(detached') \subseteq Members(detached),
           \A n : \/ Holds(b, n)
                  \/ n \in Members(detached) \ Members(detached')
                  \/ n \in Members(detached) /\ lines[b].at = "called"
                  => JobEnded(n) \/ Holds(b, n)'
    PROVE  ServerInv'
  <1>0. ServerTypes /\ HeldOnce /\ RunsKnown /\ QueueKnown /\ HandlesKnown
    BY DEF ServerInv
  <1>1. lines[b].at \notin Finished
    BY DEF Finished
  <1>2. LinesStep({b})
    BY <1>1, LineLines
  <1>3. /\ serve' = serve /\ batch' = batch /\ flushes' = flushes /\ runs' = runs
        /\ queue' = queue /\ writes' = writes /\ writer' = writer /\ printed' = printed
    OBVIOUS
  <1>4. lines'[b].at \notin {"called", "contributed", "working", "aborting", "scheduling"}
    BY DEF Finished
  <1>5. /\ b \in Barriers /\ Barriers' = Barriers
        /\ \A c \in Barriers : c \in DOMAIN lines /\ (c # b => lines'[c] = lines[c])
        /\ lines[b].answer = "none"
    <2>1. IsCall(lines[b].request)
      BY <1>0 DEF RunsKnown
    <2>2. b \in Barriers
      BY <2>1 DEF Barriers
    <2>3. Barriers' = Barriers
      <3>1. \A c \in DOMAIN lines : lines'[c].request = lines[c].request
        BY DEF LineStep
      <3>. QED  BY <3>1 DEF Barriers, LineStep
    <2>. QED  BY <1>0, <1>1, <2>2, <2>3 DEF HandlesKnown, Barriers, LineStep
  <1>6. ServerTypes'
    BY <1>0, <1>3 DEF ServerTypes, LineStep
  <1>7. QueueKnown'
    BY <1>0, <1>3 DEF QueueKnown, Distinct
  <1>8. HeldOnce' /\ GroupsRight'
    BY <1>2, <1>3, HeldUnmoved DEF Contributed
  <1>9. \A m \in DOMAIN flushes : FlushKnown(m)' /\ (Written(m)' <=> Written(m))
    BY <1>0, <1>3 DEF RunsKnown, FlushKnown, Written, FlushOf
  <1>10. WritesAreOwned' /\ WritesKnown'
    <2>1. ~Contribution(b)
      BY DEF Contribution
    <2>. HIDE DEF FlushKnown, Written, Contribution
    <2>. QED  BY <1>2, <1>3, <1>9, <2>1, WritesUnmoved
  <1>11. RunsKnown'
    <2>1. /\ CallOf(b) \in DOMAIN runs => lines[b].request.tool \in PoolTools
          /\ JobOf(b) \notin DOMAIN runs
      BY <1>1, LineRuns
    <2>2. \A m \in Nat : FlushOf(m) \in DOMAIN runs' => m \in DOMAIN flushes'
      BY <1>0, <1>3 DEF RunsKnown
    <2>. HIDE DEF FlushKnown
    <2>. QED  BY <1>2, <1>3, <1>4, <1>9, <2>1, <2>2, RunsUnmoved
  <1>12. \A n : (Job(n)' <=> Job(n)) /\ (JobEnded(n)' <=> JobEnded(n))
    BY <1>3 DEF Job, JobEnded, JobOf
  <1>13. \A n : /\ n \in Members(detached)' <=> n \in Members(detached')
                /\ n \in Members(serve.handles)' <=> n \in Members(serve.handles)
                /\ \A c : n \in Members(lines[c].handles)' <=> n \in Members(lines'[c].handles)
    BY <1>3 DEF Members
  <1>14. HandlesKnown'
    <2>1. \A c \in DOMAIN lines : \A n \in Members(lines'[c].handles) \cup lines'[c].scheduled :
             n \in Nat /\ Job(n)
      <3>. TAKE c \in DOMAIN lines
      <3>1. CASE c = b
        <4>1. lines'[b].scheduled = lines[b].scheduled
          BY DEF LineStep
        <4>2. \A n \in Members(detached) : n \in Nat /\ Job(n)
          <5>1. detached \in Seq(Nat)
            BY <1>0 DEF ServerTypes
          <5>. QED  BY <1>0, <5>1 DEF HandlesKnown, Members
        <4>. QED  BY <1>0, <3>1, <4>1, <4>2 DEF HandlesKnown
      <3>2. CASE c # b
        BY <1>0, <3>2 DEF HandlesKnown, LineStep
      <3>. QED  BY <3>1, <3>2
    <2>2. \A c \in Barriers :
             /\ lines'[c].answer # "none" => lines'[c].at \in Finished
             /\ lines'[c].at = "draining" \/ lines'[c].answer = "error"
                   \/ lines'[c].handles = <<>>
      BY <1>0, <1>5 DEF HandlesKnown
    <2>. HIDE DEF Job, Members
    <2>. QED  BY <1>0, <1>3, <1>5, <1>12, <1>13, <2>1, <2>2 DEF HandlesKnown, LineStep
  <1>15. \A n, c : c # b /\ c \in Barriers => (Holds(c, n)' <=> Holds(c, n))
    BY <1>5 DEF Holds, Members
  <1>16. \A n : (\E c \in Barriers : Holds(c, n)) =>
               JobEnded(n) \/ \E c \in Barriers : Holds(c, n)'
    BY <1>5, <1>15
  <1>17. JobsKept'
    <2>1. SUFFICES ASSUME NEW n \in DOMAIN lines, Job(n)
                   PROVE  \/ JobEnded(n) \/ lines'[n].at = "scheduling"
                          \/ n \in Members(detached') \/ n \in Members(serve.handles)
                          \/ serve.at = "failed"
                          \/ \E c \in Barriers : Holds(c, n)'
      BY <1>3, <1>5, <1>12, <1>13 DEF JobsKept, LineStep
    <2>2. \/ JobEnded(n) \/ lines[n].at = "scheduling"
          \/ n \in Members(detached) \/ n \in Members(serve.handles) \/ serve.at = "failed"
          \/ \E c \in Barriers : Holds(c, n)
      BY <2>1 DEF ServerInv, JobsKept
    <2>3. CASE lines[n].at = "scheduling"
      <3>1. n # b
        BY <2>3
      <3>. QED  BY <2>3, <3>1 DEF LineStep
    <2>4. CASE n \in Members(detached)
      BY <1>5, <2>4
    <2>5. CASE \E c \in Barriers : Holds(c, n)
      BY <1>16, <2>5
    <2>. QED  BY <2>2, <2>3, <2>4, <2>5
  <1>18. BarrierKnows'
    <2>1. SUFFICES ASSUME NEW c \in Barriers, NEW n \in lines'[c].scheduled
                   PROVE  \/ JobEnded(n)
                          \/ lines'[c].at = "called" /\ n \in Members(detached')
                          \/ \E d \in Barriers : Holds(d, n)'
      BY <1>5, <1>12, <1>13 DEF BarrierKnows
    <2>2. n \in lines[c].scheduled
      BY <1>5, <2>1 DEF LineStep
    <2>3. \/ JobEnded(n)
          \/ lines[c].at = "called" /\ n \in Members(detached)
          \/ \E d \in Barriers : Holds(d, n)
      BY <2>1, <2>2 DEF ServerInv, BarrierKnows
    <2>4. CASE lines[c].at = "called" /\ n \in Members(detached)
      <3>1. CASE c = b \/ n \notin Members(detached')
        BY <1>5, <2>4, <3>1
      <3>2. CASE c # b /\ n \in Members(detached')
        BY <1>5, <2>4, <3>2
      <3>. QED  BY <3>1, <3>2
    <2>. QED  BY <1>16, <2>3, <2>4
  <1>19. ServeKnown'
    <2>1. ServeKnown
      BY DEF ServerInv
    <2>2. \A n \in DOMAIN lines : lines[n].at = "answered" => n # b /\ lines'[n] = lines[n]
      BY <1>1 DEF LineStep, Finished
    <2>3. ~AllAnswered
      BY <1>1 DEF AllAnswered, Finished
    <2>. HIDE DEF AllAnswered
    <2>. QED  BY <1>3, <2>1, <2>2, <2>3 DEF ServeKnown, LineStep
  <1>. QED  BY <1>6, <1>7, <1>8, <1>10, <1>11, <1>14, <1>17, <1>18, <1>19 DEF ServerInv

LEMMA TakeHandlesInv ==
    ASSUME ServerInv, NEW b \in DOMAIN lines, TakeHandles(b)
    PROVE  ServerInv'
  <1>0. ServerTypes /\ HandlesKnown /\ RunsKnown
    BY DEF ServerInv
  <1>1. /\ lines[b].at = "called" /\ lines[b].request.tool = "barrier"
        /\ lines' = [lines EXCEPT ![b].at = "draining", ![b].handles = detached]
        /\ detached' = <<>>
        /\ UNCHANGED <<serve, batch, flushes, runs, queue, writes, writer, printed>>
    BY DEF TakeHandles, InCall
  <1>2. detached \in Seq(Nat) /\ "draining" \in Places
    BY <1>0 DEF ServerTypes, Places
  <1>3. /\ LineStep(b) /\ lines'[b].at = "draining"
        /\ lines'[b].answer = lines[b].answer /\ lines'[b].handles = detached
    BY <1>0, <1>1, <1>2, HandleLine
  <1>4. lines[b].answer = "none"
    <2>1. IsCall(lines[b].request)
      BY <1>0, <1>1 DEF RunsKnown
    <2>. QED  BY <1>0, <1>1, <2>1 DEF HandlesKnown, Barriers, Finished
  <1>5. detached' \in Seq(Nat) /\ Members(detached') = {}
    BY <1>1 DEF Members
  <1>6. \A n : n \in Members(detached) => Holds(b, n)'
    BY <1>3 DEF Holds, Members
  <1>7. \A n : ~Holds(b, n)
    <2>1. IsCall(lines[b].request)
      BY <1>0, <1>1 DEF RunsKnown
    <2>2. lines[b].handles = <<>>
      BY <1>0, <1>1, <1>4, <2>1 DEF HandlesKnown, Barriers
    <2>. QED  BY <2>2 DEF Holds, Members
  <1>. HIDE DEF Holds
  <1>. QED  BY <1>1, <1>3, <1>4, <1>5, <1>6, <1>7, BarrierInv

LEMMA AwaitHandleInv ==
    ASSUME ServerInv, NEW b \in DOMAIN lines, AwaitHandle(b)
    PROVE  ServerInv'
  <1>. DEFINE handles == lines[b].handles
  <1>0. ServerTypes
    BY DEF ServerInv
  <1>1. /\ lines[b].at = "draining" /\ lines[b].request.tool = "barrier"
        /\ \/ Drained(handles) /\ Answer(b, "ok")
           \/ NextFailed(handles) /\ Answer(b, "error")
           \/ /\ NextDone(handles) /\ ~NextFailed(handles)
              /\ lines' = [lines EXCEPT ![b].handles = Tail(handles)]
        /\ UNCHANGED <<serve, batch, flushes, detached, runs, queue, writes, writer,
                       printed>>
    BY DEF AwaitHandle, InCall
  <1>2. detached' \in Seq(Nat) /\ detached' = detached /\ handles \in Seq(Nat)
    BY <1>0, <1>1, RecordTypes DEF ServerTypes
  <1>3. \A n : n \in Members(handles) <=> Holds(b, n)
    BY DEF Holds
  <1>4. lines[b].answer = "none"
    <2>1. IsCall(lines[b].request)
      BY <1>1 DEF ServerInv, RunsKnown
    <2>. QED  BY <1>1, <2>1 DEF ServerInv, HandlesKnown, Barriers, Finished
  <1>5. Members(<<>>) = {}
    BY DEF Members
  <1>6. CASE Drained(handles) /\ Answer(b, "ok")
    <2>1. /\ LineStep(b) /\ lines'[b].at \in Finished /\ lines'[b].handles = <<>>
      BY <1>0, <1>6, AnswerLine DEF Answers, Drained
    <2>2. \A n : ~Holds(b, n)
      BY <1>3, <1>5, <1>6 DEF Drained
    <2>. HIDE DEF Holds
    <2>. QED  BY <1>1, <1>2, <1>5, <2>1, <2>2, BarrierInv
  <1>7. CASE NextFailed(handles) /\ Answer(b, "error")
    <2>1. /\ LineStep(b) /\ lines'[b].at \in Finished /\ lines'[b].handles = handles
          /\ lines'[b].answer = "error"
      BY <1>0, <1>7, AnswerLine DEF Answers
    <2>2. \A n : Holds(b, n) => Holds(b, n)'
      BY <2>1 DEF Holds, Members
    <2>. HIDE DEF Holds
    <2>. QED  BY <1>1, <1>2, <2>1, <2>2, BarrierInv
  <1>8. CASE /\ NextDone(handles) /\ ~NextFailed(handles)
             /\ lines' = [lines EXCEPT ![b].handles = Tail(handles)]
    <2>1. handles # <<>> /\ JobEnded(Head(handles))
      BY <1>8 DEF NextDone, JobEnded
    <2>2. /\ Members(handles) = Members(Tail(handles)) \cup {Head(handles)}
          /\ Tail(handles) \in Seq(Nat)
      <3>. HIDE DEF handles
      <3>. QED  BY <1>2, <2>1, TailMembers, TailSteps
    <2>3. lines' = [lines EXCEPT ![b].at = "draining", ![b].handles = Tail(handles)]
      <3>1. lines[b] = [lines[b] EXCEPT !.at = "draining"]
        <4>1. lines[b] \in LineRecord
          BY <1>0, RecordTypes
        <4>. QED  BY <1>1, <4>1 DEF LineRecord
      <3>. QED  BY <1>8, <3>1
    <2>. HIDE DEF handles
    <2>4. /\ LineStep(b) /\ lines'[b].at = "draining"
          /\ lines'[b].answer = lines[b].answer /\ lines'[b].handles = Tail(handles)
      BY <1>0, <2>2, <2>3, HandleLine DEF Places
    <2>5. \A n : n \in Members(Tail(handles)) => Holds(b, n)'
      BY <2>4 DEF Holds, Members
    <2>6. \A n : Holds(b, n) => JobEnded(n) \/ Holds(b, n)'
      BY <1>3, <2>1, <2>2, <2>5
    <2>7. Members(lines'[b].handles) \subseteq Members(lines[b].handles) \cup Members(detached)
      BY <2>2, <2>4 DEF handles
    <2>. HIDE DEF Holds
    <2>. QED  BY <1>1, <1>2, <1>4, <2>4, <2>6, <2>7, BarrierInv
  <1>. QED  BY <1>1, <1>6, <1>7, <1>8

-----------------------------------------------------------------------------
(* serve and the writer keep the invariant. *)

LEMMA IdleInv ==
    ASSUME ServerInv, UNCHANGED <<lines, batch, flushes, runs, queue, writes>>
    PROVE  /\ QueueKnown' /\ RunsKnown' /\ HeldOnce' /\ GroupsRight'
           /\ WritesAreOwned' /\ WritesKnown'
  <1>1. QueueKnown'
    BY DEF ServerInv, QueueKnown, Distinct
  <1>2. LinesStep({})
    BY DEF LinesStep, ServerInv, ServerTypes
  <1>3. HeldOnce' /\ GroupsRight'
    BY <1>2, HeldUnmoved
  <1>4. \A m \in DOMAIN flushes : FlushKnown(m)' /\ (Written(m)' <=> Written(m))
    BY DEF ServerInv, RunsKnown, FlushKnown, Written, FlushOf
  <1>5. WritesAreOwned' /\ WritesKnown'
    <2>. HIDE DEF FlushKnown, Written
    <2>. QED  BY <1>2, <1>4, WritesUnmoved
  <1>6. RunsKnown'
    <2>1. \A m \in Nat : FlushOf(m) \in DOMAIN runs' => m \in DOMAIN flushes'
      BY DEF ServerInv, RunsKnown
    <2>. HIDE DEF FlushKnown
    <2>. QED  BY <1>2, <1>4, <2>1, RunsUnmoved
  <1>. QED  BY <1>1, <1>3, <1>5, <1>6

(* serve goes on: the handles it takes, or awaits, stay in its hands. *)
LEMMA ServeInv ==
    ASSUME ServerInv, UNCHANGED <<lines, batch, flushes, runs, queue, writes, writer, printed>>,
           serve' \in ServeRecord, ServeKnown',
           \/ UNCHANGED detached
           \/ detached' = <<>> /\ AllAnswered,
           Members(serve'.handles) \subseteq Members(serve.handles) \cup Members(detached),
           \A n : n \in Members(detached) \cup Members(serve.handles) \/ serve.at = "failed" =>
              \/ JobEnded(n) \/ n \in Members(detached') \/ n \in Members(serve'.handles)
              \/ serve'.at = "failed"
    PROVE  ServerInv'
  <1>1. /\ lines' = lines /\ batch' = batch /\ flushes' = flushes /\ runs' = runs
        /\ queue' = queue /\ writes' = writes /\ writer' = writer /\ printed' = printed
    OBVIOUS
  <1>2. ServerTypes'
    <2>1. <<>> \in Seq(Nat)
      OBVIOUS
    <2>. QED  BY <1>1, <2>1 DEF ServerInv, ServerTypes
  <1>3. /\ \A n : (Job(n)' <=> Job(n)) /\ (JobEnded(n)' <=> JobEnded(n))
        /\ \A n, b : Holds(b, n)' <=> Holds(b, n)
        /\ Barriers' = Barriers
    BY <1>1 DEF Job, JobEnded, JobOf, Holds, Members, Barriers
  <1>4. /\ Members(detached)' = Members(detached')
        /\ Members(serve.handles)' = Members(serve'.handles)
        /\ \A b : Members(lines[b].handles)' = Members(lines[b].handles)
    BY <1>1 DEF Members
  <1>5. Members(detached') \subseteq Members(detached)
    BY DEF Members
  <1>6. HandlesKnown'
    BY <1>1, <1>3, <1>4, <1>5 DEF ServerInv, HandlesKnown
  <1>7. JobsKept'
    BY <1>1, <1>3, <1>4 DEF ServerInv, JobsKept
  <1>8. BarrierKnows'
    <2>1. SUFFICES ASSUME NEW b \in Barriers, NEW n \in lines[b].scheduled
                   PROVE  \/ JobEnded(n)
                          \/ lines[b].at = "called" /\ n \in Members(detached')
                          \/ \E c \in Barriers : Holds(c, n)
      BY <1>1, <1>3, <1>4 DEF BarrierKnows
    <2>2. \/ JobEnded(n)
          \/ lines[b].at = "called" /\ n \in Members(detached)
          \/ \E c \in Barriers : Holds(c, n)
      BY <2>1 DEF ServerInv, BarrierKnows
    <2>3. lines[b].at = "called" => detached' = detached
      BY DEF AllAnswered, Barriers
    <2>. QED  BY <2>2, <2>3
  <1>. QED  BY <1>2, <1>6, <1>7, <1>8, IdleInv DEF ServerInv

(* serve is at another place, and as far. *)
LEMMA ServeAtSteps ==
    ASSUME ServerTypes,
           NEW place \in {"reading", "awaiting", "draining", "stopping", "ended", "failed"},
           ServeAt(place)
    PROVE  /\ serve' \in ServeRecord /\ serve'.at = place
           /\ serve'.next = serve.next /\ serve'.handles = serve.handles
  BY DEF ServeAt, ServerTypes, ServeRecord

(* A server that fails, or whose client closes stdin, loses no handle. *)
LEMMA ServeFailsInv ==
    ASSUME ServerInv, ServeAt("failed"),
           UNCHANGED <<lines, batch, flushes, detached, runs, queue, writes, writer, printed>>
    PROVE  ServerInv'
  <1>1. /\ serve' \in ServeRecord /\ serve'.at = "failed"
        /\ serve'.next = serve.next /\ serve'.handles = serve.handles
    BY ServeAtSteps DEF ServerInv
  <1>2. ServeKnown'
    BY <1>1 DEF ServerInv, ServeKnown
  <1>. QED  BY <1>1, <1>2, ServeInv

LEMMA EndOfInputInv ==
    ASSUME ServerInv, EndOfInput
    PROVE  ServerInv'
  <1>1. /\ serve.at = "reading" /\ ServeAt("awaiting")
        /\ UNCHANGED <<lines, batch, flushes, detached, runs, queue, writes, writer,
                       printed>>
    BY DEF EndOfInput
  <1>2. /\ serve' \in ServeRecord /\ serve'.at = "awaiting"
        /\ serve'.next = serve.next /\ serve'.handles = serve.handles
    BY <1>1, ServeAtSteps DEF ServerInv
  <1>3. ServeKnown'
    BY <1>1, <1>2 DEF ServerInv, ServeKnown
  <1>. QED  BY <1>1, <1>2, <1>3, ServeInv

LEMMA AwaitTaskInv ==
    ASSUME ServerInv, AwaitTask
    PROVE  ServerInv'
  <1>1. /\ serve.at = "awaiting" /\ serve.next <= Len(lines)
        /\ \/ lines[serve.next].at = "answered" /\ serve' = [serve EXCEPT !.next = @ + 1]
           \/ lines[serve.next].at = "panicked" /\ ServeAt("failed")
        /\ UNCHANGED <<lines, batch, flushes, detached, runs, queue, writes, writer,
                       printed>>
    BY DEF AwaitTask
  <1>2. CASE lines[serve.next].at = "answered" /\ serve' = [serve EXCEPT !.next = @ + 1]
    <2>1. /\ serve' \in ServeRecord /\ serve'.at = "awaiting"
          /\ serve'.next = serve.next + 1 /\ serve'.handles = serve.handles
          /\ serve.next \in Nat /\ DOMAIN lines \in SUBSET Nat
      <3>1. serve \in ServeRecord /\ DOMAIN lines \in SUBSET Nat
        BY RecordTypes DEF ServerInv, ServerTypes
      <3>. QED  BY <1>1, <1>2, <3>1 DEF ServeRecord
    <2>2. \A n \in DOMAIN lines : n < serve.next + 1 => lines[n].at = "answered"
      <3>1. \A n \in Nat, m \in Nat : n < m + 1 => n < m \/ n = m
        OBVIOUS
      <3>. QED  BY <1>2, <2>1, <3>1 DEF ServerInv, ServeKnown
    <2>3. serve.next + 1 \in Nat \ {0}
      BY <2>1
    <2>4. ServeKnown'
      BY <1>1, <2>1, <2>2, <2>3 DEF ServerInv, ServeKnown
    <2>. QED  BY <1>1, <2>1, <2>4, ServeInv
  <1>3. CASE ServeAt("failed")
    BY <1>1, <1>3, ServeFailsInv
  <1>. QED  BY <1>1, <1>2, <1>3

LEMMA TakeLastHandlesInv ==
    ASSUME ServerInv, TakeLastHandles
    PROVE  ServerInv'
  <1>1. /\ serve.at = "awaiting" /\ serve.next > Len(lines)
        /\ serve' = [serve EXCEPT !.at = "draining", !.handles = detached]
        /\ detached' = <<>>
        /\ UNCHANGED <<lines, batch, flushes, runs, queue, writes, writer, printed>>
    BY DEF TakeLastHandles
  <1>2. serve \in ServeRecord /\ detached \in Seq(Nat)
    BY DEF ServerInv, ServerTypes
  <1>3. /\ serve' \in ServeRecord /\ serve'.at = "draining"
        /\ serve'.next = serve.next /\ serve'.handles = detached
    BY <1>1, <1>2 DEF ServeRecord
  <1>4. AllAnswered
    <2>1. PICK l \in Nat : l = Len(lines) /\ DOMAIN lines = 1 .. l
      BY RecordTypes DEF ServerInv
    <2>2. serve.next \in Nat
      BY <1>2 DEF ServeRecord
    <2>3. \A n \in DOMAIN lines : n < serve.next
      BY <1>1, <2>1, <2>2
    <2>. QED  BY <2>3 DEF ServerInv, ServeKnown, AllAnswered
  <1>5. serve.handles = <<>> /\ Members(<<>>) = {}
    BY <1>1 DEF ServerInv, ServeKnown, Members
  <1>6. AllAnswered'
    BY <1>1, <1>4 DEF AllAnswered
  <1>7. ServeKnown'
    <2>. HIDE DEF AllAnswered
    <2>. QED  BY <1>1, <1>3, <1>6 DEF ServerInv, ServeKnown
  <1>. QED  BY <1>1, <1>3, <1>4, <1>5, <1>7, ServeInv

LEMMA AwaitLastHandleInv ==
    ASSUME ServerInv, AwaitLastHandle
    PROVE  ServerInv'
  <1>. DEFINE handles == serve.handles
  <1>1. /\ serve.at = "draining"
        /\ \/ Drained(handles) /\ ServeAt("stopping")
           \/ ServeAt("failed")
           \/ NextDone(handles) /\ serve' = [serve EXCEPT !.handles = Tail(@)]
        /\ UNCHANGED <<lines, batch, flushes, detached, runs, queue, writes, writer,
                       printed>>
    BY DEF AwaitLastHandle
  <1>2. serve \in ServeRecord /\ handles \in Seq(Nat)
    BY DEF ServerInv, ServerTypes, ServeRecord
  <1>3. AllAnswered' <=> AllAnswered
    BY <1>1 DEF AllAnswered
  <1>4. CASE Drained(handles) /\ ServeAt("stopping")
    <2>1. /\ serve' \in ServeRecord /\ serve'.at = "stopping"
          /\ serve'.next = serve.next /\ serve'.handles = <<>> /\ serve.handles = <<>>
      BY <1>4, ServeAtSteps DEF ServerInv, Drained
    <2>2. ServeKnown'
      <3>. HIDE DEF AllAnswered
      <3>. QED  BY <1>1, <1>3, <2>1 DEF ServerInv, ServeKnown
    <2>. QED  BY <1>1, <2>1, <2>2, ServeInv
  <1>5. CASE ServeAt("failed")
    BY <1>1, <1>5, ServeFailsInv
  <1>6. CASE NextDone(handles) /\ serve' = [serve EXCEPT !.handles = Tail(@)]
    <2>1. handles # <<>> /\ JobEnded(Head(handles))
      BY <1>6 DEF NextDone, JobEnded
    <2>2. /\ Members(handles) = Members(Tail(handles)) \cup {Head(handles)}
          /\ Tail(handles) \in Seq(Nat)
      <3>. HIDE DEF handles
      <3>. QED  BY <1>2, <2>1, TailMembers, TailSteps
    <2>3. serve' = [serve EXCEPT !.handles = Tail(handles)]
      BY <1>6
    <2>. HIDE DEF handles
    <2>4. /\ serve' \in ServeRecord /\ serve'.at = "draining"
          /\ serve'.next = serve.next /\ serve'.handles = Tail(handles)
      BY <1>1, <1>2, <2>2, <2>3 DEF ServeRecord
    <2>5. ServeKnown'
      <3>. HIDE DEF AllAnswered
      <3>. QED  BY <1>1, <1>3, <2>4 DEF ServerInv, ServeKnown
    <2>6. \A n \in Members(serve.handles) : JobEnded(n) \/ n \in Members(serve'.handles)
      BY <2>1, <2>2, <2>4 DEF handles
    <2>7. Members(serve'.handles) \subseteq Members(serve.handles)
      BY <2>2, <2>4 DEF handles
    <2>. QED  BY <1>1, <2>4, <2>5, <2>6, <2>7, ServeInv
  <1>. QED  BY <1>1, <1>4, <1>5, <1>6

LEMMA JoinWriterInv ==
    ASSUME ServerInv, JoinWriter
    PROVE  ServerInv'
  <1>1. /\ serve.at = "stopping"
        /\ \/ Sent \subseteq printed /\ ServeAt("ended")
           \/ ServeAt("failed")
        /\ UNCHANGED <<lines, batch, flushes, detached, runs, queue, writes, writer,
                       printed>>
    BY DEF JoinWriter
  <1>2. CASE Sent \subseteq printed /\ ServeAt("ended")
    <2>1. /\ serve' \in ServeRecord /\ serve'.at = "ended"
          /\ serve'.next = serve.next /\ serve'.handles = serve.handles
      BY <1>2, ServeAtSteps DEF ServerInv
    <2>2. printed = DOMAIN lines
      BY <1>1, <1>2 DEF ServerInv, ServeKnown, AllAnswered, Sent
    <2>3. AllAnswered' <=> AllAnswered
      BY <1>1 DEF AllAnswered
    <2>4. ServeKnown'
      <3>. HIDE DEF AllAnswered
      <3>. QED  BY <1>1, <2>1, <2>2, <2>3 DEF ServerInv, ServeKnown
    <2>. QED  BY <1>1, <2>1, <2>4, ServeInv
  <1>3. CASE ServeAt("failed")
    BY <1>1, <1>3, ServeFailsInv
  <1>. QED  BY <1>1, <1>2, <1>3

LEMMA PrintReplyInv ==
    ASSUME ServerInv, NEW n \in DOMAIN lines, PrintReply(n)
    PROVE  ServerInv'
  <1>1. /\ Up /\ n \in Sent
        /\ \/ printed' = printed \cup {n} /\ UNCHANGED writer
           \/ writer' = "dead" /\ UNCHANGED printed
        /\ UNCHANGED <<lines, serve, batch, flushes, detached, runs, queue, writes>>
    BY DEF PrintReply
  <1>2. ServerTypes'
    BY <1>1 DEF ServerInv, ServerTypes
  <1>3. HandlesKnown' /\ JobsKept' /\ BarrierKnows'
    <2>1. /\ \A m : (Job(m)' <=> Job(m)) /\ (JobEnded(m)' <=> JobEnded(m))
          /\ \A m, b : Holds(b, m)' <=> Holds(b, m)
          /\ Barriers' = Barriers
      BY <1>1 DEF Job, JobEnded, JobOf, Holds, Members, Barriers
    <2>2. /\ Members(detached)' = Members(detached)
          /\ Members(serve.handles)' = Members(serve.handles)
          /\ \A b : Members(lines[b].handles)' = Members(lines[b].handles)
      BY <1>1 DEF Members
    <2>3. HandlesKnown'
      BY <1>1, <2>1, <2>2 DEF ServerInv, HandlesKnown
    <2>4. JobsKept'
      BY <1>1, <2>1, <2>2 DEF ServerInv, JobsKept
    <2>5. BarrierKnows'
      BY <1>1, <2>1, <2>2 DEF ServerInv, BarrierKnows
    <2>. QED  BY <2>3, <2>4, <2>5
  <1>4. ServeKnown'
    <2>1. AllAnswered' <=> AllAnswered
      BY <1>1 DEF AllAnswered
    <2>2. \A m \in printed' : m \in DOMAIN lines /\ lines[m].at = "answered"
      BY <1>1 DEF ServerInv, ServeKnown, Sent
    <2>3. serve.at # "ended"
      BY <1>1 DEF Up
    <2>. HIDE DEF AllAnswered
    <2>. QED  BY <1>1, <2>1, <2>2, <2>3 DEF ServerInv, ServeKnown
  <1>. QED  BY <1>1, <1>2, <1>3, <1>4, IdleInv DEF ServerInv

(* A line is received: what was known of the others stays so. *)
LEMMA ReceivedInv ==
    ASSUME ServerInv, NEW l \in LineRecord, lines' = Append(lines, l),
           serve.at = "reading", l.scheduled = Reported, l.handles = <<>>,
           IF IsCall(l.request) THEN l.at = "called" /\ l.answer = "none"
           ELSE l.at = "answered",
           UNCHANGED <<serve, batch, flushes, detached, runs, queue, writes, writer, printed>>
    PROVE  ServerInv'
  <1>0. ServerTypes /\ HeldOnce /\ RunsKnown /\ HandlesKnown /\ ServeKnown
        /\ WritesKnown /\ WritesAreOwned
    BY DEF ServerInv
  <1>1. /\ serve' = serve /\ batch' = batch /\ flushes' = flushes /\ detached' = detached
        /\ runs' = runs /\ queue' = queue /\ writes' = writes /\ writer' = writer
        /\ printed' = printed
    OBVIOUS
  <1>2. PICK n \in Nat : n = Len(lines) + 1
    BY RecordTypes, <1>0
  <1>3. /\ lines' \in Seq(LineRecord) /\ DOMAIN lines' = DOMAIN lines \cup {n}
        /\ n \notin DOMAIN lines /\ lines'[n] = l
        /\ \A i \in DOMAIN lines : lines'[i] = lines[i]
        /\ n \in Nat \ {0}
    <2>1. lines \in Seq(LineRecord)
      BY <1>0 DEF ServerTypes
    <2>2. PICK m \in Nat : m = Len(lines) /\ n = m + 1
      BY <1>2, <2>1
    <2>3. /\ lines' \in Seq(LineRecord) /\ DOMAIN lines' = 1 .. m + 1
          /\ DOMAIN lines = 1 .. m /\ lines'[m + 1] = l
          /\ \A i \in DOMAIN lines : lines'[i] = lines[i]
      BY <2>1, <2>2, AppendSteps
    <2>4. 1 .. m + 1 = 1 .. m \cup {m + 1} /\ m + 1 \notin 1 .. m /\ m + 1 \in Nat \ {0}
      BY <2>2
    <2>. QED  BY <2>2, <2>3, <2>4
  <1>4. /\ l.at = "called" \/ l.at = "answered"
        /\ IsCall(l.request) => l.at = "called" /\ l.answer = "none"
        /\ ~IsCall(l.request) => l.at = "answered"
    OBVIOUS
  <1>5. CallOf(n) \notin DOMAIN runs /\ JobOf(n) \notin DOMAIN runs
    BY <1>0, <1>3 DEF RunsKnown, CallKnown, JobKnown
  <1>6. ServerTypes'
    BY <1>0, <1>1, <1>3 DEF ServerTypes
  <1>7. QueueKnown'
    BY <1>1 DEF ServerInv, QueueKnown, Distinct
  <1>8. /\ \A i : Contribution(i) => Contribution(i)'
        /\ \A i : Contributed(i) => Contributed(i)'
        /\ \A i : Contribution(i)' => Contribution(i) \/ i = n
    BY <1>3 DEF Contribution, Contributed
  <1>9. RunsKnown'
    <2>1. \A i \in DOMAIN lines' : ~IsCall(lines'[i].request) => lines'[i].at = "answered"
      BY <1>0, <1>3, <1>4 DEF RunsKnown
    <2>2. \A i : (CallKnown(i) => CallKnown(i)') /\ (JobKnown(i) => JobKnown(i)')
      BY <1>3 DEF CallKnown, JobKnown
    <2>3. \A i \in DOMAIN lines' :
             /\ lines'[i].at \in {"working", "aborting"} => CallOf(i) \in DOMAIN runs
             /\ lines'[i].at = "scheduling" => JobOf(i) \in DOMAIN runs
      BY <1>0, <1>3, <1>4 DEF RunsKnown
    <2>4. \A m \in DOMAIN flushes : FlushKnown(m)'
      BY <1>0, <1>1 DEF RunsKnown, FlushKnown, FlushOf
    <2>5. \A i : CallOf(i)' = CallOf(i) /\ JobOf(i)' = JobOf(i) /\ FlushOf(i)' = FlushOf(i)
      BY DEF CallOf, JobOf, FlushOf
    <2>. HIDE DEF FlushKnown, CallKnown, JobKnown, CallOf, JobOf, FlushOf
    <2>. QED  BY <1>0, <1>1, <2>1, <2>2, <2>3, <2>4, <2>5 DEF RunsKnown
  <1>10. HeldOnce'
    <2>1. /\ \A m : Held(m)' = Held(m)
          /\ Members(batch)' = Members(batch) /\ (Distinct(batch)' <=> Distinct(batch))
      BY <1>1 DEF Held, Members, Distinct
    <2>2. \A m \in DOMAIN flushes :
             /\ Members(flushes[m].group)' = Members(flushes[m].group)
             /\ Members(flushes[m].pending)' = Members(flushes[m].pending)
             /\ Distinct(flushes[m].pending)' <=> Distinct(flushes[m].pending)
      BY <1>1 DEF Members, Distinct
    <2>. HIDE DEF Held, Contributed, Members, Distinct
    <2>. QED  BY <1>0, <1>1, <1>8, <2>1, <2>2 DEF HeldOnce
  <1>11. GroupsRight'
    <2>1. SUFFICES ASSUME NEW m \in DOMAIN flushes, flushes[m].at = "writing"
                   PROVE  GroupRight(flushes[m].group)'
      BY <1>1 DEF GroupsRight
    <2>2. GroupRight(flushes[m].group) /\ Members(flushes[m].group) \subseteq DOMAIN lines
      BY <1>0, <2>1 DEF ServerInv, GroupsRight, HeldOnce, Held, Contributed, Contribution
    <2>3. PICK group : group = flushes[m].group
      OBVIOUS
    <2>4. \A i \in DOMAIN group : group[i] \in DOMAIN lines
      BY <2>2, <2>3 DEF Members
    <2>5. \A i \in DOMAIN group : Slot(group[i])' = Slot(group[i])
                                  /\ lines'[group[i]] = lines[group[i]]
      BY <1>3, <2>4 DEF Slot
    <2>6. GroupRight(group)'
      BY <2>2, <2>3, <2>5 DEF GroupRight
    <2>. QED  BY <1>1, <2>3, <2>6 DEF GroupRight, Slot
  <1>12. \A w \in writes : \A i \in w.members : i \in DOMAIN lines
    BY <1>0 DEF WritesKnown, WriteKnown, Contribution
  <1>13. WritesAreOwned'
    <2>1. \A w \in writes : \A i \in w.members :
             Slot(i)' = Slot(i) /\ lines'[i] = lines[i]
      BY <1>3, <1>12 DEF Slot
    <2>2. \A w \in writes : {Slot(i)' : i \in w.members} = {Slot(i) : i \in w.members}
      BY <2>1
    <2>. QED  BY <1>0, <1>1, <2>1, <2>2 DEF WritesAreOwned
  <1>14. WritesKnown'
    <2>1. \A w \in writes : WriteKnown(w)'
      <3>. TAKE w \in writes
      <3>1. WriteKnown(w)
        BY <1>0 DEF WritesKnown
      <3>2. \A i \in w.members : lines'[i] = lines[i]
        BY <1>3, <1>12
      <3>3. /\ \A m : Members(flushes[m].group)' = Members(flushes[m].group)
            /\ \A m : Written(m)' <=> Written(m)
        BY <1>1 DEF Members, Written, FlushOf
      <3>. HIDE DEF Members, Written, Contribution
      <3>. QED  BY <1>1, <1>8, <3>1, <3>2, <3>3 DEF WriteKnown
    <2>2. \A m \in DOMAIN flushes : flushes[m].at = "writing" /\ Written(m)' =>
             \E w \in writes : w.members = Members(flushes[m].group)'
      BY <1>0, <1>1 DEF WritesKnown, Written, FlushOf, Members
    <2>3. \A i \in DOMAIN lines' : Contribution(i)' /\ lines'[i].answer = "ok" =>
             \E w \in writes : i \in w.members
      <3>. TAKE i \in DOMAIN lines'
      <3>. HAVE Contribution(i)' /\ lines'[i].answer = "ok"
      <3>1. i # n
        BY <1>3, <1>4 DEF Contribution
      <3>2. Contribution(i) /\ lines[i].answer = "ok" /\ i \in DOMAIN lines
        BY <1>3, <1>8, <3>1
      <3>. QED  BY <1>0, <3>2 DEF WritesKnown
    <2>. HIDE DEF WriteKnown, Written, Contribution
    <2>. QED  BY <1>0, <1>1, <2>1, <2>2, <2>3 DEF WritesKnown
  <1>15. /\ \A i : (Job(i)' <=> Job(i)) /\ (JobEnded(i)' <=> JobEnded(i))
         /\ Members(detached)' = Members(detached)
         /\ Members(serve.handles)' = Members(serve.handles)
    BY <1>1 DEF Job, JobEnded, JobOf, Members
  <1>16. /\ \A b \in DOMAIN lines : Members(lines[b].handles)' = Members(lines[b].handles)
         /\ Members(lines[n].handles)' = {}
    BY <1>3 DEF Members
  <1>17. /\ Barriers \subseteq Barriers' /\ Barriers' \subseteq Barriers \cup {n}
         /\ \A b \in Barriers : \A i : Holds(b, i)' <=> Holds(b, i)
    <2>1. /\ Barriers \subseteq Barriers' /\ Barriers' \subseteq Barriers \cup {n}
          /\ Barriers \subseteq DOMAIN lines
      BY <1>3 DEF Barriers
    <2>. QED  BY <1>3, <1>16, <2>1 DEF Holds
  <1>18. \A i \in Reported : Job(i) /\ i \in DOMAIN lines /\ lines[i].at = "answered"
    BY DEF Reported, Job
  <1>19. HandlesKnown'
    <2>1. \A b \in DOMAIN lines' :
             \A i \in Members(lines[b].handles)' \cup lines'[b].scheduled : i \in Nat /\ Job(i)
      <3>1. DOMAIN lines \in SUBSET Nat
        BY <1>0, RecordTypes
      <3>. QED  BY <1>0, <1>3, <1>16, <1>18, <3>1 DEF HandlesKnown
    <2>2. \A b \in Barriers' :
             /\ lines'[b].answer # "none" => lines'[b].at \in Finished
             /\ lines'[b].at = "draining" \/ lines'[b].answer = "error"
                   \/ lines'[b].handles = <<>>
      <3>1. \A b \in Barriers : b \in DOMAIN lines
        BY DEF Barriers
      <3>2. (l.answer # "none" => l.at \in Finished) /\ l.handles = <<>>
        BY <1>4 DEF Finished
      <3>. QED  BY <1>0, <1>3, <1>17, <3>1, <3>2 DEF HandlesKnown
    <2>. HIDE DEF Job, Members
    <2>. QED  BY <1>0, <1>15, <2>1, <2>2 DEF HandlesKnown
  <1>20. JobsKept'
    <2>1. SUFFICES ASSUME NEW i \in DOMAIN lines', Job(i)
                   PROVE  \/ JobEnded(i) \/ lines'[i].at = "scheduling"
                          \/ i \in Members(detached) \/ i \in Members(serve.handles)
                          \/ serve.at = "failed"
                          \/ \E b \in Barriers' : Holds(b, i)'
      BY <1>1, <1>15 DEF JobsKept
    <2>2. i \in DOMAIN lines
      BY <1>3, <1>5, <2>1 DEF Job
    <2>3. \A b \in Barriers : lines'[b] = lines[b]
      BY <1>3 DEF Barriers
    <2>. QED  BY <1>3, <1>17, <2>1, <2>2, <2>3 DEF ServerInv, JobsKept
  <1>21. BarrierKnows'
    <2>1. SUFFICES ASSUME NEW b \in Barriers', NEW i \in lines'[b].scheduled
                   PROVE  \/ JobEnded(i)
                          \/ lines'[b].at = "called" /\ i \in Members(detached)
                          \/ \E c \in Barriers' : Holds(c, i)'
      BY <1>15 DEF BarrierKnows
    <2>2. CASE b \in Barriers
      <3>1. lines'[b] = lines[b]
        BY <1>3, <2>2 DEF Barriers
      <3>2. \/ JobEnded(i)
            \/ lines[b].at = "called" /\ i \in Members(detached)
            \/ \E c \in Barriers : Holds(c, i)
        BY <2>1, <2>2, <3>1 DEF ServerInv, BarrierKnows
      <3>. QED  BY <1>17, <3>1, <3>2
    <2>3. CASE b \notin Barriers
      <3>1. b = n /\ l.scheduled = Reported
        BY <1>17, <2>1, <2>3
      <3>2. i \in Reported
        BY <1>3, <2>1, <3>1
      <3>3. \/ JobEnded(i) \/ i \in Members(detached) \/ i \in Members(serve.handles)
            \/ \E c \in Barriers : Holds(c, i)
        BY <1>0, <1>18, <3>2 DEF ServerInv, JobsKept
      <3>4. Members(serve.handles) = {}
        BY <1>0 DEF ServeKnown, Members
      <3>5. lines'[b].at = "called"
        BY <1>3, <1>4, <2>1, <3>1 DEF Barriers
      <3>. QED  BY <1>17, <3>3, <3>4, <3>5
    <2>. QED  BY <2>2, <2>3
  <1>22. ServeKnown'
    <2>1. serve.next = 1
      BY <1>0 DEF ServeKnown
    <2>2. \A i \in DOMAIN lines' : ~(i < 1)
      <3>1. DOMAIN lines' = 1 .. Len(lines') /\ Len(lines') \in Nat
        BY <1>3
      <3>. QED  BY <3>1
    <2>3. \A i \in printed : i \in DOMAIN lines' /\ lines'[i].at = "answered"
      BY <1>0, <1>3 DEF ServeKnown
    <2>. QED  BY <1>0, <1>1, <2>1, <2>2, <2>3 DEF ServeKnown
  <1>. QED  BY <1>6, <1>7, <1>9, <1>10, <1>11, <1>13, <1>14, <1>19, <1>20, <1>21, <1>22
            DEF ServerInv

LEMMA ReceiveInv ==
    ASSUME ServerInv, NEW request \in Requests, Receive(request)
    PROVE  ServerInv'
  <1>1. /\ serve.at = "reading"
        /\ UNCHANGED <<batch, flushes, detached, runs, queue, writes, writer, printed>>
        /\ \/ UNCHANGED lines /\ serve' = [serve EXCEPT !.at = "failed"]
           \/ /\ UNCHANGED serve
              /\ \E l \in LineRecord :
                    /\ lines' = Append(lines, l) /\ l.request = request
                    /\ l.scheduled = Reported /\ l.handles = <<>>
                    /\ IF IsCall(request) THEN l.at = "called" /\ l.answer = "none"
                       ELSE l.at = "answered"
    BY ReceiveSteps DEF ServerInv
  <1>2. CASE UNCHANGED lines /\ serve' = [serve EXCEPT !.at = "failed"]
    BY <1>1, <1>2, ServeFailsInv DEF ServeAt
  <1>3. CASE /\ UNCHANGED serve
             /\ \E l \in LineRecord :
                    /\ lines' = Append(lines, l) /\ l.request = request
                    /\ l.scheduled = Reported /\ l.handles = <<>>
                    /\ IF IsCall(request) THEN l.at = "called" /\ l.answer = "none"
                       ELSE l.at = "answered"
    <2>1. PICK l \in LineRecord :
                    /\ lines' = Append(lines, l) /\ l.request = request
                    /\ l.scheduled = Reported /\ l.handles = <<>>
                    /\ IF IsCall(request) THEN l.at = "called" /\ l.answer = "none"
                       ELSE l.at = "answered"
      BY <1>3
    <2>. QED  BY <1>1, <1>3, <2>1, ReceivedInv
  <1>. QED  BY <1>1, <1>2, <1>3

-----------------------------------------------------------------------------
LEMMA InitInv ==
    ASSUME Init
    PROVE  ServerInv
  <1>1. /\ lines = <<>> /\ batch = <<>> /\ flushes = <<>> /\ detached = <<>>
        /\ runs = [k \in {Background} |-> Piece("ready", 1, "ok")]
        /\ queue = <<>> /\ writes = {} /\ writer = "up" /\ printed = {}
    BY DEF Init
  <1>2. PICK t \in PoolSizes :
            serve = [threads |-> t, at |-> "reading", next |-> 1, handles |-> <<>>]
    BY DEF Init
  <1>3. serve \in ServeRecord /\ serve.at = "reading" /\ serve.next = 1
        /\ serve.handles = <<>>
    <2>1. t \in Nat /\ <<>> \in Seq(Nat)
      BY ServerAssumption
    <2>. QED  BY <1>2, <2>1 DEF ServeRecord
  <1>4. ServerTypes
    <2>1. Piece("ready", 1, "ok") \in PieceRecord /\ Background \in Users
      <3>1. Background \in Users
        BY DEF Background, Users
      <3>. QED  BY <3>1, PieceTypes DEF Answers
    <2>2. DOMAIN runs \in SUBSET Users /\ runs \in [DOMAIN runs -> PieceRecord]
      BY <1>1, <2>1
    <2>. QED  BY <1>1, <1>3, <2>2 DEF ServerTypes
  <1>5. Members(<<>>) = {} /\ Distinct(<<>>) /\ DOMAIN <<>> = {}
    BY DEF Members, Distinct
  <1>6. \A n : /\ CallOf(n) \notin DOMAIN runs /\ JobOf(n) \notin DOMAIN runs
               /\ FlushOf(n) \notin DOMAIN runs
    BY <1>1, KeysApart
  <1>7. QueueKnown /\ RunsKnown
    BY <1>1, <1>5, <1>6 DEF QueueKnown, RunsKnown
  <1>8. HeldOnce /\ GroupsRight
    BY <1>1, <1>5 DEF HeldOnce, GroupsRight
  <1>9. WritesAreOwned /\ WritesKnown
    BY <1>1, <1>5 DEF WritesAreOwned, WritesKnown
  <1>10. HandlesKnown /\ JobsKept /\ BarrierKnows
    BY <1>1, <1>3, <1>5 DEF HandlesKnown, JobsKept, BarrierKnows, Barriers
  <1>11. ServeKnown
    BY <1>1, <1>3, <1>5 DEF ServeKnown
  <1>. QED  BY <1>4, <1>7, <1>8, <1>9, <1>10, <1>11 DEF ServerInv

LEMMA StepInv ==
    ASSUME ServerInv, [Next]_vars
    PROVE  ServerInv'
  <1>1. ASSUME NEW request \in Requests, Receive(request)
        PROVE  ServerInv'
    BY <1>1, ReceiveInv
  <1>2. CASE EndOfInput
    BY <1>2, EndOfInputInv
  <1>3. CASE ServeStep
    BY <1>3, AwaitTaskInv, TakeLastHandlesInv, AwaitLastHandleInv, JoinWriterInv
       DEF ServeStep
  <1>4. CASE TakeWork
    BY <1>4, TakeWorkInv
  <1>5. ASSUME NEW n \in DOMAIN lines, TaskStep(n)
        PROVE  ServerInv'
    <2>1. CASE Contribute(n) \/ EndContribution(n)
      BY <2>1, ContributeInv, EndContributionInv
    <2>2. CASE BeginWork(n) \/ Abort(n) \/ EndWork(n)
      BY <2>2, BeginWorkInv, AbortInv, EndWorkInv
    <2>3. CASE Detach(n) \/ PushHandle(n)
      BY <2>3, DetachInv, PushHandleInv
    <2>4. CASE TakeHandles(n) \/ AwaitHandle(n)
      BY <2>4, TakeHandlesInv, AwaitHandleInv
    <2>5. CASE RunChild(n) \/ UnknownTool(n)
      BY <2>5, RunChildInv
    <2>. QED  BY <1>5, <2>1, <2>2, <2>3, <2>4, <2>5 DEF TaskStep
  <1>6. ASSUME NEW n \in DOMAIN lines, PrintReply(n)
        PROVE  ServerInv'
    BY <1>6, PrintReplyInv
  <1>7. ASSUME NEW k \in DOMAIN runs, RunStep(k)
        PROVE  ServerInv'
    BY <1>7, SubmitInv, PerformInv, ReadBackInv DEF RunStep
  <1>8. ASSUME NEW m \in DOMAIN flushes, FlushStep(m)
        PROVE  ServerInv'
    BY <1>8, FlushNextInv, FlushWrittenInv DEF FlushStep
  <1>9. CASE UNCHANGED vars
    <2>1. UNCHANGED <<lines, serve, batch, flushes, detached, runs, queue, writes, writer,
                      printed>>
      BY <1>9 DEF vars
    <2>2. ServeKnown' /\ serve' \in ServeRecord
      BY <2>1 DEF ServerInv, ServeKnown, AllAnswered, ServerTypes
    <2>. QED  BY <2>1, <2>2, ServeInv
  <1>. QED  BY <1>1, <1>2, <1>3, <1>4, <1>5, <1>6, <1>7, <1>8, <1>9 DEF Next

LEMMA Invariance == Spec => []ServerInv
  <1>1. Init => ServerInv
    BY InitInv
  <1>2. ServerInv /\ [Next]_vars => ServerInv'
    BY StepInv
  <1>. QED  BY <1>1, <1>2, PTL DEF Spec

(* Types: where every task, piece of work and flush can be. *)
THEOREM ServerTypeCorrect == Spec => []ServerTypes
  <1>1. ServerInv => ServerTypes
    BY DEF ServerInv
  <1>. QED  BY <1>1, Invariance, PTL

(* flush_batch: a shared write covers the slots of its members and no other, *)
(* and a joined one is owned by all of its members and nobody else, for any  *)
(* number of calls and any cut of the batches into groups.                   *)
THEOREM SharedWritesAreOwned == Spec => []WritesAreOwned
  <1>1. ServerInv => WritesAreOwned
    BY DEF ServerInv
  <1>. QED  BY <1>1, Invariance, PTL

(* batch_io: a call answered with success has contributed to one shared      *)
(* write and one only.                                                       *)
THEOREM ContributionsWrittenOnce == Spec => []ContributedOnce
  <1>1. ServerInv => ContributedOnce
    <2>. SUFFICES ASSUME ServerInv, NEW n \in DOMAIN lines, Contribution(n),
                         lines[n].answer = "ok"
                  PROVE  Cardinality({w \in writes : n \in w.members}) = 1
      BY DEF ContributedOnce, Contribution
    <2>1. PICK v \in writes : n \in v.members
      BY DEF ServerInv, WritesKnown
    <2>2. \A w \in writes : n \in w.members => w = v
      BY <2>1 DEF ServerInv, WritesKnown
    <2>3. {w \in writes : n \in w.members} = {v}
      BY <2>1, <2>2
    <2>. QED  BY <2>3, FS_Singleton
  <1>. QED  BY <1>1, Invariance, PTL

(* barrier: one that succeeds has waited for every job that was reported as  *)
(* scheduled before it was received, but for those another barrier still     *)
(* awaits, or had in its hands when it failed.                               *)
THEOREM BarriersDrain == Spec => []BarrierDrains
  <1>1. ServerInv => BarrierDrains
    <2>. SUFFICES ASSUME ServerInv, NEW b \in Barriers, lines[b].at = "answered",
                         lines[b].answer = "ok", NEW n \in lines[b].scheduled, ~JobEnded(n)
                  PROVE  \E c \in Barriers \ {b} :
                            /\ Holds(c, n)
                            /\ lines[c].at = "draining" \/ lines[c].answer = "error"
      BY DEF BarrierDrains
    <2>1. PICK c \in Barriers : Holds(c, n)
      BY DEF ServerInv, BarrierKnows
    <2>2. lines[c].at = "draining" \/ lines[c].answer = "error"
      BY <2>1 DEF ServerInv, HandlesKnown, Holds, Members
    <2>3. c # b
      BY <2>2
    <2>. QED  BY <2>1, <2>2, <2>3
  <1>. QED  BY <1>1, Invariance, PTL

(* serve: a server that ends without an error has printed every answer, left *)
(* no contribution behind, and let no detached job go on but those that a    *)
(* barrier dropped when another failed.                                      *)
THEOREM AnsweredAtTheEnd == Spec => []EndsAnswered
  <1>1. ServerInv => EndsAnswered
    <2>. SUFFICES ASSUME ServerInv, serve.at = "ended"
                  PROVE  /\ printed = DOMAIN lines
                         /\ batch = <<>>
                         /\ \A n \in DOMAIN lines : JobOf(n) \in DOMAIN runs =>
                               \/ JobEnded(n)
                               \/ \E b \in Barriers :
                                     lines[b].answer = "error" /\ Holds(b, n)
      BY DEF EndsAnswered
    <2>1. /\ printed = DOMAIN lines /\ AllAnswered /\ detached = <<>>
          /\ serve.handles = <<>>
      BY DEF ServerInv, ServeKnown
    <2>2. Members(batch) = {}
      BY <2>1 DEF ServerInv, HeldOnce, Contributed, Contribution, AllAnswered
    <2>3. batch = <<>>
      <3>1. batch \in Seq(Nat)
        BY DEF ServerInv, ServerTypes
      <3>2. DOMAIN batch = {}
        BY <2>2 DEF Members
      <3>. QED  BY <3>1, <3>2
    <2>4. ASSUME NEW n \in DOMAIN lines, JobOf(n) \in DOMAIN runs
          PROVE  JobEnded(n) \/ \E b \in Barriers : lines[b].answer = "error" /\ Holds(b, n)
      <3>1. Members(detached) = {} /\ Members(serve.handles) = {}
        BY <2>1 DEF Members
      <3>2. lines[n].at # "scheduling" /\ \A b \in Barriers : lines[b].at = "answered"
        BY <2>1 DEF AllAnswered, Barriers
      <3>3. JobEnded(n) \/ \E b \in Barriers : Holds(b, n)
        BY <2>4, <3>1, <3>2 DEF ServerInv, JobsKept, Job
      <3>4. \A b \in Barriers : Holds(b, n) => lines[b].answer = "error"
        BY <3>2 DEF ServerInv, HandlesKnown, Holds, Members
      <3>. QED  BY <3>3, <3>4
    <2>. QED  BY <2>1, <2>3, <2>4
  <1>. QED  BY <1>1, Invariance, PTL
=============================================================================
