------------------------ MODULE ContextRegistryProofs ------------------------
(***************************************************************************)
(* Proofs about ContextRegistry, for any number of sessions, any set of    *)
(* request ids and any largest tag.                                        *)
(***************************************************************************)
EXTENDS ContextAlgebra, ContextRegistry, SequenceTheorems, WellFoundedInduction, TLAPS

Row == [kind : {"request", "join", "garbage"}, context : 0 .. MaxTag,
        rpc : RpcIds \cup {NoRpc}, parents : SUBSET Tags]

(* A line that lacks its newline exists: the premise under which the         *)
(* continuation of a line is well defined.                                   *)
OpenLine == \A r \in Registries : terminated[r] \/ lines[r] # <<>>

TypeInv == TypeOK /\ OpenLine

-----------------------------------------------------------------------------
(* Appending text to a well-typed file keeps it one, and not empty. *)
LEMMA AppendedType ==
    ASSUME TypeInv, NEW r \in Registries, NEW text \in Row
    PROVE  Appended(r, text) \in Seq(Row) /\ Appended(r, text) # <<>>
<1>1. lines[r] \in Seq(Row)
  BY DEF TypeInv, TypeOK, Row
<1>2. Garbage \in Row
  BY RegistryAssumption DEF Garbage, Row
<1>3. CASE terminated[r]
  BY <1>1, <1>3, AppendProperties DEF Appended
<1>4. CASE ~terminated[r]
  <2>1. lines[r] # <<>>
    BY <1>4 DEF TypeInv, OpenLine
  <2>2. Len(lines[r]) \in 1 .. Len(lines[r])
    BY <1>1, <2>1, EmptySeq, LenProperties
  <2>3. [lines[r] EXCEPT ![Len(lines[r])] = Garbage] \in Seq(Row)
    BY <1>1, <1>2, <2>2, ExceptSeq
  <2>4. [lines[r] EXCEPT ![Len(lines[r])] = Garbage] # <<>>
    BY <1>1, <2>2, ExceptSeq
  <2> QED BY <1>4, <2>3, <2>4 DEF Appended
<1> QED BY <1>3, <1>4

(* The file part of any step that writes row: a whole line, a part of it, or *)
(* nothing.  Every action is an instance of it or leaves the file alone.     *)
FileStep(r, row) ==
    \/ UNCHANGED <<lines, terminated>>
    \/ \E text \in {row, Garbage}, ended \in BOOLEAN :
          /\ ended => text = row
          /\ lines' = [lines EXCEPT ![r] = Appended(r, text)]
          /\ terminated' = [terminated EXCEPT ![r] = ended]

(* What Issue does, as one formula: the counter moves, the file takes a      *)
(* FileStep, and a context is handed out only with its whole line.           *)
LEMMA IssueStep ==
    ASSUME NEW r \in Registries, NEW row, NEW roots, Issue(r, row, roots)
    PROVE  /\ next[r] < MaxTag
           /\ next' = [next EXCEPT ![r] = next[r] + 1]
           /\ FileStep(r, row)
           /\ \/ issued' = issued
              \/ /\ issued' = issued \cup
                        {[namespace |-> r, tag |-> next[r], roots |-> roots]}
                 /\ lines' = [lines EXCEPT ![r] = Appended(r, row)]
                 /\ terminated' = [terminated EXCEPT ![r] = TRUE]
BY DEF Issue, WriteRow, WriteFails, FileStep

(* A FileStep keeps the files well typed. *)
LEMMA FileStepType ==
    ASSUME TypeInv, NEW r \in Registries, NEW row \in Row, FileStep(r, row)
    PROVE  /\ lines' \in [Registries -> Seq(Row)]
           /\ terminated' \in [Registries -> BOOLEAN]
           /\ OpenLine'
<1> USE DEF TypeInv, TypeOK, Row
<1>1. Garbage \in Row
  BY RegistryAssumption DEF Garbage
<1>2. CASE UNCHANGED <<lines, terminated>>
  BY <1>2 DEF OpenLine
<1>3. ASSUME NEW text \in {row, Garbage}, NEW ended \in BOOLEAN,
             lines' = [lines EXCEPT ![r] = Appended(r, text)],
             terminated' = [terminated EXCEPT ![r] = ended]
      PROVE  /\ lines' \in [Registries -> Seq(Row)]
             /\ terminated' \in [Registries -> BOOLEAN]
             /\ OpenLine'
  <2>1. Appended(r, text) \in Seq(Row) /\ Appended(r, text) # <<>>
    BY <1>1, AppendedType
  <2> QED BY <1>3, <2>1 DEF OpenLine
<1> QED BY <1>2, <1>3 DEF FileStep

(* Type correctness, with the fact that an unfinished line exists. *)
LEMMA InitType == Init => TypeInv
<1>1. \A T : <<>> \in Seq(T)
  OBVIOUS
<1> QED BY <1>1, RegistryAssumption DEF Init, TypeInv, TypeOK, OpenLine, Tags

(* Every call keeps the types, whether its write fails or not. *)
LEMMA StepType == TypeInv /\ [Next]_vars => TypeInv'
<1> SUFFICES ASSUME TypeInv, [Next]_vars PROVE TypeInv'
  OBVIOUS
<1> USE RegistryAssumption
<1>1. ASSUME NEW r \in Registries, NEW id \in RpcIds, Request(r, id)
      PROVE  TypeInv'
  <2>1. requestIds' \in [Registries -> SUBSET RpcIds]
    BY <1>1 DEF Request, TypeInv, TypeOK
  <2>2. CASE Issue(r, RequestRow(next[r], id), {next[r]})
    <3>1. RequestRow(next[r], id) \in Row /\ {next[r]} \subseteq Tags
      BY DEF RequestRow, Row, TypeInv, TypeOK, Tags
    <3>2. /\ lines' \in [Registries -> Seq(Row)]
          /\ terminated' \in [Registries -> BOOLEAN]
          /\ OpenLine'
      BY <2>2, <3>1, IssueStep, FileStepType
    <3>3. /\ next[r] < MaxTag
          /\ next' = [next EXCEPT ![r] = next[r] + 1]
          /\ issued' \subseteq issued \cup
                {[namespace |-> r, tag |-> next[r], roots |-> {next[r]}]}
      BY <2>2, IssueStep
    <3>4. next' \in [Registries -> Tags] /\ issued' \subseteq Context
      BY <3>1, <3>3 DEF TypeInv, TypeOK, Tags, Context
    <3> QED BY <2>1, <3>2, <3>4 DEF TypeInv, TypeOK, Row
  <2>3. CASE UNCHANGED <<next, lines, terminated, issued>>
    BY <2>1, <2>3 DEF TypeInv, TypeOK, OpenLine
  <2> QED BY <1>1, <2>2, <2>3 DEF Request
<1>2. ASSUME NEW r \in Registries, NEW parents \in SUBSET issued,
             Join(r, parents)
      PROVE  TypeInv'
  <2>1. RootsOf(parents) \subseteq Tags
    BY DEF RootsOf, TypeInv, TypeOK, Context
  <2>2. JoinRow(next[r], RootsOf(parents)) \in Row
    BY <2>1 DEF JoinRow, Row, TypeInv, TypeOK, Tags
  <2>3. /\ lines' \in [Registries -> Seq(Row)]
        /\ terminated' \in [Registries -> BOOLEAN]
        /\ OpenLine'
    BY <1>2, <2>2, IssueStep, FileStepType DEF Join
  <2>4. next' \in [Registries -> Tags] /\ issued' \subseteq Context
    BY <1>2, <2>1, IssueStep DEF Join, TypeInv, TypeOK, Tags, Context
  <2> QED BY <1>2, <2>3, <2>4 DEF Join, TypeInv, TypeOK, Row
<1>3. CASE UNCHANGED vars
  BY <1>3 DEF vars, TypeInv, TypeOK, OpenLine
<1> QED BY <1>1, <1>2, <1>3 DEF Next

(* The registry's state stays well typed: tags stay below u64::MAX, and only *)
(* rows and contexts over such tags are written or handed out.               *)
THEOREM TypeCorrect == Spec => []TypeOK
<1>1. TypeInv => TypeOK
  BY DEF TypeInv
<1> QED BY InitType, StepType, <1>1, PTL DEF Spec

-----------------------------------------------------------------------------
(* The rows of a readable file carry increasing tags below the counter n,    *)
(* and a join names only rows written before it.                             *)
SoundRow(ls, n, i) ==
    /\ ls[i].kind \in {"request", "join"}
    /\ ls[i].context \in 1 .. n - 1
    /\ \A j \in 1 .. i - 1 : ls[j].context < ls[i].context
    /\ ls[i].kind = "join" =>
          /\ ls[i].parents # {}
          /\ \A p \in ls[i].parents : \E j \in 1 .. i - 1 : ls[j].context = p

SoundLines(ls, n) == \A i \in 1 .. Len(ls) : SoundRow(ls, n, i)

(* The roots of a context in a caller's hands are rows of its file: what     *)
(* makes the next join row of a readable file sound.                         *)
Rooted(ls, roots) ==
    /\ roots # {}
    /\ \A p \in roots : \E j \in 1 .. Len(ls) : ls[j].context = p

FileInv == \A r \in Registries : Readable(r) =>
    /\ SoundLines(lines[r], next[r])
    /\ \A c \in issued : c.namespace = r => Rooted(lines[r], c.roots)

RegistryInv == TypeInv /\ FileInv

(* Appending a sound row to sound lines, with the counter one further. *)
LEMMA SoundAppend ==
    ASSUME NEW ls \in Seq(Row), NEW n \in Nat \ {0}, NEW row \in Row,
           SoundLines(ls, n), row.kind \in {"request", "join"},
           row.context = n,
           row.kind = "join" => Rooted(ls, row.parents)
    PROVE  SoundLines(Append(ls, row), n + 1)
<1> DEFINE new == Append(ls, row)
<1>1. /\ Len(ls) \in Nat /\ Len(new) = Len(ls) + 1
      /\ \A i \in 1 .. Len(ls) : new[i] = ls[i]
      /\ new[Len(ls) + 1] = row
  BY AppendProperties, LenProperties
<1> HIDE DEF new
<1>2. ASSUME NEW i \in 1 .. Len(ls) PROVE SoundRow(new, n + 1, i)
  <2>1. SoundRow(ls, n, i)
    BY DEF SoundLines
  <2>2. \A j \in 1 .. i : new[j] = ls[j]
    BY <1>1
  <2>3. new[i].context \in 1 .. (n + 1) - 1
    BY <2>1, <2>2 DEF SoundRow
  <2>4. \A j \in 1 .. i - 1 : new[j].context < new[i].context
    BY <2>1, <2>2 DEF SoundRow
  <2>5. new[i].kind = "join" =>
          /\ new[i].parents # {}
          /\ \A p \in new[i].parents : \E j \in 1 .. i - 1 : new[j].context = p
    BY <2>1, <2>2 DEF SoundRow
  <2> QED BY <2>1, <2>2, <2>3, <2>4, <2>5 DEF SoundRow
<1>3. SoundRow(new, n + 1, Len(ls) + 1)
  <2>1. \A j \in 1 .. Len(ls) : ls[j].context \in 1 .. n - 1
    BY DEF SoundLines, SoundRow
  <2>2. \A j \in 1 .. Len(ls) : new[j].context < row.context
    BY <1>1, <2>1
  <2>3. row.kind = "join" =>
          /\ row.parents # {}
          /\ \A p \in row.parents : \E j \in 1 .. Len(ls) : new[j].context = p
    BY <1>1 DEF Rooted
  <2>4. (Len(ls) + 1) - 1 = Len(ls) /\ (n + 1) - 1 = n
    BY <1>1
  <2>5. row.context \in 1 .. n
    OBVIOUS
  <2> QED BY <1>1, <2>2, <2>3, <2>4, <2>5 DEF SoundRow
<1>4. \A i \in 1 .. Len(new) : i \in 1 .. Len(ls) \/ i = Len(ls) + 1
  BY <1>1
<1> QED BY <1>2, <1>3, <1>4 DEF SoundLines, new

(* Sound lines stay sound when the counter moves on without a row. *)
LEMMA SoundSkip ==
    ASSUME NEW ls, NEW n \in Nat, SoundLines(ls, n) PROVE SoundLines(ls, n + 1)
BY DEF SoundLines, SoundRow

(* What is rooted stays rooted when a row is added, and a request row roots  *)
(* its own tag.                                                              *)
LEMMA RootedAppend ==
    ASSUME NEW ls \in Seq(Row), NEW row \in Row, NEW roots,
           Rooted(ls, roots) \/ roots = {row.context}
    PROVE  Rooted(Append(ls, row), roots)
<1>1. /\ Len(ls) \in Nat /\ Len(Append(ls, row)) = Len(ls) + 1
      /\ \A i \in 1 .. Len(ls) : Append(ls, row)[i] = ls[i]
      /\ Append(ls, row)[Len(ls) + 1] = row
  BY AppendProperties, LenProperties
<1>2. CASE Rooted(ls, roots)
  BY <1>1, <1>2 DEF Rooted
<1>3. CASE roots = {row.context}
  <2>1. Len(ls) + 1 \in 1 .. Len(Append(ls, row))
    BY <1>1
  <2> QED BY <1>1, <1>3, <2>1 DEF Rooted
<1> QED BY <1>2, <1>3

(* A write either makes the file unreadable, or leaves it as it was, or adds *)
(* exactly the row; and an unreadable file never becomes readable again.     *)
LEMMA FileStepCases ==
    ASSUME TypeInv, NEW r \in Registries, NEW row \in Row,
           FileStep(r, row), Readable(r)'
    PROVE  /\ Readable(r)
           /\ lines'[r] \in {lines[r], Append(lines[r], row)}
<1> USE DEF TypeInv, TypeOK, Row
<1>1. lines[r] \in Seq(Row)
  OBVIOUS
<1>2. CASE UNCHANGED <<lines, terminated>>
  BY <1>2 DEF Readable
<1>3. ASSUME NEW text \in {row, Garbage}, NEW ended \in BOOLEAN,
             lines' = [lines EXCEPT ![r] = Appended(r, text)]
      PROVE  /\ Readable(r)
             /\ lines'[r] \in {lines[r], Append(lines[r], row)}
  <2>1. lines'[r] = Appended(r, text)
    BY <1>3
  <2>2. text \in Row
    BY RegistryAssumption DEF Garbage
  <2>3. CASE terminated[r]
    <3>1. lines'[r] = Append(lines[r], text)
      BY <2>1, <2>3 DEF Appended
    <3>2. /\ Len(lines'[r]) = Len(lines[r]) + 1
          /\ \A i \in 1 .. Len(lines[r]) : lines'[r][i] = lines[r][i]
          /\ lines'[r][Len(lines[r]) + 1] = text
          /\ lines'[r] \in Seq(Row)
      BY <1>1, <2>2, <3>1, AppendProperties
    <3>3. /\ DOMAIN lines[r] = 1 .. Len(lines[r])
          /\ DOMAIN lines'[r] = 1 .. Len(lines[r]) + 1
          /\ Len(lines[r]) \in Nat
      BY <1>1, <3>2, LenProperties
    <3>4. text # Garbage
      <4>1. Len(lines[r]) + 1 \in DOMAIN lines'[r]
        BY <3>3
      <4>2. lines'[r][Len(lines[r]) + 1].kind # "garbage"
        BY <4>1 DEF Readable
      <4> QED BY <3>2, <4>2 DEF Garbage
    <3>5. Readable(r)
      BY <3>2, <3>3 DEF Readable
    <3> QED BY <3>1, <3>4, <3>5
  <2>4. CASE ~terminated[r]
    <3>1. Len(lines[r]) \in 1 .. Len(lines[r])
      BY <1>1, <2>4, EmptySeq, LenProperties DEF OpenLine
    <3>2. lines'[r] = [lines[r] EXCEPT ![Len(lines[r])] = Garbage]
      BY <2>1, <2>4 DEF Appended
    <3>3. /\ Len(lines[r]) \in DOMAIN lines'[r]
          /\ lines'[r][Len(lines[r])] = Garbage
      BY <1>1, <3>1, <3>2, LenProperties
    <3>4. Garbage.kind = "garbage"
      BY DEF Garbage
    <3> QED BY <3>3, <3>4 DEF Readable
  <2> QED BY <2>3, <2>4
<1> QED BY <1>2, <1>3 DEF FileStep

(* A call that takes a tag of r, with the row of a request or of a join over *)
(* rooted parents, keeps r's file sound and what was handed out rooted.      *)
LEMMA IssueSound ==
    ASSUME RegistryInv, NEW r \in Registries, NEW row \in Row, NEW roots,
           Issue(r, row, roots), Readable(r)',
           row.kind \in {"request", "join"}, row.context = next[r],
           Readable(r) => \/ row.kind = "request" /\ roots = {next[r]}
                          \/ /\ row.kind = "join" /\ row.parents = roots
                             /\ Rooted(lines[r], roots)
    PROVE  /\ SoundLines(lines'[r], next'[r])
           /\ \A c \in issued' : c.namespace = r => Rooted(lines'[r], c.roots)
<1>1. /\ TypeInv /\ FileInv
      /\ lines[r] \in Seq(Row) /\ next[r] \in Nat \ {0}
      /\ lines \in [Registries -> Seq(Row)] /\ next \in [Registries -> Tags]
  <2>1. /\ TypeInv /\ FileInv
        /\ lines \in [Registries -> Seq(Row)] /\ next \in [Registries -> Tags]
    BY DEF RegistryInv, TypeInv, TypeOK, Row
  <2> QED BY <2>1, RegistryAssumption DEF Tags
<1>2. /\ next' = [next EXCEPT ![r] = next[r] + 1]
      /\ FileStep(r, row)
      /\ \/ issued' = issued
         \/ /\ issued' = issued \cup
                   {[namespace |-> r, tag |-> next[r], roots |-> roots]}
            /\ lines' = [lines EXCEPT ![r] = Appended(r, row)]
  BY IssueStep
<1>3. /\ Readable(r)
      /\ lines'[r] \in {lines[r], Append(lines[r], row)}
  BY <1>1, <1>2, FileStepCases
<1>4. /\ SoundLines(lines[r], next[r])
      /\ \A c \in issued : c.namespace = r => Rooted(lines[r], c.roots)
      /\ next'[r] = next[r] + 1
      /\ row.kind = "join" => Rooted(lines[r], row.parents)
  BY <1>1, <1>2, <1>3 DEF FileInv
<1>5. SoundLines(lines'[r], next'[r])
  <2>1. CASE lines'[r] = lines[r]
    BY <1>1, <1>4, <2>1, SoundSkip
  <2>2. CASE lines'[r] = Append(lines[r], row)
    BY <1>1, <1>4, <2>2, SoundAppend
  <2> QED BY <1>3, <2>1, <2>2
<1>6. ASSUME NEW c \in issued', c.namespace = r
      PROVE  Rooted(lines'[r], c.roots)
  <2>1. CASE c \in issued
    BY <1>1, <1>3, <1>4, <1>6, <2>1, RootedAppend
  <2>2. CASE c \notin issued
    <3>1. /\ c.roots = roots
          /\ lines'[r] = Appended(r, row)
      BY <1>1, <1>2, <2>2
    <3>2. Rooted(lines[r], roots) \/ roots = {row.context}
      BY <1>3
    <3>3. CASE terminated[r]
      BY <1>1, <3>1, <3>2, <3>3, RootedAppend DEF Appended
    <3>4. CASE ~terminated[r]
      <4>1. Len(lines[r]) \in 1 .. Len(lines[r])
        BY <1>1, <3>4, EmptySeq, LenProperties DEF TypeInv, OpenLine
      <4>2. Len(lines[r]) \in DOMAIN lines'[r] /\ lines'[r][Len(lines[r])] = Garbage
        BY <1>1, <3>1, <3>4, <4>1, LenProperties DEF Appended
      <4> QED BY <4>2 DEF Readable, Garbage
    <3> QED BY <3>3, <3>4
  <2> QED BY <2>1, <2>2
<1> QED BY <1>5, <1>6

(* The sessions a step does not touch. *)
LEMMA OtherSessions ==
    ASSUME RegistryInv, NEW r \in Registries, NEW row \in Row, NEW roots,
           Issue(r, row, roots), NEW q \in Registries \ {r}, Readable(q)'
    PROVE  /\ SoundLines(lines'[q], next'[q])
           /\ \A c \in issued' : c.namespace = q => Rooted(lines'[q], c.roots)
<1>1. /\ lines \in [Registries -> Seq(Row)] /\ next \in [Registries -> Tags]
      /\ FileInv
  BY DEF RegistryInv, TypeInv, TypeOK, Row
<1>2. /\ next' = [next EXCEPT ![r] = next[r] + 1]
      /\ FileStep(r, row)
      /\ issued' \subseteq issued \cup
                   {[namespace |-> r, tag |-> next[r], roots |-> roots]}
  BY IssueStep
<1>3. lines'[q] = lines[q] /\ next'[q] = next[q]
  BY <1>1, <1>2 DEF FileStep
<1>4. Readable(q)
  BY <1>3 DEF Readable
<1>5. \A c \in issued' : c.namespace = q => c \in issued
  BY <1>2
<1> QED BY <1>1, <1>3, <1>4, <1>5 DEF FileInv

(* Every call keeps all files sound. *)
LEMMA StepFile == RegistryInv /\ [Next]_vars => FileInv'
<1> SUFFICES ASSUME RegistryInv, [Next]_vars PROVE FileInv'
  OBVIOUS
<1>1. /\ TypeInv /\ FileInv /\ issued \subseteq Context
      /\ \A r \in Registries : next[r] \in 1 .. MaxTag
  BY DEF RegistryInv, TypeInv, TypeOK, Tags
<1>2. ASSUME NEW r \in Registries, NEW row \in Row, NEW roots,
             Issue(r, row, roots),
             row.kind \in {"request", "join"}, row.context = next[r],
             Readable(r) => \/ row.kind = "request" /\ roots = {next[r]}
                            \/ /\ row.kind = "join" /\ row.parents = roots
                               /\ Rooted(lines[r], roots)
      PROVE  FileInv'
  BY <1>2, IssueSound, OtherSessions DEF FileInv
<1>3. ASSUME NEW r \in Registries, NEW id \in RpcIds, Request(r, id)
      PROVE  FileInv'
  <2>1. CASE Issue(r, RequestRow(next[r], id), {next[r]})
    <3>1. RequestRow(next[r], id) \in Row
      BY <1>1, RegistryAssumption DEF RequestRow, Row
    <3>2. /\ RequestRow(next[r], id).kind = "request"
          /\ RequestRow(next[r], id).context = next[r]
      BY DEF RequestRow
    <3> QED BY <1>2, <2>1, <3>1, <3>2
  <2>2. CASE UNCHANGED <<next, lines, terminated, issued>>
    BY <1>1, <2>2 DEF FileInv, Readable
  <2> QED BY <1>3, <2>1, <2>2 DEF Request
<1>4. ASSUME NEW r \in Registries, NEW parents \in SUBSET issued,
             Join(r, parents)
      PROVE  FileInv'
  <2> DEFINE roots == RootsOf(parents)
  <2>1. roots \subseteq Tags
    BY <1>1 DEF RootsOf, Context
  <2>2. JoinRow(next[r], roots) \in Row
    BY <1>1, <2>1, RegistryAssumption DEF JoinRow, Row, Tags
  <2>3. /\ JoinRow(next[r], roots).kind = "join"
        /\ JoinRow(next[r], roots).context = next[r]
        /\ JoinRow(next[r], roots).parents = roots
    BY DEF JoinRow
  <2>4. Readable(r) => Rooted(lines[r], roots)
    <3>1. SUFFICES ASSUME Readable(r) PROVE Rooted(lines[r], roots)
      OBVIOUS
    <3>2. \A c \in parents : Rooted(lines[r], c.roots)
      BY <1>1, <1>4, <3>1 DEF Join, FileInv
    <3>3. parents # {}
      BY <1>4 DEF Join
    <3> QED BY <3>2, <3>3 DEF Rooted, RootsOf
  <2> HIDE DEF roots
  <2>5. Issue(r, JoinRow(next[r], roots), roots)
    BY <1>4 DEF Join, roots
  <2> QED BY <1>2, <2>2, <2>3, <2>4, <2>5
<1>5. CASE UNCHANGED vars
  BY <1>1, <1>5 DEF vars, FileInv, Readable
<1> QED BY <1>3, <1>4, <1>5 DEF Next

(* Whatever writes failed, and whatever was joined, a request-map.jsonl that *)
(* has no torn line is one the attributor's loader accepts.                  *)
THEOREM ReadableFilesLoad == Spec => []ReadableIsLoadable
<1>1. Init => RegistryInv
  <2>1. Init => \A r \in Registries : Len(lines[r]) = 0 /\ issued = {}
    BY EmptySeq DEF Init
  <2>2. Init => FileInv
    BY <2>1 DEF FileInv, SoundLines
  <2> QED BY <2>2, InitType DEF RegistryInv
<1>2. RegistryInv /\ [Next]_vars => RegistryInv'
  BY StepType, StepFile DEF RegistryInv
<1>3. RegistryInv => ReadableIsLoadable
  <2> SUFFICES ASSUME RegistryInv, NEW r \in Registries, Readable(r),
                      NEW i \in DOMAIN lines[r]
               PROVE  Accepts(lines[r], i)
    BY DEF ReadableIsLoadable, Loadable
  <2>1. lines[r] \in Seq(Row) /\ SoundLines(lines[r], next[r])
        /\ next[r] \in Tags
    BY DEF RegistryInv, TypeInv, TypeOK, Row, FileInv
  <2>2. SoundRow(lines[r], next[r], i)
    BY <2>1, LenProperties DEF SoundLines
  <2>3. i \in Nat /\ lines[r][i].context \in Nat \ {0}
    BY <2>1, <2>2, LenProperties DEF SoundRow
  <2>4. \A j \in 1 .. i - 1 : lines[r][j].context < lines[r][i].context
    BY <2>2 DEF SoundRow
  <2>5. lines[r][i].context \notin ContextsBefore(lines[r], i)
    BY <2>3, <2>4 DEF ContextsBefore
  <2>6. lines[r][i].kind = "join" =>
            /\ lines[r][i].parents # {}
            /\ lines[r][i].parents \subseteq ContextsBefore(lines[r], i)
    BY <2>2 DEF SoundRow, ContextsBefore
  <2> QED BY <2>2, <2>3, <2>5, <2>6 DEF SoundRow, Accepts
<1> QED BY <1>1, <1>2, <1>3, PTL DEF Spec

-----------------------------------------------------------------------------
(* Every request row names an id the registry remembers. *)
Remembered == \A r \in Registries : \A i \in DOMAIN lines[r] :
    lines[r][i].kind = "request" => lines[r][i].rpc \in requestIds[r]

IdInv == TypeInv /\ Remembered /\ OneRowPerId

(* A line of a file after text is appended: as before, garbage, or the text  *)
(* on a line of its own.                                                     *)
LEMMA AppendedLines ==
    ASSUME TypeInv, NEW r \in Registries, NEW text \in Row,
           NEW i \in DOMAIN Appended(r, text)
    PROVE  \/ i \in DOMAIN lines[r] /\ Appended(r, text)[i] = lines[r][i]
           \/ Appended(r, text)[i] = Garbage
           \/ i = Len(lines[r]) + 1 /\ Appended(r, text)[i] = text
<1>1. lines[r] \in Seq(Row)
  BY DEF TypeInv, TypeOK, Row
<1>2. CASE terminated[r]
  BY <1>1, <1>2, AppendProperties, LenProperties DEF Appended
<1>3. CASE ~terminated[r]
  BY <1>1, <1>3, LenProperties DEF Appended
<1> QED BY <1>2, <1>3

(* A file changed by row keeps its ids apart if row names none of them. *)
LEMMA IdsApart ==
    ASSUME IdInv, NEW r \in Registries, NEW row \in Row, FileStep(r, row),
           row.kind = "request" => row.rpc \notin requestIds[r],
           \A q \in Registries : requestIds[q] \subseteq requestIds'[q],
           row.kind = "request" => row.rpc \in requestIds'[r]
    PROVE  Remembered' /\ OneRowPerId'
<1>1. TypeInv /\ Remembered /\ OneRowPerId /\ Garbage \in Row
      /\ Garbage.kind # "request"
  BY RegistryAssumption DEF IdInv, Garbage, Row
<1>2. CASE UNCHANGED <<lines, terminated>>
  BY <1>1, <1>2 DEF Remembered, OneRowPerId
<1>3. ASSUME NEW text \in {row, Garbage},
             lines' = [lines EXCEPT ![r] = Appended(r, text)]
      PROVE  Remembered' /\ OneRowPerId'
  <2>1. /\ lines'[r] = Appended(r, text)
        /\ \A q \in Registries \ {r} : lines'[q] = lines[q]
        /\ text \in Row
    BY <1>1, <1>3 DEF TypeInv, TypeOK
  <2>2. ASSUME NEW i \in DOMAIN lines'[r], lines'[r][i].kind = "request"
        PROVE  \/ i \in DOMAIN lines[r] /\ lines'[r][i] = lines[r][i]
               \/ i = Len(lines[r]) + 1 /\ lines'[r][i] = row
    BY <1>1, <2>1, <2>2, AppendedLines
  <2>3. Remembered'
    <3> SUFFICES ASSUME NEW q \in Registries, NEW i \in DOMAIN lines'[q],
                        lines'[q][i].kind = "request"
                 PROVE  lines'[q][i].rpc \in requestIds'[q]
      BY DEF Remembered
    <3>1. CASE q = r
      BY <1>1, <2>2, <3>1 DEF Remembered
    <3>2. CASE q # r
      BY <1>1, <2>1, <3>2 DEF Remembered
    <3> QED BY <3>1, <3>2
  <2>4. OneRowPerId'
    <3> SUFFICES ASSUME NEW q \in Registries,
                        NEW i \in DOMAIN lines'[q], NEW j \in DOMAIN lines'[q],
                        lines'[q][i].kind = "request", lines'[q][j].kind = "request",
                        lines'[q][i].rpc = lines'[q][j].rpc
                 PROVE  i = j
      BY DEF OneRowPerId
    <3>1. CASE q # r
      BY <1>1, <2>1, <3>1 DEF OneRowPerId
    <3>2. CASE q = r
      <4>1. CASE i \in DOMAIN lines[r] /\ lines'[r][i] = lines[r][i]
        <5>1. lines[r][i].rpc \in requestIds[r]
          BY <1>1, <3>2, <4>1 DEF Remembered
        <5> QED BY <1>1, <2>2, <3>2, <4>1, <5>1 DEF OneRowPerId
      <4>2. CASE i = Len(lines[r]) + 1 /\ lines'[r][i] = row
        <5>1. row.rpc \notin requestIds[r]
          BY <3>2, <4>2
        <5>2. ~(j \in DOMAIN lines[r] /\ lines'[r][j] = lines[r][j])
          BY <1>1, <3>2, <4>2, <5>1 DEF Remembered
        <5> QED BY <2>2, <3>2, <4>2, <5>2
      <4> QED BY <2>2, <3>2, <4>1, <4>2
    <3> QED BY <3>1, <3>2
  <2> QED BY <2>3, <2>4
<1> QED BY <1>2, <1>3 DEF FileStep

(* Every call keeps ids apart: request refuses an id it remembers, and join  *)
(* writes none.                                                              *)
LEMMA StepIds == IdInv /\ [Next]_vars => Remembered' /\ OneRowPerId'
<1> SUFFICES ASSUME IdInv, [Next]_vars PROVE Remembered' /\ OneRowPerId'
  OBVIOUS
<1>1. TypeInv /\ Remembered /\ OneRowPerId
  BY DEF IdInv
<1>2. ASSUME NEW r \in Registries, NEW id \in RpcIds, Request(r, id)
      PROVE  Remembered' /\ OneRowPerId'
  <2>1. /\ requestIds'[r] = requestIds[r] \cup {id} /\ id \notin requestIds[r]
        /\ \A q \in Registries : requestIds[q] \subseteq requestIds'[q]
    BY <1>1, <1>2 DEF Request, TypeInv, TypeOK
  <2>2. CASE Issue(r, RequestRow(next[r], id), {next[r]})
    <3>1. RequestRow(next[r], id) \in Row /\ RequestRow(next[r], id).rpc = id
      BY <1>1, RegistryAssumption DEF RequestRow, Row, TypeInv, TypeOK, Tags
    <3>2. FileStep(r, RequestRow(next[r], id))
      BY <2>2, IssueStep
    <3> QED BY <2>1, <3>1, <3>2, IdsApart
  <2>3. CASE UNCHANGED <<next, lines, terminated, issued>>
    BY <1>1, <2>1, <2>3 DEF Remembered, OneRowPerId
  <2> QED BY <1>2, <2>2, <2>3 DEF Request
<1>3. ASSUME NEW r \in Registries, NEW parents \in SUBSET issued,
             Join(r, parents)
      PROVE  Remembered' /\ OneRowPerId'
  <2>1. RootsOf(parents) \subseteq Tags
    BY <1>1 DEF RootsOf, TypeInv, TypeOK, Context
  <2>2. /\ JoinRow(next[r], RootsOf(parents)) \in Row
        /\ JoinRow(next[r], RootsOf(parents)).kind # "request"
    BY <1>1, <2>1, RegistryAssumption DEF JoinRow, Row, TypeInv, TypeOK, Tags
  <2>3. FileStep(r, JoinRow(next[r], RootsOf(parents))) /\ requestIds' = requestIds
    BY <1>3, IssueStep DEF Join
  <2> QED BY <2>2, <2>3, IdsApart
<1>4. CASE UNCHANGED vars
  BY <1>1, <1>4 DEF vars, Remembered, OneRowPerId
<1> QED BY <1>2, <1>3, <1>4 DEF Next

(* A request id names at most one row of a session's file, whatever writes   *)
(* failed: an id is remembered before its row is written, and a row that was *)
(* torn is never completed.                                                  *)
THEOREM IdsNameOneRow == Spec => []OneRowPerId
<1>1. Init => IdInv
  BY InitType, EmptySeq DEF Init, IdInv, Remembered, OneRowPerId
<1>2. IdInv /\ [Next]_vars => IdInv'
  BY StepType, StepIds DEF IdInv
<1>3. IdInv => OneRowPerId
  BY DEF IdInv
<1> QED BY <1>1, <1>2, <1>3, PTL DEF Spec

-----------------------------------------------------------------------------
(***************************************************************************)
(* What attribute.py computes from the file.  Owners is recursive over the *)
(* rows, so its equation is proved first, from the least number for which  *)
(* it would fail.                                                          *)
(***************************************************************************)

(* The numbers are well founded: the one fact of induction that needs no      *)
(* operator to be instantiated.                                              *)
LEMMA LeastNumber ==
    ASSUME NEW S \in SUBSET Nat, S # {}
    PROVE  \E n \in S : \A m \in S : n <= m
<1> DEFINE R == {p \in Nat \X Nat : p[1] < p[2]}
<1>1. IsWellFoundedOn(R, Nat)
  BY NatLessThanWellFounded DEF OpToRel
<1>2. PICK n \in S : \A m \in S : ~(<<m, n>> \in R)
  <2> HIDE DEF R
  <2> QED BY <1>1, WFMin
<1>3. \A m \in Nat, k \in Nat : m < k => <<m, k>> \in R
  OBVIOUS
<1> HIDE DEF R
<1>4. \A m \in S : ~(m < n)
  BY <1>2, <1>3
<1> QED BY <1>4

(* The table after one more row. *)
OwnersOf(old, row) == IF row.kind = "request" THEN {row.context}
                      ELSE UNION {old[p] : p \in row.parents}

WithRow(old, row) == [c \in DOMAIN old \cup {row.context} |->
                        IF c = row.context THEN OwnersOf(old, row) ELSE old[c]]

(* f holds the tables after the first 0 .. n rows. *)
Tables(f, ls, n) ==
    f = [k \in 0 .. n |-> IF k = 0 THEN [c \in {} |-> {}]
                          ELSE WithRow(f[k - 1], ls[k])]

(* Owners as it is defined, with its recursive function named. *)
LEMMA OwnersTables ==
    ASSUME NEW ls
    PROVE  Owners(ls) = (CHOOSE f : Tables(f, ls, Len(ls)))[Len(ls)]
BY DEF Owners, Tables, WithRow, OwnersOf

(* Two tables over the same rows are the same. *)
LEMMA TablesUnique ==
    ASSUME NEW f, NEW g, NEW ls, NEW rs, NEW n \in Nat, NEW k \in 0 .. n,
           Tables(f, ls, n), Tables(g, rs, k),
           \A i \in 1 .. k : ls[i] = rs[i]
    PROVE  \A i \in 0 .. k : f[i] = g[i]
<1> DEFINE Bad == {i \in 0 .. k : f[i] # g[i]}
<1> SUFFICES ASSUME Bad # {} PROVE FALSE
  OBVIOUS
<1>1. PICK i \in Bad : \A j \in Bad : i <= j
  <2>1. Bad \in SUBSET Nat
    OBVIOUS
  <2> HIDE DEF Bad
  <2> QED BY <2>1, LeastNumber
<1>2. CASE i = 0
  BY <1>1, <1>2 DEF Tables
<1>3. CASE i # 0
  <2>1. i \in 1 .. k /\ i - 1 \in 0 .. k /\ i - 1 \notin Bad
    BY <1>1, <1>3
  <2>2. f[i] = WithRow(f[i - 1], ls[i]) /\ g[i] = WithRow(g[i - 1], rs[i])
    BY <2>1 DEF Tables
  <2> QED BY <1>1, <2>1, <2>2
<1> QED BY <1>2, <1>3

(* There are tables after any number of rows. *)
LEMMA TablesExist ==
    ASSUME NEW ls, NEW n \in Nat
    PROVE  \E f : Tables(f, ls, n)
<1> DEFINE Bad == {k \in Nat : ~ \E f : Tables(f, ls, k)}
<1> SUFFICES ASSUME Bad # {} PROVE FALSE
  OBVIOUS
<1>1. PICK k \in Bad : \A j \in Bad : k <= j
  BY LeastNumber
<1>2. CASE k = 0
  <2> DEFINE f == [i \in 0 .. 0 |-> [c \in {} |-> {}]]
  <2>1. Tables(f, ls, 0)
    BY DEF Tables
  <2> QED BY <1>1, <1>2, <2>1
<1>3. CASE k # 0
  <2>1. k - 1 \in Nat /\ k - 1 \notin Bad
    BY <1>1, <1>3
  <2>2. PICK f : Tables(f, ls, k - 1)
    BY <2>1
  <2> DEFINE g == [i \in 0 .. k |-> IF i = k THEN WithRow(f[k - 1], ls[k])
                                     ELSE f[i]]
  <2>3. \A i \in 0 .. k - 1 : f[i] = IF i = 0 THEN [c \in {} |-> {}]
                                      ELSE WithRow(f[i - 1], ls[i])
    BY <2>2 DEF Tables
  <2>4. \A i \in 0 .. k : g[i] = IF i = 0 THEN [c \in {} |-> {}]
                                  ELSE WithRow(g[i - 1], ls[i])
    BY <1>3, <2>1, <2>3
  <2>5. Tables(g, ls, k)
    BY <2>4 DEF Tables
  <2> QED BY <1>1, <2>5
<1> QED BY <1>2, <1>3

(* Owners reads the last of them. *)
LEMMA OwnersAre ==
    ASSUME NEW ls, Len(ls) \in Nat
    PROVE  \E f : Tables(f, ls, Len(ls)) /\ Owners(ls) = f[Len(ls)]
BY OwnersTables, TablesExist

(* A row adds its own owners and changes no others. *)
LEMMA OwnersAppend ==
    ASSUME NEW S, NEW ls \in Seq(S), NEW row \in S
    PROVE  Owners(Append(ls, row)) = WithRow(Owners(ls), row)
<1> DEFINE new == Append(ls, row)
           n == Len(ls)
<1>1. /\ n \in Nat /\ Len(new) = n + 1
      /\ \A i \in 1 .. n : new[i] = ls[i]
      /\ new[n + 1] = row
  BY AppendProperties, LenProperties
<1> HIDE DEF new, n
<1>2. PICK f : Tables(f, ls, n) /\ Owners(ls) = f[n]
  BY <1>1, OwnersAre DEF n
<1>3. PICK g : Tables(g, new, n + 1) /\ Owners(new) = g[n + 1]
  BY <1>1, OwnersAre
<1>4. g[n] = f[n]
  BY <1>1, <1>2, <1>3, TablesUnique
<1>5. g[n + 1] = WithRow(g[n], new[n + 1])
  BY <1>1, <1>3 DEF Tables
<1> QED BY <1>1, <1>2, <1>3, <1>4, <1>5 DEF new

(* An empty file names no owners. *)
LEMMA OwnersEmpty == Owners(<< >>) = [c \in {} |-> {}]
<1>1. Len(<< >>) = 0
  OBVIOUS
<1> QED BY <1>1, OwnersAre DEF Tables

-----------------------------------------------------------------------------
(* In the table of the file, these contexts own themselves: they are requests. *)
Requested(table, roots) ==
    \A p \in roots : p \in DOMAIN table /\ table[p] = {p}

(* The table speaks of contexts below the counter only, and tells of every   *)
(* context in a caller's hands what that context carries.  MappingAgrees     *)
(* alone would not do: a join row names the roots, so that the table must    *)
(* map each root to itself.                                                  *)
Mapped(table, n, r) ==
    /\ \A t \in DOMAIN table : t \in Nat /\ t < n
    /\ \A c \in issued : c.namespace = r =>
          /\ c.tag \in DOMAIN table /\ table[c.tag] = c.roots
          /\ Requested(table, c.roots)

MapInv == \A r \in Registries :
    Readable(r) => Mapped(Owners(lines[r]), next[r], r)

MappingInv == TypeInv /\ MapInv

(* A context handed out has its row on the file of its session, if that file *)
(* is readable: a row that completed another's line made it unreadable.      *)
LEMMA HandedOutWritten ==
    ASSUME TypeInv, NEW r \in Registries, NEW row, Readable(r)',
           lines' = [lines EXCEPT ![r] = Appended(r, row)]
    PROVE  lines'[r] = Append(lines[r], row)
<1>1. /\ lines[r] \in Seq(Row)
      /\ lines'[r] = Appended(r, row)
  BY DEF TypeInv, TypeOK, Row
<1>2. CASE terminated[r]
  BY <1>1, <1>2 DEF Appended
<1>3. CASE ~terminated[r]
  <2>1. Len(lines[r]) \in 1 .. Len(lines[r])
    BY <1>1, <1>3, EmptySeq, LenProperties DEF TypeInv, OpenLine
  <2>2. Len(lines[r]) \in DOMAIN lines'[r] /\ lines'[r][Len(lines[r])] = Garbage
    BY <1>1, <1>3, <2>1, LenProperties DEF Appended
  <2> QED BY <2>2 DEF Readable, Garbage
<1> QED BY <1>2, <1>3

(* A row under the counter's tag adds an entry to the table and leaves the   *)
(* others.                                                                   *)
LEMMA RowAdds ==
    ASSUME NEW table, NEW row, row.context \in Nat,
           \A t \in DOMAIN table : t < row.context,
           row.kind = "request" \/ Requested(table, row.parents)
    PROVE  /\ DOMAIN WithRow(table, row) = DOMAIN table \cup {row.context}
           /\ \A t \in DOMAIN table : WithRow(table, row)[t] = table[t]
           /\ WithRow(table, row)[row.context] =
                 IF row.kind = "request" THEN {row.context} ELSE row.parents
<1>1. row.context \notin DOMAIN table
  OBVIOUS
<1>2. /\ DOMAIN WithRow(table, row) = DOMAIN table \cup {row.context}
      /\ \A t \in DOMAIN table : WithRow(table, row)[t] = table[t]
      /\ WithRow(table, row)[row.context] = OwnersOf(table, row)
  BY <1>1 DEF WithRow
<1>3. row.kind # "request" => UNION {table[p] : p \in row.parents} = row.parents
  BY DEF Requested
<1> QED BY <1>2, <1>3 DEF OwnersOf

(* A call that takes a tag of r, with the row of a request or of a join over *)
(* registered requests, keeps the table of r's file right.                   *)
LEMMA IssueMapped ==
    ASSUME MappingInv, NEW r \in Registries, NEW row \in Row, NEW roots,
           Issue(r, row, roots), Readable(r)', row.context = next[r],
           Readable(r) => \/ row.kind = "request" /\ roots = {next[r]}
                          \/ /\ row.kind = "join" /\ row.parents = roots
                             /\ Requested(Owners(lines[r]), roots)
    PROVE  Mapped(Owners(lines[r]), next[r], r)'
<1>1. /\ TypeInv /\ MapInv
      /\ lines[r] \in Seq(Row) /\ next[r] \in Nat
      /\ next \in [Registries -> Tags]
  <2>1. /\ TypeInv /\ MapInv
        /\ lines[r] \in Seq(Row) /\ next \in [Registries -> Tags]
    BY DEF MappingInv, TypeInv, TypeOK, Row
  <2> QED BY <2>1, RegistryAssumption DEF Tags
<1>2. /\ next' = [next EXCEPT ![r] = next[r] + 1]
      /\ FileStep(r, row)
      /\ \/ issued' = issued
         \/ /\ issued' = issued \cup
                   {[namespace |-> r, tag |-> next[r], roots |-> roots]}
            /\ lines' = [lines EXCEPT ![r] = Appended(r, row)]
  BY IssueStep
<1>3. /\ Readable(r)
      /\ lines'[r] \in {lines[r], Append(lines[r], row)}
      /\ next'[r] = next[r] + 1
  BY <1>1, <1>2, FileStepCases
<1> DEFINE table == Owners(lines[r])
           table2 == Owners(lines'[r])
<1>4. /\ \A t \in DOMAIN table : t \in Nat /\ t < next[r]
      /\ \A c \in issued : c.namespace = r =>
            /\ c.tag \in DOMAIN table /\ table[c.tag] = c.roots
            /\ Requested(table, c.roots)
      /\ row.kind = "request" \/ Requested(table, row.parents)
  BY <1>1, <1>3 DEF MapInv, Mapped
<1>5. table2 = IF lines'[r] = lines[r] THEN table ELSE WithRow(table, row)
  BY <1>1, <1>3, OwnersAppend
<1> HIDE DEF table, table2
<1>6. /\ DOMAIN WithRow(table, row) = DOMAIN table \cup {next[r]}
      /\ \A t \in DOMAIN table : WithRow(table, row)[t] = table[t]
      /\ WithRow(table, row)[next[r]] =
            IF row.kind = "request" THEN {next[r]} ELSE row.parents
  <2>1. /\ row.context \in Nat
        /\ \A t \in DOMAIN table : t < row.context
    BY <1>1, <1>4
  <2>2. /\ DOMAIN WithRow(table, row) = DOMAIN table \cup {row.context}
        /\ \A t \in DOMAIN table : WithRow(table, row)[t] = table[t]
        /\ WithRow(table, row)[row.context] =
              IF row.kind = "request" THEN {row.context} ELSE row.parents
    BY <1>4, <2>1, RowAdds
  <2> QED BY <2>2
<1>7. /\ \A t \in DOMAIN table2 : t \in Nat /\ t < next'[r]
      /\ \A t \in DOMAIN table : t \in DOMAIN table2 /\ table2[t] = table[t]
  <2>1. CASE lines'[r] = lines[r]
    <3>1. table2 = table
      BY <1>5, <2>1
    <3> QED BY <1>1, <1>3, <1>4, <3>1
  <2>2. CASE lines'[r] # lines[r]
    <3>1. table2 = WithRow(table, row)
      BY <1>5, <2>2
    <3> QED BY <1>1, <1>3, <1>4, <1>6, <3>1
  <2> QED BY <2>1, <2>2
<1>8. ASSUME NEW c \in issued', c.namespace = r
      PROVE  /\ c.tag \in DOMAIN table2 /\ table2[c.tag] = c.roots
             /\ Requested(table2, c.roots)
  <2>1. CASE c \in issued
    BY <1>4, <1>7, <1>8, <2>1 DEF Requested
  <2>2. CASE c \notin issued
    <3>1. /\ c = [namespace |-> r, tag |-> next[r], roots |-> roots]
          /\ lines' = [lines EXCEPT ![r] = Appended(r, row)]
      BY <1>2, <1>8, <2>2
    <3>2. lines'[r] = Append(lines[r], row)
      BY <1>1, <3>1, HandedOutWritten
    <3>3. table2 = WithRow(table, row)
      BY <1>1, <3>2, OwnersAppend DEF table, table2
    <3>4. CASE row.kind = "request"
      BY <1>3, <1>6, <3>1, <3>3, <3>4 DEF Requested
    <3>5. CASE row.kind # "request"
      <4>1. row.parents = roots /\ Requested(table, roots)
        BY <1>3, <3>5 DEF table
      <4>2. Requested(table2, roots)
        BY <1>7, <4>1 DEF Requested
      <4> QED BY <1>6, <3>1, <3>3, <3>5, <4>1, <4>2
    <3> QED BY <3>4, <3>5
  <2> QED BY <2>1, <2>2
<1> QED BY <1>7, <1>8 DEF Mapped, table2

(* The sessions a step does not touch. *)
LEMMA OthersMapped ==
    ASSUME MappingInv, NEW r \in Registries, NEW row \in Row, NEW roots,
           Issue(r, row, roots), NEW q \in Registries \ {r}, Readable(q)'
    PROVE  Mapped(Owners(lines[q]), next[q], q)'
<1>1. /\ lines \in [Registries -> Seq(Row)] /\ next \in [Registries -> Tags]
      /\ MapInv
  BY DEF MappingInv, TypeInv, TypeOK, Row
<1>2. /\ next' = [next EXCEPT ![r] = next[r] + 1]
      /\ FileStep(r, row)
      /\ issued' \subseteq issued \cup
                   {[namespace |-> r, tag |-> next[r], roots |-> roots]}
  BY IssueStep
<1>3. lines'[q] = lines[q] /\ next'[q] = next[q]
  BY <1>1, <1>2 DEF FileStep
<1>4. Readable(q)
  BY <1>3 DEF Readable
<1>5. \A c \in issued' : c.namespace = q => c \in issued
  BY <1>2
<1> QED BY <1>1, <1>3, <1>4, <1>5 DEF MapInv, Mapped

(* Every call keeps the tables of all files right. *)
LEMMA StepMapped == MappingInv /\ [Next]_vars => MapInv'
<1> SUFFICES ASSUME MappingInv, [Next]_vars PROVE MapInv'
  OBVIOUS
<1>1. /\ TypeInv /\ MapInv /\ issued \subseteq Context
      /\ \A r \in Registries : next[r] \in 1 .. MaxTag
  BY DEF MappingInv, TypeInv, TypeOK, Tags
<1>2. ASSUME NEW r \in Registries, NEW row \in Row, NEW roots,
             Issue(r, row, roots), row.context = next[r],
             Readable(r) => \/ row.kind = "request" /\ roots = {next[r]}
                            \/ /\ row.kind = "join" /\ row.parents = roots
                               /\ Requested(Owners(lines[r]), roots)
      PROVE  MapInv'
  BY <1>2, IssueMapped, OthersMapped DEF MapInv
<1>3. CASE UNCHANGED <<next, lines, issued>>
  BY <1>1, <1>3 DEF MapInv, Mapped, Readable
<1>4. ASSUME NEW r \in Registries, NEW id \in RpcIds, Request(r, id)
      PROVE  MapInv'
  <2>1. CASE Issue(r, RequestRow(next[r], id), {next[r]})
    <3>1. RequestRow(next[r], id) \in Row
      BY <1>1, RegistryAssumption DEF RequestRow, Row
    <3>2. /\ RequestRow(next[r], id).kind = "request"
          /\ RequestRow(next[r], id).context = next[r]
      BY DEF RequestRow
    <3> QED BY <1>2, <2>1, <3>1, <3>2
  <2> QED BY <1>3, <1>4, <2>1 DEF Request
<1>5. ASSUME NEW r \in Registries, NEW parents \in SUBSET issued,
             Join(r, parents)
      PROVE  MapInv'
  <2> DEFINE roots == RootsOf(parents)
  <2>1. roots \subseteq Tags
    BY <1>1 DEF RootsOf, Context
  <2>2. JoinRow(next[r], roots) \in Row
    BY <1>1, <2>1, RegistryAssumption DEF JoinRow, Row, Tags
  <2>3. /\ JoinRow(next[r], roots).kind = "join"
        /\ JoinRow(next[r], roots).context = next[r]
        /\ JoinRow(next[r], roots).parents = roots
    BY DEF JoinRow
  <2>4. Readable(r) => Requested(Owners(lines[r]), roots)
    <3>1. SUFFICES ASSUME Readable(r) PROVE Requested(Owners(lines[r]), roots)
      OBVIOUS
    <3>2. \A c \in parents : Requested(Owners(lines[r]), c.roots)
      BY <1>1, <1>5, <3>1 DEF Join, MapInv, Mapped
    <3> QED BY <3>2 DEF Requested, RootsOf
  <2> HIDE DEF roots
  <2>5. Issue(r, JoinRow(next[r], roots), roots)
    BY <1>5 DEF Join, roots
  <2> QED BY <1>2, <2>2, <2>3, <2>4, <2>5
<1>6. CASE UNCHANGED vars
  BY <1>3, <1>6 DEF vars
<1> QED BY <1>4, <1>5, <1>6 DEF Next

(* Whatever writes failed and whatever was joined: the owners attribute.py   *)
(* computes from a file its loader accepts are, for every context in a       *)
(* caller's hands, the roots that context carries in the program.            *)
THEOREM FilesTellOwnership == Spec => []MappingAgrees
<1>1. Init => MappingInv
  <2>1. Init => MapInv
    BY OwnersEmpty DEF Init, MapInv, Mapped
  <2> QED BY <2>1, InitType DEF MappingInv
<1>2. MappingInv /\ [Next]_vars => MappingInv'
  BY StepType, StepMapped DEF MappingInv
<1>3. MappingInv => MappingAgrees
  <2> SUFFICES ASSUME MappingInv, NEW r \in Registries, Loadable(lines[r])
               PROVE  Mapped(Owners(lines[r]), next[r], r)
    BY DEF MappingAgrees, Mapped
  <2>1. Readable(r)
    BY DEF Loadable, Accepts, Readable
  <2> QED BY <2>1 DEF MappingInv, MapInv
<1> QED BY <1>1, <1>2, <1>3, PTL DEF Spec

-----------------------------------------------------------------------------
(***************************************************************************)
(* The registry of context.rs implements ContextAlgebra, for any sessions, *)
(* request ids and largest tag: what it has handed out is a table of owners *)
(* that each call extends at a fresh tag or leaves alone.                  *)
(***************************************************************************)

(* The refinement mapping: the contexts in callers' hands, as a table. *)
Held(q) == [c \in Handed(q) |-> RootsHeld(q, c)]
Table == [q \in Registries |-> Held(q)]

(* A context is determined by its session and tag. *)
Distinct(contexts) == \A c, d \in contexts :
    c.namespace = d.namespace /\ c.tag = d.tag => c = d

(* Tags handed out lie below the counter, and none is handed out twice. *)
TagInv == /\ \A c \in issued : c.tag < next[c.namespace]
          /\ Distinct(issued)

RefinementInv == TypeInv /\ TagInv

-----------------------------------------------------------------------------
(* What a call does, forgetting its file: nothing is handed out, or one      *)
(* context under the tag the counter stood at.                               *)
Given(r, roots) == [namespace |-> r, tag |-> next[r], roots |-> roots]

LEMMA Cases ==
    ASSUME TypeInv, [Next]_vars
    PROVE  \/ UNCHANGED <<next, issued>>
           \/ \E r \in Registries, roots \in SUBSET Tags :
                /\ next' = [next EXCEPT ![r] = next[r] + 1]
                /\ \/ UNCHANGED issued
                   \/ /\ issued' = issued \cup {Given(r, roots)}
                      /\ \/ roots = {next[r]}
                         \/ \E parents \in SUBSET issued :
                               /\ parents # {}
                               /\ \A p \in parents : p.namespace = r
                               /\ roots = RootsOf(parents)
<1>1. ASSUME NEW r \in Registries, NEW id \in RpcIds, Request(r, id)
      PROVE  \/ UNCHANGED <<next, issued>>
             \/ /\ next' = [next EXCEPT ![r] = next[r] + 1]
                /\ issued' \in {issued, issued \cup {Given(r, {next[r]})}}
  BY <1>1 DEF Request, Issue, Given
<1>2. ASSUME NEW r \in Registries, NEW parents \in SUBSET issued, Join(r, parents)
      PROVE  /\ next' = [next EXCEPT ![r] = next[r] + 1]
             /\ issued' \in {issued, issued \cup {Given(r, RootsOf(parents))}}
             /\ parents # {}
             /\ \A p \in parents : p.namespace = r
  BY <1>2 DEF Join, Issue, Given
<1>3. \A r \in Registries : {next[r]} \subseteq Tags
  BY DEF TypeInv, TypeOK
<1>4. \A parents \in SUBSET issued : RootsOf(parents) \subseteq Tags
  BY DEF RootsOf, TypeInv, TypeOK, Context
<1>5. CASE UNCHANGED vars
  BY <1>5 DEF vars
<1>6. CASE \E r \in Registries : \E id \in RpcIds : Request(r, id)
  BY <1>1, <1>3, <1>6
<1>7. CASE \E r \in Registries : \E parents \in SUBSET issued : Join(r, parents)
  <2>1. PICK r \in Registries, parents \in SUBSET issued : Join(r, parents)
    BY <1>7
  <2>2. RootsOf(parents) \in SUBSET Tags
    BY <1>4
  <2> QED BY <1>2, <2>1, <2>2
<1> QED BY <1>5, <1>6, <1>7 DEF Next

(* Every call keeps tags below the counter and distinct. *)
LEMMA StepTags == RefinementInv /\ [Next]_vars => TagInv'
<1> SUFFICES ASSUME RefinementInv, [Next]_vars PROVE TagInv'
  OBVIOUS
<1>1. /\ TypeInv /\ issued \subseteq Context /\ Distinct(issued)
      /\ \A c \in issued : c.tag < next[c.namespace]
      /\ next \in [Registries -> Nat]
  <2>1. next \in [Registries -> Tags] /\ Tags \subseteq Nat
    BY RegistryAssumption DEF RefinementInv, TypeInv, TypeOK, Tags
  <2> QED BY <2>1 DEF RefinementInv, TagInv, TypeInv, TypeOK
<1>2. CASE UNCHANGED <<next, issued>>
  BY <1>1, <1>2 DEF TagInv, Distinct
<1>3. ASSUME NEW r \in Registries, NEW roots \in SUBSET Tags,
             next' = [next EXCEPT ![r] = next[r] + 1],
             issued' \in {issued, issued \cup {Given(r, roots)}}
      PROVE  TagInv'
  <2>1. \A c \in issued : c.tag \in Nat /\ c.namespace \in Registries
    BY <1>1 DEF Context, Tags
  <2>2. \A q \in Registries : next[q] \in Nat /\ next'[q] \in Nat /\ next[q] <= next'[q]
    BY <1>1, <1>3
  <2>3. \A c \in issued : c.tag < next'[c.namespace]
    BY <1>1, <2>1, <2>2
  <2>4. /\ Given(r, roots).namespace = r /\ Given(r, roots).tag = next[r]
        /\ next[r] < next'[r]
    BY <1>1, <1>3 DEF Given
  <2>5. \A c \in issued : ~(c.namespace = r /\ c.tag = next[r])
    BY <1>1, <2>1
  <2>6. \A c \in issued' : c.tag < next'[c.namespace]
    BY <1>3, <2>3, <2>4
  <2>7. Distinct(issued')
    BY <1>1, <1>3, <2>4, <2>5 DEF Distinct
  <2> QED BY <2>6, <2>7 DEF TagInv
<1> QED BY <1>1, <1>2, <1>3, Cases

-----------------------------------------------------------------------------
(* What the mapping reads of distinct contexts is what they carry. *)
LEMMA HeldRoots ==
    ASSUME NEW contexts, Distinct(contexts), NEW d \in contexts
    PROVE  (CHOOSE c \in contexts : c.namespace = d.namespace /\ c.tag = d.tag) = d
BY DEF Distinct

(* A context handed out under a fresh tag extends the table of its session   *)
(* at that tag, and no other table.                                          *)
LEMMA TableExtended ==
    ASSUME RefinementInv, TagInv', NEW r \in Registries, NEW roots,
           issued' = issued \cup {Given(r, roots)}
    PROVE  /\ next[r] \notin DOMAIN Table[r]
           /\ Table' = [Table EXCEPT ![r] = Algebra!With(Table[r], next[r], roots)]
<1>1. /\ issued \subseteq Context /\ Distinct(issued) /\ Distinct(issued')
      /\ \A c \in issued : c.tag < next[c.namespace]
      /\ next[r] \in Nat
  BY DEF RefinementInv, TagInv, TypeInv, TypeOK, Tags
<1>2. \A c \in issued : c.tag \in Nat /\ c.namespace \in Registries
  BY <1>1 DEF Context, Tags
<1>3. /\ Given(r, roots).namespace = r /\ Given(r, roots).tag = next[r]
      /\ Given(r, roots).roots = roots
  BY DEF Given
<1>4. next[r] \notin Handed(r)
  BY <1>1, <1>2 DEF Handed
<1>5. /\ \A q : Handed(q) = {c.tag : c \in {d \in issued : d.namespace = q}}
      /\ \A q : Handed(q)' = {c.tag : c \in {d \in issued' : d.namespace = q}}
  BY DEF Handed
<1>6. /\ Handed(r)' = Handed(r) \cup {next[r]}
      /\ \A q \in Registries \ {r} : Handed(q)' = Handed(q)
  BY <1>3, <1>5
<1>7. ASSUME NEW d \in issued
      PROVE  RootsHeld(d.namespace, d.tag)' = RootsHeld(d.namespace, d.tag)
  <2>1. RootsHeld(d.namespace, d.tag) = d.roots
    BY <1>1, HeldRoots DEF RootsHeld
  <2>2. d \in issued'
    BY <1>7
  <2>3. (CHOOSE c \in issued' : c.namespace = d.namespace /\ c.tag = d.tag) = d
    BY <1>1, <2>2, HeldRoots
  <2> QED BY <2>1, <2>3 DEF RootsHeld
<1>8. ASSUME NEW tag, tag = next[r]
      PROVE  RootsHeld(r, tag)' = roots
  <2>1. (CHOOSE c \in issued' : c.namespace = Given(r, roots).namespace
                                 /\ c.tag = Given(r, roots).tag) = Given(r, roots)
    <3>1. Given(r, roots) \in issued'
      OBVIOUS
    <3> QED BY <1>1, <3>1, HeldRoots
  <2> QED BY <1>3, <1>8, <2>1 DEF RootsHeld
<1>9. ASSUME NEW q \in Registries, NEW c \in Handed(q)
      PROVE  RootsHeld(q, c)' = RootsHeld(q, c)
  BY <1>5, <1>7
<1>10. Held(r)' = Algebra!With(Held(r), next[r], roots)
  <2>1. Held(r)' = [c \in Handed(r) \cup {next[r]} |-> RootsHeld(r, c)']
    BY <1>6 DEF Held
  <2>2. \A c \in Handed(r) \cup {next[r]} :
            RootsHeld(r, c)' = IF c = next[r] THEN roots ELSE Held(r)[c]
    BY <1>4, <1>8, <1>9 DEF Held
  <2>3. DOMAIN Held(r) = Handed(r)
    BY DEF Held
  <2> QED BY <2>1, <2>2, <2>3 DEF Algebra!With
<1>11. \A q \in Registries \ {r} : Held(q)' = Held(q)
  BY <1>6, <1>9 DEF Held
<1> HIDE DEF Held
<1> QED BY <1>4, <1>10, <1>11 DEF Table, Held

(* The owners of a join are, in the table, those of its parents. *)
LEMMA RootsInTable ==
    ASSUME RefinementInv, NEW r \in Registries, NEW parents \in SUBSET issued,
           \A p \in parents : p.namespace = r
    PROVE  /\ {p.tag : p \in parents} \subseteq DOMAIN Table[r]
           /\ UNION {Table[r][t] : t \in {p.tag : p \in parents}} = RootsOf(parents)
<1>1. \A p \in parents : p.tag \in Handed(r) /\ RootsHeld(r, p.tag) = p.roots
  <2> SUFFICES ASSUME NEW p \in parents
               PROVE  p.tag \in Handed(r) /\ RootsHeld(r, p.tag) = p.roots
    OBVIOUS
  <2>1. p \in issued /\ p.namespace = r /\ Distinct(issued)
    BY DEF RefinementInv, TagInv
  <2>2. (CHOOSE c \in issued : c.namespace = p.namespace /\ c.tag = p.tag) = p
    BY <2>1, HeldRoots
  <2> QED BY <2>1, <2>2 DEF Handed, RootsHeld
<1>2. \A p \in parents : p.tag \in DOMAIN Table[r] /\ Table[r][p.tag] = p.roots
  BY <1>1 DEF Table, Held
<1> QED BY <1>2 DEF RootsOf

(* The registry implements the abstract session: each call is a Register or  *)
(* a Combine of the tag its counter stood at, or hands out nothing.          *)
THEOREM RegistryImplementsAlgebra == Spec => ImplementsAlgebra
<1>1. Init => RefinementInv
  BY InitType DEF Init, RefinementInv, TagInv, Distinct
<1>2. RefinementInv /\ [Next]_vars => RefinementInv'
  BY StepType, StepTags DEF RefinementInv
<1>3. Init => Algebra!AlgebraInit
  BY DEF Init, Algebra!AlgebraInit, Handed
<1>4. RefinementInv /\ RefinementInv' /\ [Next]_vars => [Algebra!AlgebraNext]_Table
  <2> SUFFICES ASSUME RefinementInv, RefinementInv', [Next]_vars, Table' # Table
               PROVE  Algebra!AlgebraNext
    OBVIOUS
  <2>1. UNCHANGED issued => Table' = Table
    BY DEF Table, Held, Handed, RootsHeld
  <2>2. PICK r \in Registries, roots \in SUBSET Tags :
                /\ issued' = issued \cup {Given(r, roots)}
                /\ \/ roots = {next[r]}
                   \/ \E parents \in SUBSET issued :
                         /\ parents # {}
                         /\ \A p \in parents : p.namespace = r
                         /\ roots = RootsOf(parents)
    BY <2>1, Cases DEF RefinementInv
  <2>3. /\ next[r] \in Tags /\ next[r] \notin DOMAIN Table[r]
        /\ Table' = [Table EXCEPT ![r] = Algebra!With(Table[r], next[r], roots)]
    BY <2>2, TableExtended DEF RefinementInv, TypeInv, TypeOK
  <2>4. CASE roots = {next[r]}
    <3>1. Algebra!Register(r, next[r])
      BY <2>3, <2>4 DEF Algebra!Register, Table, Held
    <3> QED BY <2>3, <3>1 DEF Algebra!AlgebraNext
  <2>5. ASSUME NEW parents \in SUBSET issued, parents # {},
               \A p \in parents : p.namespace = r, roots = RootsOf(parents)
        PROVE  Algebra!AlgebraNext
    <3> DEFINE tags == {p.tag : p \in parents}
    <3>1. /\ tags \subseteq DOMAIN Table[r]
          /\ UNION {Table[r][t] : t \in tags} = roots
          /\ tags # {}
      BY <2>5, RootsInTable
    <3> HIDE DEF tags
    <3>2. Algebra!Combine(r, next[r], tags)
      BY <2>3, <3>1 DEF Algebra!Combine, Table, Held
    <3> QED BY <2>3, <3>1, <3>2 DEF Algebra!AlgebraNext, Table, Held
  <2> QED BY <2>2, <2>4, <2>5
<1>5. RefinementInv /\ RefinementInv' /\ [Next]_vars
        => [Algebra!AlgebraNext]_([r \in Registries |-> [c \in Handed(r) |-> RootsHeld(r, c)]])
  BY <1>4 DEF Table, Held
<1> QED
  BY <1>1, <1>2, <1>3, <1>5, PTL DEF Spec, ImplementsAlgebra, Algebra!AlgebraSpec

-----------------------------------------------------------------------------
(***************************************************************************)
(* The abstract session keeps its promises, for any sessions and tags: its *)
(* type, grounded flat ownership, and no tag ever rebound.                 *)
(***************************************************************************)

(* Grounded for one session, as a statement about its table alone. *)
GroundedTable(table) ==
    \A c \in DOMAIN table :
        /\ table[c] # {}
        /\ \A o \in table[c] : o \in DOMAIN table /\ table[o] = {o}

(* A table extended at a new tag, by a grounded set of owners, is grounded.  *)
LEMMA Extension ==
    ASSUME NEW table, GroundedTable(table), NEW c, c \notin DOMAIN table,
           NEW own, own # {},
           \A o \in own : (o = c /\ own = {c}) \/ (o \in DOMAIN table /\ table[o] = {o})
    PROVE  GroundedTable(With(table, c, own))
<1> DEFINE new == With(table, c, own)
<1>1. /\ DOMAIN new = DOMAIN table \cup {c}
      /\ new[c] = own
      /\ \A x \in DOMAIN table : new[x] = table[x]
  BY DEF With
<1> HIDE DEF new
<1> SUFFICES ASSUME NEW x \in DOMAIN new
             PROVE  /\ new[x] # {}
                    /\ \A o \in new[x] : o \in DOMAIN new /\ new[o] = {o}
  BY DEF GroundedTable, new
<1>2. CASE x = c
  BY <1>1, <1>2
<1>3. CASE x \in DOMAIN table
  BY <1>1, <1>3 DEF GroundedTable
<1> QED
  BY <1>1, <1>2, <1>3

(* The owners of a non-empty set of contexts are non-empty and grounded.     *)
LEMMA UnionGrounded ==
    ASSUME NEW table, GroundedTable(table), NEW parents \in SUBSET DOMAIN table,
           parents # {}
    PROVE  /\ UNION {table[p] : p \in parents} # {}
           /\ \A o \in UNION {table[p] : p \in parents} :
                 o \in DOMAIN table /\ table[o] = {o}
<1>1. PICK p \in parents : TRUE
  OBVIOUS
<1>2. PICK o \in table[p] : TRUE
  BY <1>1 DEF GroundedTable
<1> QED
  BY <1>1, <1>2 DEF GroundedTable

(* How a step changes the tables: one new tag in one session, or nothing.    *)
LEMMA AlgebraCases ==
    ASSUME AlgebraTypes, [AlgebraNext]_owners
    PROVE  \/ UNCHANGED owners
           \/ \E s \in Sessions, c \in Numbers : \E own :
                /\ c \notin DOMAIN owners[s]
                /\ owners' = [owners EXCEPT ![s] = With(owners[s], c, own)]
                /\ \/ own = {c}
                   \/ \E parents \in SUBSET DOMAIN owners[s] :
                        parents # {} /\ own = UNION {owners[s][p] : p \in parents}
  BY DEF AlgebraNext, Register, Combine

(* A step keeps the types and the groundedness of every table. *)
LEMMA GroundedStep == AlgebraTypes /\ Grounded /\ [AlgebraNext]_owners => AlgebraTypes' /\ Grounded'
<1> SUFFICES ASSUME AlgebraTypes, Grounded, [AlgebraNext]_owners PROVE AlgebraTypes' /\ Grounded'
  OBVIOUS
<1>1. CASE UNCHANGED owners
  BY <1>1 DEF AlgebraTypes, Grounded
<1>2. ASSUME NEW s \in Sessions, NEW c \in Numbers, NEW own,
             c \notin DOMAIN owners[s],
             owners' = [owners EXCEPT ![s] = With(owners[s], c, own)],
             \/ own = {c}
             \/ \E parents \in SUBSET DOMAIN owners[s] :
                  parents # {} /\ own = UNION {owners[s][p] : p \in parents}
      PROVE  AlgebraTypes' /\ Grounded'
  <2>1. GroundedTable(owners[s])
    BY DEF Grounded, GroundedTable
  <2>2. /\ own # {}
        /\ \A o \in own : \/ o = c /\ own = {c}
                          \/ o \in DOMAIN owners[s] /\ owners[s][o] = {o}
    <3>1. CASE own = {c}
      <4>1. c \in own
        BY <3>1
      <4>2. ASSUME NEW o \in own PROVE o = c /\ own = {c}
        BY <3>1
      <4> QED
        BY <4>1, <4>2
    <3>2. CASE \E parents \in SUBSET DOMAIN owners[s] :
                  parents # {} /\ own = UNION {owners[s][p] : p \in parents}
      BY <2>1, <3>2, UnionGrounded
    <3> QED
      BY <1>2, <3>1, <3>2
  <2>3. GroundedTable(With(owners[s], c, own))
    BY <1>2, <2>1, <2>2, Extension
  <2>4. own \subseteq Numbers
    BY <1>2, <2>2 DEF AlgebraTypes
  <2>5. /\ DOMAIN owners' = Sessions
        /\ owners'[s] = With(owners[s], c, own)
        /\ \A t \in Sessions : t # s => owners'[t] = owners[t]
    BY <1>2 DEF AlgebraTypes
  <2>6. ASSUME NEW t \in Sessions
        PROVE  /\ owners'[t] = [d \in DOMAIN owners'[t] |-> owners'[t][d]]
               /\ DOMAIN owners'[t] \subseteq Numbers
               /\ \A d \in DOMAIN owners'[t] : owners'[t][d] \subseteq Numbers
               /\ GroundedTable(owners'[t])
    <3>1. CASE t = s
      BY <1>2, <2>3, <2>4, <2>5, <3>1 DEF AlgebraTypes, With
    <3>2. CASE t # s
      BY <2>5, <3>2 DEF AlgebraTypes, Grounded, GroundedTable
    <3> QED
      BY <3>1, <3>2
  <2>7. AlgebraTypes'
    BY <2>5, <2>6 DEF AlgebraTypes
  <2>8. Grounded'
    BY <2>6 DEF Grounded, GroundedTable
  <2> QED
    BY <2>7, <2>8
<1> QED
  BY <1>1, <1>2, AlgebraCases

(* Every context of every session has an owner, and owners own themselves:   *)
(* the ids of a joined effect need no walk over the graph of joins.          *)
THEOREM OwnershipGrounded == AlgebraSpec => [](AlgebraTypes /\ Grounded)
<1>1. AlgebraInit => AlgebraTypes /\ Grounded
  BY DEF AlgebraInit, AlgebraTypes, Grounded
<1> QED
  BY <1>1, GroundedStep, PTL DEF AlgebraSpec

(* No tag is ever given other owners than it was handed out with. *)
THEOREM OwnershipImmutable == AlgebraSpec => Immutable
<1>1. AlgebraTypes /\ [AlgebraNext]_owners => [KeepsOwners]_owners
  <2> SUFFICES ASSUME AlgebraTypes, [AlgebraNext]_owners, ~UNCHANGED owners,
                      NEW s \in Sessions, NEW c \in DOMAIN owners[s]
               PROVE  c \in DOMAIN owners'[s] /\ owners'[s][c] = owners[s][c]
    BY DEF KeepsOwners
  <2>1. PICK r \in Sessions, d \in Numbers : \E own :
           /\ d \notin DOMAIN owners[r]
           /\ owners' = [owners EXCEPT ![r] = With(owners[r], d, own)]
    BY AlgebraCases
  <2> QED
    BY <2>1 DEF AlgebraTypes, With
<1> QED
  BY <1>1, OwnershipGrounded, PTL DEF AlgebraSpec, Immutable
=============================================================================
