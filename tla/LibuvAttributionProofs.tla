----------------------- MODULE LibuvAttributionProofs -----------------------
(***************************************************************************)
(* The Node bridge and what the attributor makes of its markers, for any   *)
(* number of pool threads, addresses of work, callbacks and contexts.      *)
(*                                                                         *)
(* Two things nest or pass by one another.  On the main thread a callback  *)
(* saves what it displaces on the stack of the hooks, a scope in its own   *)
(* frame, and a request ends in no request at all: the native context is   *)
(* the store because each gives back the store below it (Nested, Hooked).  *)
(* In libuv a piece of work is in one place at a time and has its record   *)
(* until its done callback (Placed, Recorded), whoever uses its address    *)
(* next.  The attributor's tables follow the records (Followed).           *)
(***************************************************************************)
EXTENDS LibuvAttribution, FiniteSetTheorems, TLAPS

Contexts == 0 .. MaxContext
Context == [request : Contexts, operation : Nat]
Statuses == {"ok", "cancelled"}
Frame == [kind : Javascript \cup {"done"}, store : Contexts, saved : Context,
          stage : {"called", "entered", "completed"}, work : Addresses \cup {Nothing},
          status : Statuses, operation : Nat]

-----------------------------------------------------------------------------
(* The main thread: what a frame stands on, and what it gives back. *)
Below(s, i) == IF i = 1 THEN 0 ELSE s[i - 1].store
StoreOf(s) == IF s = <<>> THEN 0 ELSE LastOf(s).store

Nested(s) == \A i \in DOMAIN s :
    /\ s[i].kind \in {"parents", "without", "done"} => s[i].saved.request = Below(s, i)
    /\ s[i].kind = "request" => Below(s, i) = 0
    /\ s[i].kind = "done" => i = 1
    /\ s[i].kind # "done" => s[i].stage = "called"
    /\ s[i].stage = "entered" => i = Len(s)

(* The hooks saved one store for each callback, the one below it. *)
Matches(at, s, saved) ==
    /\ \A k, l \in DOMAIN saved : k < l => at[k] < at[l]
    /\ \A i \in DOMAIN s : s[i].kind = "callback" => \E k \in DOMAIN saved : at[k] = i
    /\ \A k \in DOMAIN saved : /\ s[at[k]].kind = "callback"
                               /\ saved[k] = Below(s, at[k])
Hooked(s, saved) == \E at \in [DOMAIN saved -> DOMAIN s] : Matches(at, s, saved)

MainInv ==
    /\ frames \in Seq(Frame) /\ hooks \in Seq(Contexts)
    /\ Nested(frames) /\ Hooked(frames, hooks)
    /\ current \in [Threads -> Context]
    /\ current[Main].request = Store
    /\ waiting \in [DOMAIN waiting -> Contexts]

(* instrument.mjs: contexts are numbered in order and own numbered contexts. *)
ScriptInv ==
    /\ next \in 1 .. MaxContext + 1
    /\ owners = [c \in 1 .. next - 1 |-> owners[c]]
    /\ \A c \in 1 .. next - 1 : owners[c] \subseteq 1 .. next - 1
    /\ mapped \subseteq 1 .. next - 1

-----------------------------------------------------------------------------
(* libuv and the records: what libuv holds has its own record. *)
Runs(a) == \E t \in Pool : running[t] = a
Ends(a) == \E f \in finished : f.work = a

Placed ==
    /\ \A a \in queued : ~Runs(a) /\ ~Ends(a)
    /\ \A f \in finished : ~Runs(f.work)
    /\ \A t, u \in Pool : running[t] = running[u] /\ running[t] # Nothing => t = u
    /\ \A f, g \in finished : f.work = g.work => f = g

Recorded ==
    /\ records \in [DOMAIN records -> Context]
    /\ DOMAIN records = {a \in Addresses : a \in queued \/ Runs(a) \/ Ends(a)}
    /\ \A a \in DOMAIN records : /\ a \in DOMAIN meantFor /\ records[a].request = meantFor[a]
                                 /\ records[a].operation < operation
    /\ \A a, b \in DOMAIN records : records[a].operation = records[b].operation => a = b
    /\ \A t \in Pool :
          current[t] = IF running[t] = Nothing THEN Outside ELSE records[running[t]]

WorkTypes ==
    /\ operation \in Nat
    /\ queued \subseteq Addresses
    /\ running \in [Pool -> Addresses \cup {Nothing}]
    /\ finished \subseteq [work : Addresses, status : Statuses]

(* A done callback before its COMPLETE: the record is gone, its number not.  *)
Entered == frames # <<>> /\ frames[1].stage = "entered"
DoneInv == Entered => /\ frames[1].operation < operation
                      /\ \A a \in DOMAIN records :
                            records[a].operation # frames[1].operation

(* A process that came to its end has nothing left. *)
Idle == frames = <<>> /\ queued = {} /\ finished = {} /\ \A t \in Pool : running[t] = Nothing

BridgeInv ==
    /\ MainInv /\ ScriptInv
    /\ WorkTypes /\ Placed /\ Recorded /\ DoneInv
    /\ exit = "normal" => Idle

-----------------------------------------------------------------------------
(* The attributor beside the bridge, as long as nothing went wrong. *)
Life == [request : Contexts, started : BOOLEAN, finished : BOOLEAN, completed : BOOLEAN,
         status : {"none", "ok", "cancelled"}]

AttributorTypes ==
    /\ state = [t \in Tids |-> state[t]]
    /\ operations \in [DOMAIN operations -> Life]
    /\ DOMAIN runtimeSpans = {}
    /\ DOMAIN ipcJobs = {}
    /\ ipcActive = [t \in Tids |-> NoJob]

(* What the tables say of an operation under way: a pool thread began it, or *)
(* is through with it, and its done callback has not reported it.            *)
Through(a) == \E f \in finished : f.work = a /\ f.status = "ok"
Began(a) == Runs(a) \/ Through(a)

Tells(o, request, began, through) ==
    /\ o \in DOMAIN operations
    /\ operations[o].request = request
    /\ operations[o].started <=> began
    /\ operations[o].finished <=> through
    /\ ~operations[o].completed

Ran == frames[1].status = "ok"
Followed ==
    /\ \A t \in Threads : state[t].request = current[t].request
    /\ activeWork = [t \in Tids |-> IF t \in Pool /\ running[t] # Nothing
                                    THEN <<current[t].operation>> ELSE <<>>]
    /\ \A a \in DOMAIN records :
          Tells(records[a].operation, records[a].request, Began(a), Through(a))
    /\ Entered => Tells(frames[1].operation, current[Main].request, Ran, Ran)

(* An operation that nobody has any more went its way to the end. *)
Closed(o) == /\ operations[o].completed /\ operations[o].status \in Statuses
             /\ operations[o].started <=> operations[o].status = "ok"
             /\ operations[o].finished <=> operations[o].status = "ok"
Going(o) == \/ \E a \in DOMAIN records : records[a].operation = o
            \/ Entered /\ frames[1].operation = o
AllClosed == \A o \in DOMAIN operations : o \in Nat /\ o < operation /\ (Going(o) \/ Closed(o))

Clean == AttributorTypes /\ Followed /\ AllClosed /\ BoundToOwner /\ errors = {}

AttributionInv ==
    /\ BridgeInv
    /\ faults = {} => Clean
    /\ faults # {} => errors # {} \/ "unseen" \in faults

-----------------------------------------------------------------------------
(* Sequences with one element more, or one less. *)
LEMMA Appended ==
    ASSUME NEW S, NEW s \in Seq(S), NEW e \in S
    PROVE  /\ Append(s, e) \in Seq(S) /\ Append(s, e) # <<>>
           /\ Len(s) \in Nat /\ DOMAIN s = 1 .. Len(s)
           /\ Len(Append(s, e)) = Len(s) + 1 /\ DOMAIN Append(s, e) = 1 .. Len(s) + 1
           /\ Append(s, e)[Len(s) + 1] = e
           /\ \A i \in DOMAIN s : Append(s, e)[i] = s[i]
  OBVIOUS

LEMMA Fronted ==
    ASSUME NEW S, NEW s \in Seq(S), s # <<>>
    PROVE  /\ FrontOf(s) \in Seq(S) /\ Len(FrontOf(s)) = Len(s) - 1
           /\ Len(s) \in Nat \ {0} /\ DOMAIN s = 1 .. Len(s)
           /\ DOMAIN FrontOf(s) = 1 .. Len(s) - 1
           /\ \A i \in DOMAIN FrontOf(s) : FrontOf(s)[i] = s[i]
           /\ LastOf(s) = s[Len(s)] /\ LastOf(s) \in S
           /\ FrontOf(s) = <<>> <=> Len(s) = 1
  <1>1. /\ Len(s) \in Nat \ {0} /\ DOMAIN s = 1 .. Len(s) /\ s[Len(s)] \in S
    OBVIOUS
  <1>2. /\ FrontOf(s) \in Seq(S) /\ Len(FrontOf(s)) = Len(s) - 1
        /\ \A i \in 1 .. Len(s) - 1 : FrontOf(s)[i] = s[i]
    <2> DEFINE n == Len(s) - 1
    <2>1. n \in 0 .. Len(s)
      BY <1>1
    <2>2. /\ SubSeq(s, 1, n) \in Seq(S) /\ Len(SubSeq(s, 1, n)) = n
          /\ \A i \in 1 .. n : SubSeq(s, 1, n)[i] = s[i]
      <3>. HIDE DEF n
      <3>. QED  BY <2>1
    <2>. QED  BY <2>2 DEF FrontOf
  <1>3. DOMAIN FrontOf(s) = 1 .. Len(s) - 1
    BY <1>2
  <1>4. FrontOf(s) = <<>> <=> Len(s) = 1
    <2>1. \A u \in Seq(S) : u = <<>> <=> Len(u) = 0
      OBVIOUS
    <2>. QED  BY <1>1, <1>2, <2>1
  <1>. QED  BY <1>1, <1>2, <1>3, <1>4 DEF LastOf

LEMMA Single ==
    ASSUME NEW S, NEW e \in S
    PROVE  /\ <<e>> \in Seq(S) /\ DOMAIN <<e>> = {1} /\ <<e>>[1] = e
           /\ Len(<<e>>) = 1 /\ <<e>> # <<>>
  OBVIOUS

-----------------------------------------------------------------------------
(* A frame that is pushed stands on the one that was on top; the one that is *)
(* popped gives back the store below it.                                     *)
LEMMA PushNested ==
    ASSUME NEW s \in Seq(Frame), Nested(s), NEW f \in Frame,
           f.stage = "called", f.kind # "done",
           s = <<>> \/ LastOf(s).stage # "entered",
           f.kind \in {"parents", "without"} => f.saved.request = StoreOf(s),
           f.kind = "request" => StoreOf(s) = 0
    PROVE  /\ Append(s, f) \in Seq(Frame) /\ Nested(Append(s, f))
           /\ StoreOf(Append(s, f)) = f.store
           /\ Below(Append(s, f), Len(s) + 1) = StoreOf(s)
           /\ \A i \in DOMAIN s : Below(Append(s, f), i) = Below(s, i)
  <1> DEFINE u == Append(s, f)
             n == Len(s)
  <1>1. /\ u \in Seq(Frame) /\ u # <<>> /\ Len(u) = n + 1 /\ DOMAIN u = 1 .. n + 1
        /\ n \in Nat /\ DOMAIN s = 1 .. n
        /\ u[n + 1] = f /\ \A i \in 1 .. n : u[i] = s[i]
    BY Appended
  <1> HIDE DEF u
  <1>2. StoreOf(u) = f.store
    BY <1>1 DEF StoreOf, LastOf
  <1>3. Below(u, n + 1) = StoreOf(s)
    <2>1. CASE n = 0
      BY <1>1, <2>1 DEF Below, StoreOf
    <2>2. CASE n # 0
      BY <1>1, <2>2 DEF Below, StoreOf, LastOf
    <2>. QED  BY <2>1, <2>2
  <1>4. \A i \in 1 .. n : Below(u, i) = Below(s, i)
    BY <1>1 DEF Below
  <1>5. ASSUME NEW i \in 1 .. n PROVE s[i].stage # "entered"
    <2>1. s[n].stage # "entered"
      BY <1>1 DEF LastOf
    <2>. QED  BY <1>1, <2>1 DEF Nested
  <1>6. Nested(u)
    <2> SUFFICES ASSUME NEW i \in 1 .. n + 1
                 PROVE  /\ u[i].kind \in {"parents", "without", "done"} =>
                              u[i].saved.request = Below(u, i)
                        /\ u[i].kind = "request" => Below(u, i) = 0
                        /\ u[i].kind = "done" => i = 1
                        /\ u[i].kind # "done" => u[i].stage = "called"
                        /\ u[i].stage = "entered" => i = Len(u)
      BY <1>1 DEF Nested
    <2>1. CASE i \in 1 .. n
      BY <1>1, <1>4, <1>5, <2>1 DEF Nested
    <2>2. CASE i = n + 1
      BY <1>1, <1>3, <2>2
    <2>. QED  BY <1>1, <2>1, <2>2
  <1>. QED  BY <1>1, <1>2, <1>3, <1>4, <1>6 DEF u

LEMMA PopNested ==
    ASSUME NEW s \in Seq(Frame), Nested(s), s # <<>>
    PROVE  /\ FrontOf(s) \in Seq(Frame) /\ Nested(FrontOf(s))
           /\ StoreOf(FrontOf(s)) = Below(s, Len(s))
           /\ \A i \in DOMAIN FrontOf(s) : Below(FrontOf(s), i) = Below(s, i)
           /\ \A i \in DOMAIN FrontOf(s) : s[i].stage # "entered"
           /\ Below(s, Len(s)) \in Contexts \cup {0}
  <1> DEFINE u == FrontOf(s)
             n == Len(s)
  <1>1. /\ u \in Seq(Frame) /\ Len(u) = n - 1 /\ n \in Nat \ {0} /\ DOMAIN s = 1 .. n
        /\ DOMAIN u = 1 .. n - 1 /\ \A i \in 1 .. n - 1 : u[i] = s[i]
        /\ u = <<>> <=> n = 1
    BY Fronted
  <1> HIDE DEF u
  <1>2. StoreOf(u) = Below(s, n)
    BY <1>1 DEF StoreOf, LastOf, Below
  <1>3. \A i \in 1 .. n - 1 : Below(u, i) = Below(s, i)
    BY <1>1 DEF Below
  <1>4. \A i \in 1 .. n - 1 : s[i].stage # "entered"
    BY <1>1 DEF Nested
  <1>5. Nested(u)
    BY <1>1, <1>3, <1>4 DEF Nested
  <1>6. Below(s, n) \in Contexts \cup {0}
    <2>1. n # 1 => s[n - 1] \in Frame
      BY <1>1
    <2>. QED  BY <2>1 DEF Below, Frame
  <1>. QED  BY <1>1, <1>2, <1>3, <1>4, <1>5, <1>6 DEF u

(* The hooks go with the callbacks among the frames. *)
LEMMA PushHooked ==
    ASSUME NEW s \in Seq(Frame), NEW f \in Frame, NEW saved, Hooked(s, saved),
           f.kind # "callback",
           \A i \in DOMAIN s : Below(Append(s, f), i) = Below(s, i)
    PROVE  Hooked(Append(s, f), saved)
  <1>1. PICK at \in [DOMAIN saved -> DOMAIN s] : Matches(at, s, saved)
    BY DEF Hooked
  <1> DEFINE u == Append(s, f)
  <1>2. /\ DOMAIN u = 1 .. Len(s) + 1 /\ u[Len(s) + 1] = f /\ Len(s) \in Nat
        /\ DOMAIN s = 1 .. Len(s) /\ \A i \in DOMAIN s : u[i] = s[i]
    BY Appended
  <1>3. \A i \in DOMAIN s : Below(u, i) = Below(s, i)
    OBVIOUS
  <1> HIDE DEF u
  <1>4. at \in [DOMAIN saved -> DOMAIN u]
    BY <1>2
  <1>5. Matches(at, u, saved)
    BY <1>1, <1>2, <1>3 DEF Matches
  <1>. QED  BY <1>4, <1>5 DEF Hooked, u

LEMMA PushCallbackHooked ==
    ASSUME NEW s \in Seq(Frame), NEW f \in Frame, NEW saved \in Seq(Contexts),
           Hooked(s, saved), f.kind = "callback", NEW store \in Contexts,
           Below(Append(s, f), Len(s) + 1) = store,
           \A i \in DOMAIN s : Below(Append(s, f), i) = Below(s, i)
    PROVE  Hooked(Append(s, f), Append(saved, store))
  <1>1. PICK at \in [DOMAIN saved -> DOMAIN s] : Matches(at, s, saved)
    BY DEF Hooked
  <1> DEFINE u == Append(s, f)
             n == Len(s)
             more == Append(saved, store)
             m == Len(saved)
  <1>2. /\ DOMAIN u = 1 .. n + 1 /\ u[n + 1] = f /\ n \in Nat
        /\ DOMAIN s = 1 .. n /\ \A i \in 1 .. n : u[i] = s[i]
    BY Appended
  <1>3. /\ DOMAIN more = 1 .. m + 1 /\ more[m + 1] = store /\ m \in Nat
        /\ DOMAIN saved = 1 .. m /\ \A k \in 1 .. m : more[k] = saved[k]
    BY Appended
  <1>4. Below(u, n + 1) = store /\ \A i \in 1 .. n : Below(u, i) = Below(s, i)
    BY <1>2
  <1> HIDE DEF u, more, m, n
  <1> DEFINE at2 == [k \in 1 .. m + 1 |-> IF k = m + 1 THEN n + 1 ELSE at[k]]
  <1>5. /\ at2 \in [DOMAIN more -> DOMAIN u] /\ at2[m + 1] = n + 1
        /\ \A k \in 1 .. m : at2[k] = at[k] /\ at[k] \in 1 .. n
    <2>1. \A k \in 1 .. m : at[k] \in 1 .. n /\ k # m + 1 /\ k \in 1 .. m + 1
      BY <1>2, <1>3
    <2>2. \A k \in 1 .. m + 1 : k # m + 1 => k \in 1 .. m
      BY <1>3
    <2>3. m + 1 \in 1 .. m + 1 /\ n + 1 \in 1 .. n + 1 /\ \A i \in 1 .. n : i \in 1 .. n + 1
      BY <1>2, <1>3
    <2>. QED  BY <1>2, <1>3, <2>1, <2>2, <2>3
  <1> HIDE DEF at2
  <1>6. Matches(at2, u, more)
    <2>1. \A k, l \in 1 .. m + 1 : k < l => at2[k] < at2[l]
      <3> SUFFICES ASSUME NEW k \in 1 .. m + 1, NEW l \in 1 .. m + 1, k < l
                   PROVE  at2[k] < at2[l]
        OBVIOUS
      <3>1. k \in 1 .. m
        BY <1>3
      <3>2. CASE l = m + 1
        BY <1>2, <1>5, <3>1, <3>2
      <3>3. CASE l # m + 1
        <4>1. l \in 1 .. m
          BY <1>3, <3>3
        <4>. QED  BY <1>1, <1>3, <1>5, <3>1, <4>1 DEF Matches
      <3>. QED  BY <3>2, <3>3
    <2>2. ASSUME NEW i \in 1 .. n + 1, u[i].kind = "callback"
          PROVE  \E k \in 1 .. m + 1 : at2[k] = i
      <3>1. CASE i = n + 1
        BY <1>3, <1>5, <3>1
      <3>2. CASE i # n + 1
        <4>1. i \in 1 .. n /\ s[i].kind = "callback"
          BY <1>2, <2>2, <3>2
        <4>2. PICK k \in 1 .. m : at[k] = i
          BY <1>1, <1>2, <1>3, <4>1 DEF Matches
        <4>3. k \in 1 .. m + 1 /\ at2[k] = i
          BY <1>3, <1>5, <4>2
        <4>. QED  BY <4>3
      <3>. QED  BY <3>1, <3>2
    <2>3. ASSUME NEW k \in 1 .. m + 1
          PROVE  u[at2[k]].kind = "callback" /\ more[k] = Below(u, at2[k])
      <3>1. CASE k = m + 1
        BY <1>2, <1>3, <1>4, <1>5, <3>1
      <3>2. CASE k # m + 1
        <4>1. k \in 1 .. m /\ at2[k] = at[k] /\ at[k] \in 1 .. n
          BY <1>3, <1>5, <3>2
        <4>2. s[at[k]].kind = "callback" /\ saved[k] = Below(s, at[k])
          BY <1>1, <1>3, <4>1 DEF Matches
        <4>. QED  BY <1>2, <1>3, <1>4, <4>1, <4>2
      <3>. QED  BY <3>1, <3>2
    <2>. QED  BY <1>2, <1>3, <2>1, <2>2, <2>3 DEF Matches
  <1>. QED  BY <1>5, <1>6 DEF Hooked, u, more

LEMMA PopHooked ==
    ASSUME NEW s \in Seq(Frame), s # <<>>, NEW saved, Hooked(s, saved),
           LastOf(s).kind # "callback",
           \A i \in DOMAIN FrontOf(s) : Below(FrontOf(s), i) = Below(s, i)
    PROVE  Hooked(FrontOf(s), saved)
  <1>1. PICK at \in [DOMAIN saved -> DOMAIN s] : Matches(at, s, saved)
    BY DEF Hooked
  <1> DEFINE u == FrontOf(s)
             n == Len(s)
  <1>2. /\ DOMAIN u = 1 .. n - 1 /\ n \in Nat \ {0} /\ DOMAIN s = 1 .. n
        /\ \A i \in DOMAIN u : u[i] = s[i]
        /\ s[n].kind # "callback"
    BY Fronted
  <1>3. \A i \in DOMAIN u : Below(u, i) = Below(s, i)
    OBVIOUS
  <1> HIDE DEF u, n
  <1>4. \A k \in DOMAIN saved : at[k] \in 1 .. n - 1
    <2> TAKE k \in DOMAIN saved
    <2>1. at[k] \in 1 .. n /\ s[at[k]].kind = "callback"
      BY <1>1, <1>2 DEF Matches
    <2>. QED  BY <1>2, <2>1
  <1>5. at \in [DOMAIN saved -> DOMAIN u]
    BY <1>2, <1>4
  <1>6. \A i \in DOMAIN u : i \in DOMAIN s
    BY <1>2
  <1>7. Matches(at, u, saved)
    BY <1>1, <1>2, <1>3, <1>5, <1>6 DEF Matches
  <1>. QED  BY <1>5, <1>7 DEF Hooked, u

LEMMA PopCallbackHooked ==
    ASSUME NEW s \in Seq(Frame), s # <<>>, NEW saved \in Seq(Contexts), Hooked(s, saved),
           LastOf(s).kind = "callback",
           \A i \in DOMAIN FrontOf(s) : Below(FrontOf(s), i) = Below(s, i)
    PROVE  /\ saved # <<>> /\ LastOf(saved) = Below(s, Len(s))
           /\ Hooked(FrontOf(s), FrontOf(saved))
  <1>1. PICK at \in [DOMAIN saved -> DOMAIN s] : Matches(at, s, saved)
    BY DEF Hooked
  <1> DEFINE u == FrontOf(s)
             n == Len(s)
             m == Len(saved)
             less == FrontOf(saved)
  <1>2. /\ DOMAIN u = 1 .. n - 1 /\ n \in Nat \ {0} /\ DOMAIN s = 1 .. n
        /\ \A i \in DOMAIN u : u[i] = s[i]
        /\ s[n].kind = "callback"
    BY Fronted
  <1>3. \A i \in DOMAIN u : Below(u, i) = Below(s, i)
    OBVIOUS
  <1>4. PICK last \in DOMAIN saved : at[last] = n
    BY <1>1, <1>2 DEF Matches
  <1>5. /\ saved # <<>> /\ DOMAIN less = 1 .. m - 1 /\ m \in Nat \ {0}
        /\ DOMAIN saved = 1 .. m /\ \A k \in DOMAIN less : less[k] = saved[k]
        /\ LastOf(saved) = saved[m]
    <2>1. saved # <<>>
      BY <1>4
    <2>. QED  BY <2>1, Fronted
  <1> HIDE DEF u, n, m, less
  <1>6. \A k \in 1 .. m : at[k] \in 1 .. n
    BY <1>2, <1>5
  <1>7. last = m
    <2> SUFFICES ASSUME last # m PROVE FALSE
      OBVIOUS
    <2>1. last \in 1 .. m /\ m \in 1 .. m /\ last < m
      BY <1>4, <1>5
    <2>2. at[last] < at[m]
      BY <1>1, <1>5, <2>1 DEF Matches
    <2>. QED  BY <1>2, <1>4, <1>6, <2>1, <2>2
  <1>8. \A k \in 1 .. m - 1 : at[k] \in 1 .. n - 1
    <2> TAKE k \in 1 .. m - 1
    <2>1. k \in 1 .. m /\ m \in 1 .. m /\ k < m
      BY <1>5
    <2>2. at[k] < at[m]
      BY <1>1, <1>5, <2>1 DEF Matches
    <2>. QED  BY <1>2, <1>4, <1>6, <1>7, <2>1, <2>2
  <1> DEFINE at2 == [k \in 1 .. m - 1 |-> at[k]]
  <1>9. at2 \in [DOMAIN less -> DOMAIN u] /\ \A k \in 1 .. m - 1 : at2[k] = at[k]
    BY <1>2, <1>5, <1>8
  <1> HIDE DEF at2
  <1>10. Matches(at2, u, less)
    <2>1. \A k \in DOMAIN less : k \in DOMAIN saved
      BY <1>5
    <2>2. \A k, l \in DOMAIN less : k < l => at2[k] < at2[l]
      BY <1>1, <1>5, <1>9, <2>1 DEF Matches
    <2>3. ASSUME NEW i \in DOMAIN u, u[i].kind = "callback"
          PROVE  \E k \in DOMAIN less : at2[k] = i
      <3>1. i \in 1 .. n /\ i # n /\ s[i].kind = "callback"
        BY <1>2, <2>3
      <3>2. PICK k \in DOMAIN saved : at[k] = i
        BY <1>1, <1>2, <3>1 DEF Matches
      <3>3. k # m
        BY <1>4, <1>7, <3>1, <3>2
      <3>4. k \in DOMAIN less
        BY <1>5, <3>2, <3>3
      <3>. QED  BY <1>5, <1>9, <3>2, <3>4
    <2>4. \A k \in DOMAIN less : u[at2[k]].kind = "callback" /\ less[k] = Below(u, at2[k])
      <3> TAKE k \in DOMAIN less
      <3>1. /\ at2[k] = at[k] /\ at[k] \in DOMAIN u /\ k \in DOMAIN saved
            /\ less[k] = saved[k]
        BY <1>2, <1>5, <1>8, <1>9, <2>1
      <3>2. s[at[k]].kind = "callback" /\ saved[k] = Below(s, at[k])
        BY <1>1, <3>1 DEF Matches
      <3>. QED  BY <1>2, <1>3, <3>1, <3>2
    <2>. QED  BY <2>2, <2>3, <2>4 DEF Matches
  <1>11. LastOf(saved) = Below(s, n)
    BY <1>1, <1>4, <1>5, <1>7 DEF Matches
  <1>. QED  BY <1>5, <1>9, <1>10, <1>11 DEF Hooked, u, n, less

(* The frame of a done call stands alone; its stage is no matter of hooks.   *)
LEMMA ReplaceDone ==
    ASSUME NEW s \in Seq(Frame), Nested(s), s # <<>>, LastOf(s).kind = "done",
           NEW saved, Hooked(s, saved), NEW g \in Frame, g.kind = "done",
           g.store = LastOf(s).store, g.saved = LastOf(s).saved
    PROVE  /\ s = <<LastOf(s)>> /\ Len(s) = 1 /\ s[1] = LastOf(s)
           /\ <<g>> \in Seq(Frame) /\ Nested(<<g>>) /\ Hooked(<<g>>, saved)
           /\ StoreOf(<<g>>) = StoreOf(s)
  <1>1. /\ Len(s) = 1 /\ LastOf(s) = s[1] /\ DOMAIN s = 1 .. 1
    <2>1. Len(s) \in Nat \ {0} /\ DOMAIN s = 1 .. Len(s) /\ LastOf(s) = s[Len(s)]
      BY Fronted
    <2>2. Len(s) \in DOMAIN s
      BY <2>1
    <2>3. Len(s) = 1
      BY <2>1, <2>2 DEF Nested
    <2>. QED  BY <2>1, <2>3
  <1>2. s = <<LastOf(s)>>
    BY <1>1
  <1> DEFINE u == <<g>>
  <1>3. u \in Seq(Frame) /\ DOMAIN u = {1} /\ u[1] = g /\ Len(u) = 1 /\ u # <<>>
    BY Single
  <1> HIDE DEF u
  <1>4. Nested(u)
    BY <1>1, <1>3 DEF Nested, Below
  <1>5. StoreOf(u) = StoreOf(s)
    BY <1>1, <1>3 DEF StoreOf, LastOf
  <1>6. Hooked(u, saved)
    <2>1. PICK at \in [DOMAIN saved -> DOMAIN s] : Matches(at, s, saved)
      BY DEF Hooked
    <2>2. at \in [DOMAIN saved -> DOMAIN u]
      BY <1>1, <1>3, <2>1
    <2>3. Matches(at, u, saved)
      BY <1>1, <1>3, <2>1, <2>2 DEF Matches
    <2>. QED  BY <2>2, <2>3 DEF Hooked
  <1>. QED  BY <1>1, <1>2, <1>3, <1>4, <1>5, <1>6 DEF u

-----------------------------------------------------------------------------
(* The native context of the main thread, when a frame comes or goes. *)
LEMMA ContextSet ==
    ASSUME current \in [Threads -> Context], NEW r \in Contexts, NativeContext(r)
    PROVE  /\ current' \in [Threads -> Context]
           /\ current'[Main].request = r
           /\ \A t \in Pool : current'[t] = current[t]
  <1> DEFINE wanted == [request |-> r, operation |-> 0]
  <1>1. wanted \in Context /\ Main \in Threads /\ Main \notin Pool /\ Pool \subseteq Threads
    BY BridgeAssumption DEF Context, Threads
  <1>2. CASE current[Main] = wanted /\ UNCHANGED current
    BY <1>2
  <1>3. CASE current' = [current EXCEPT ![Main] = wanted]
    <2> HIDE DEF wanted
    <2>1. current'[Main] = wanted /\ \A t \in Pool : current'[t] = current[t]
      BY <1>1, <1>3
    <2>2. current' \in [Threads -> Context]
      BY <1>1, <1>3
    <2>. QED  BY <2>1, <2>2 DEF wanted
  <1>. QED  BY <1>2, <1>3 DEF NativeContext, SetContext

LEMMA StoreIs == Store = StoreOf(frames)
  BY DEF Store, StoreOf, Top

LEMMA EnterFrame ==
    ASSUME MainInv, NEW f \in Frame, f.stage = "called", f.kind # "done",
           NativeContext(f.store), frames' = Append(frames, f),
           hooks' = IF f.kind = "callback" THEN Append(hooks, current[Main].request)
                    ELSE hooks,
           frames = <<>> \/ Top.stage # "entered",
           f.kind \in {"parents", "without"} => f.saved.request = Store,
           f.kind = "request" => Store = 0,
           waiting' \in [DOMAIN waiting' -> Contexts]
    PROVE  MainInv' /\ \A t \in Pool : current'[t] = current[t]
  <1>1. /\ frames \in Seq(Frame) /\ hooks \in Seq(Contexts) /\ Nested(frames)
        /\ Hooked(frames, hooks) /\ current \in [Threads -> Context]
        /\ current[Main].request = StoreOf(frames) /\ StoreOf(frames) \in Contexts
    <2>1. Main \in Threads
      BY DEF Threads
    <2>. QED  BY <2>1, StoreIs DEF MainInv, Context
  <1>2. /\ current' \in [Threads -> Context] /\ current'[Main].request = f.store
        /\ \A t \in Pool : current'[t] = current[t]
    <2>1. f.store \in Contexts
      BY DEF Frame
    <2>. QED  BY <1>1, <2>1, ContextSet
  <1>3. /\ Append(frames, f) \in Seq(Frame) /\ Nested(Append(frames, f))
        /\ StoreOf(Append(frames, f)) = f.store
        /\ Below(Append(frames, f), Len(frames) + 1) = StoreOf(frames)
        /\ \A i \in DOMAIN frames : Below(Append(frames, f), i) = Below(frames, i)
    BY <1>1, StoreIs, PushNested DEF Top
  <1>4. Hooked(frames', hooks') /\ hooks' \in Seq(Contexts)
    <2>1. CASE f.kind = "callback"
      <3>1. hooks' = Append(hooks, StoreOf(frames))
        BY <1>1, <2>1
      <3>. QED  BY <1>1, <1>3, <2>1, <3>1, PushCallbackHooked, Appended
    <2>2. CASE f.kind # "callback"
      BY <1>1, <1>3, <2>2, PushHooked
    <2>. QED  BY <2>1, <2>2
  <1>5. Store' = StoreOf(frames')
    BY DEF Store, StoreOf, Top
  <1>. QED  BY <1>2, <1>3, <1>4, <1>5 DEF MainInv

LEMMA LeaveFrame ==
    ASSUME MainInv, frames # <<>>, frames' = FrontOf(frames),
           current' \in [Threads -> Context],
           current'[Main].request = Below(frames, Len(frames)),
           hooks' = IF Top.kind = "callback" THEN FrontOf(hooks) ELSE hooks,
           UNCHANGED waiting
    PROVE  MainInv'
  <1>1. /\ frames \in Seq(Frame) /\ hooks \in Seq(Contexts) /\ Nested(frames)
        /\ Hooked(frames, hooks)
    BY DEF MainInv
  <1>2. /\ FrontOf(frames) \in Seq(Frame) /\ Nested(FrontOf(frames))
        /\ StoreOf(FrontOf(frames)) = Below(frames, Len(frames))
        /\ \A i \in DOMAIN FrontOf(frames) : Below(FrontOf(frames), i) = Below(frames, i)
    BY <1>1, PopNested
  <1>3. Hooked(frames', hooks') /\ hooks' \in Seq(Contexts)
    <2>1. CASE Top.kind = "callback"
      BY <1>1, <1>2, <2>1, PopCallbackHooked, Fronted DEF Top
    <2>2. CASE Top.kind # "callback"
      BY <1>1, <1>2, <2>2, PopHooked DEF Top
    <2>. QED  BY <2>1, <2>2
  <1>4. Store' = StoreOf(frames')
    BY DEF Store, StoreOf, Top
  <1>5. waiting' \in [DOMAIN waiting' -> Contexts]
    BY DEF MainInv
  <1>. QED  BY <1>2, <1>3, <1>4, <1>5 DEF MainInv

-----------------------------------------------------------------------------
(* Steps of JavaScript leave libuv and its records alone. *)
Apart == /\ UNCHANGED workVars /\ UNCHANGED exit
         /\ \A t \in Pool : current'[t] = current[t]
Scripts == UNCHANGED scriptVars

LEMMA ScriptStays == ASSUME ScriptInv, Scripts PROVE ScriptInv'
  BY DEF ScriptInv, Scripts, scriptVars

LEMMA ApartStep ==
    ASSUME BridgeInv, exit = "no", Apart, MainInv', ScriptInv',
           Entered' => Entered /\ frames'[1].operation = frames[1].operation
    PROVE  BridgeInv'
  <1> USE DEF Apart, workVars
  <1>1. WorkTypes'
    BY DEF BridgeInv, WorkTypes
  <1>2. (\A a : Runs(a)' <=> Runs(a)) /\ (\A a : Ends(a)' <=> Ends(a))
    BY DEF Runs, Ends
  <1>3. Placed'
    BY <1>2 DEF BridgeInv, Placed
  <1>4. Recorded'
    BY <1>2 DEF BridgeInv, Recorded
  <1>5. DoneInv'
    BY DEF BridgeInv, DoneInv
  <1>. QED  BY <1>1, <1>3, <1>4, <1>5 DEF BridgeInv

LEMMA NewFrameTyped ==
    ASSUME NEW kind \in Javascript, NEW store \in Contexts, NEW saved \in Context
    PROVE  /\ NewFrame(kind, store, saved) \in Frame
           /\ NewFrame(kind, store, saved).kind = kind
           /\ NewFrame(kind, store, saved).store = store
           /\ NewFrame(kind, store, saved).saved = saved
           /\ NewFrame(kind, store, saved).stage = "called"
  BY DEF NewFrame, Frame, Statuses

LEMMA KindsApart == "done" \notin Javascript /\ "callback" \in Javascript
  BY DEF Javascript

LEMMA OutsideTyped == Outside \in Context /\ 0 \in Contexts /\ Outside.request = 0
  BY BridgeAssumption DEF Outside, Context, Contexts

(* One frame more, with the store and the saved context it is given. *)
LEMMA Enters ==
    ASSUME BridgeInv, exit = "no", NEW kind \in Javascript, NEW store \in Contexts,
           NEW saved \in Context, NativeContext(store), Push(NewFrame(kind, store, saved)),
           hooks' = IF kind = "callback" THEN Append(hooks, current[Main].request)
                    ELSE hooks,
           frames = <<>> \/ Top.stage # "entered",
           kind \in {"parents", "without"} => saved.request = Store,
           kind = "request" => Store = 0,
           waiting' \in [DOMAIN waiting' -> Contexts],
           ScriptInv', UNCHANGED workVars, UNCHANGED exit
    PROVE  BridgeInv'
  <1> DEFINE f == NewFrame(kind, store, saved)
  <1>1. /\ f \in Frame /\ f.kind = kind /\ f.store = store /\ f.saved = saved
        /\ f.stage = "called" /\ f.kind # "done"
    BY NewFrameTyped, KindsApart
  <1>2. frames' = Append(frames, f) /\ MainInv
    BY DEF Push, BridgeInv
  <1> HIDE DEF f
  <1>3. MainInv' /\ \A t \in Pool : current'[t] = current[t]
    BY <1>1, <1>2, EnterFrame
  <1>4. ~Entered'
    <2>1. frames \in Seq(Frame) /\ Nested(frames)
      BY <1>2 DEF MainInv
    <2>2. CASE frames = <<>>
      BY <1>1, <1>2, <2>2 DEF Entered
    <2>3. CASE frames # <<>>
      <3>1. /\ Len(frames) \in Nat \ {0} /\ DOMAIN frames = 1 .. Len(frames)
            /\ Top = frames[Len(frames)] /\ frames'[1] = frames[1]
        <4>1. /\ Len(frames) \in Nat \ {0} /\ DOMAIN frames = 1 .. Len(frames)
              /\ Top = frames[Len(frames)]
          BY <2>1, <2>3, Fronted DEF Top
        <4>2. 1 \in DOMAIN frames
          BY <4>1
        <4>3. \A i \in DOMAIN frames : Append(frames, f)[i] = frames[i]
          BY <1>1, <2>1, Appended
        <4>. QED  BY <1>2, <4>1, <4>2, <4>3
      <3>2. frames[1].stage = "entered" => 1 = Len(frames)
        BY <2>1, <3>1 DEF Nested
      <3>. QED  BY <2>3, <3>1, <3>2 DEF Entered
    <2>. QED  BY <2>2, <2>3
  <1>. QED  BY <1>3, <1>4, ApartStep DEF Apart

(* One frame less. *)
LEMMA Leaves ==
    ASSUME BridgeInv, exit = "no", frames # <<>>, frames' = FrontOf(frames),
           current' \in [Threads -> Context],
           current'[Main].request = Below(frames, Len(frames)),
           \A t \in Pool : current'[t] = current[t],
           hooks' = IF Top.kind = "callback" THEN FrontOf(hooks) ELSE hooks,
           UNCHANGED <<workVars, scriptVars, waiting, exit>>
    PROVE  BridgeInv'
  <1>1. MainInv'
    BY LeaveFrame DEF BridgeInv
  <1>2. ~Entered'
    <2>1. frames \in Seq(Frame) /\ Nested(frames)
      BY DEF BridgeInv, MainInv
    <2>2. /\ DOMAIN frames' = 1 .. Len(frames) - 1 /\ Len(frames) \in Nat \ {0}
          /\ DOMAIN frames = 1 .. Len(frames)
          /\ \A i \in DOMAIN frames' : frames'[i] = frames[i]
          /\ frames' = <<>> <=> Len(frames) = 1
      BY <2>1, Fronted
    <2>3. CASE frames' = <<>>
      BY <2>3 DEF Entered
    <2>4. CASE frames' # <<>>
      <3>1. 1 \in DOMAIN frames /\ 1 \in DOMAIN frames' /\ 1 # Len(frames)
        BY <2>2, <2>4
      <3>. QED  BY <2>1, <2>2, <3>1 DEF Entered, Nested
    <2>. QED  BY <2>3, <2>4
  <1>3. ScriptInv'
    BY ScriptStays DEF BridgeInv, Scripts
  <1>. QED  BY <1>1, <1>2, <1>3, ApartStep DEF Apart

(* Nothing happens to the main thread's frames and to libuv. *)
LEMMA Rests ==
    ASSUME BridgeInv, exit = "no", UNCHANGED <<current, frames, hooks>>,
           waiting' \in [DOMAIN waiting' -> Contexts],
           ScriptInv', UNCHANGED <<workVars, exit>>
    PROVE  BridgeInv'
  <1>1. Store' = Store
    BY DEF Store, Top
  <1>2. MainInv'
    BY <1>1 DEF BridgeInv, MainInv
  <1>. QED  BY <1>2, ApartStep DEF Apart, Entered

LEMMA StoreTyped ==
    ASSUME BridgeInv
    PROVE  /\ Store \in Contexts /\ current[Main].request = Store
           /\ current[Main] \in Context /\ StoreOf(frames) = Store
           /\ waiting \in [DOMAIN waiting -> Contexts]
           /\ frames \in Seq(Frame) /\ hooks \in Seq(Contexts)
           /\ Nested(frames) /\ Hooked(frames, hooks)
           /\ current \in [Threads -> Context]
  <1>1. Main \in Threads
    BY DEF Threads
  <1>. QED  BY <1>1, StoreIs DEF BridgeInv, MainInv, Context

LEMMA InFrameTop ==
    ASSUME BridgeInv, NEW kinds, InFrame(kinds)
    PROVE  /\ exit = "no" /\ frames # <<>> /\ Top.kind \in kinds
           /\ Len(frames) \in DOMAIN frames /\ Top = frames[Len(frames)] /\ Top \in Frame
           /\ Top.kind # "done" => Top.stage = "called"
           /\ Below(frames, Len(frames)) \in Contexts
  <1>1. /\ frames \in Seq(Frame) /\ Nested(frames) /\ frames # <<>>
        /\ exit = "no" /\ Top.kind \in kinds
    BY StoreTyped DEF InFrame
  <1>2. /\ Len(frames) \in Nat \ {0} /\ DOMAIN frames = 1 .. Len(frames)
        /\ Top = frames[Len(frames)] /\ Top \in Frame
    BY <1>1, Fronted DEF Top
  <1>3. Len(frames) \in DOMAIN frames
    BY <1>2
  <1>4. Below(frames, Len(frames)) \in Contexts \cup {0}
    BY <1>1, PopNested
  <1>. QED  BY <1>1, <1>2, <1>3, <1>4, OutsideTyped DEF Nested

-----------------------------------------------------------------------------
(* The operations of the bridge, one by one. *)
LEMMA BeforeBridge ==
    ASSUME BridgeInv, exit = "no", NEW store \in Contexts, Before(store),
           frames = <<>> \/ Top.stage # "entered",
           waiting' \in [DOMAIN waiting' -> Contexts]
    PROVE  BridgeInv'
  <1>1. ScriptInv'
    BY ScriptStays DEF Before, BridgeInv, Scripts
  <1>2. /\ NativeContext(store) /\ Push(NewFrame("callback", store, Outside))
        /\ hooks' = Append(hooks, current[Main].request)
        /\ UNCHANGED workVars /\ UNCHANGED exit
    BY DEF Before
  <1>. QED  BY <1>1, <1>2, Enters, OutsideTyped, KindsApart

LEMMA ReceiveBridge == ASSUME BridgeInv, Receive PROVE BridgeInv'
  <1>1. exit = "no" /\ frames = <<>> /\ Before(0) /\ waiting' = waiting
    BY DEF Receive
  <1>. QED  BY <1>1, BeforeBridge, OutsideTyped, StoreTyped

LEMMA RunCallbackBridge ==
    ASSUME BridgeInv, NEW c \in Callbacks, RunCallback(c) PROVE BridgeInv'
  <1>1. /\ exit = "no" /\ c \in DOMAIN waiting /\ Before(waiting[c])
        /\ frames = <<>> \/ Top.stage # "entered"
        /\ waiting' = [y \in DOMAIN waiting \ {c} |-> waiting[y]]
    BY DEF RunCallback, Without
  <1>2. waiting[c] \in Contexts /\ waiting' \in [DOMAIN waiting' -> Contexts]
    BY <1>1, StoreTyped
  <1>. QED  BY <1>1, <1>2, BeforeBridge

LEMMA DeferBridge ==
    ASSUME BridgeInv, NEW c \in Callbacks, Defer(c) PROVE BridgeInv'
  <1>1. /\ exit = "no" /\ UNCHANGED <<current, frames, hooks>>
        /\ UNCHANGED workVars /\ UNCHANGED exit /\ UNCHANGED scriptVars
        /\ waiting' = [y \in DOMAIN waiting \cup {c} |-> IF y = c THEN Store ELSE waiting[y]]
    BY DEF Defer, InFrame, Extend
  <1>2. waiting' \in [DOMAIN waiting' -> Contexts]
    BY <1>1, StoreTyped
  <1>3. ScriptInv'
    BY <1>1, ScriptStays DEF BridgeInv, Scripts
  <1>. QED  BY <1>1, <1>2, <1>3, Rests

LEMMA AfterBridge == ASSUME BridgeInv, After PROVE BridgeInv'
  <1>1. /\ InFrame({"callback"})
        /\ NativeContext(IF hooks = <<>> THEN 0 ELSE LastOf(hooks))
        /\ hooks' = IF hooks = <<>> THEN hooks ELSE FrontOf(hooks)
        /\ frames' = FrontOf(frames)
        /\ UNCHANGED <<workVars, scriptVars, waiting, exit>>
    BY DEF After, Pop
  <1>2. /\ exit = "no" /\ frames # <<>> /\ Top.kind = "callback"
        /\ Below(frames, Len(frames)) \in Contexts
    BY <1>1, InFrameTop
  <1>3. hooks # <<>> /\ LastOf(hooks) = Below(frames, Len(frames))
    <2>1. /\ frames \in Seq(Frame) /\ hooks \in Seq(Contexts) /\ Nested(frames)
          /\ Hooked(frames, hooks) /\ LastOf(frames).kind = "callback"
      BY <1>2, StoreTyped DEF Top
    <2>2. \A i \in DOMAIN FrontOf(frames) : Below(FrontOf(frames), i) = Below(frames, i)
      BY <1>2, <2>1, PopNested
    <2>. QED  BY <1>2, <2>1, <2>2, PopCallbackHooked
  <1>4. /\ current' \in [Threads -> Context]
        /\ current'[Main].request = Below(frames, Len(frames))
        /\ \A t \in Pool : current'[t] = current[t]
    BY <1>1, <1>2, <1>3, StoreTyped, ContextSet
  <1>. QED  BY <1>1, <1>2, <1>3, <1>4, Leaves

LEMMA EndRequestBridge == ASSUME BridgeInv, EndRequest PROVE BridgeInv'
  <1>1. /\ InFrame({"request"}) /\ NativeContext(0) /\ frames' = FrontOf(frames)
        /\ UNCHANGED <<workVars, scriptVars, hooks, waiting, exit>>
    BY DEF EndRequest, Pop
  <1>2. /\ exit = "no" /\ frames # <<>> /\ Top.kind = "request"
        /\ Below(frames, Len(frames)) = 0
    BY <1>1, InFrameTop, StoreTyped DEF Nested
  <1>3. /\ current' \in [Threads -> Context] /\ current'[Main].request = 0
        /\ \A t \in Pool : current'[t] = current[t]
    BY <1>1, StoreTyped, OutsideTyped, ContextSet
  <1>. QED  BY <1>1, <1>2, <1>3, Leaves

LEMMA EndScopeBridge == ASSUME BridgeInv, EndScope PROVE BridgeInv'
  <1>1. /\ InFrame({"parents", "without"}) /\ NativeContext(Top.saved.request)
        /\ frames' = FrontOf(frames)
        /\ UNCHANGED <<workVars, scriptVars, hooks, waiting, exit>>
    BY DEF EndScope, Pop
  <1>2. /\ exit = "no" /\ frames # <<>> /\ Top.kind \in {"parents", "without"}
        /\ Top.saved.request = Below(frames, Len(frames))
        /\ Below(frames, Len(frames)) \in Contexts
    BY <1>1, InFrameTop, StoreTyped DEF Nested
  <1>3. /\ current' \in [Threads -> Context]
        /\ current'[Main].request = Below(frames, Len(frames))
        /\ \A t \in Pool : current'[t] = current[t]
    BY <1>1, <1>2, StoreTyped, ContextSet
  <1>. QED  BY <1>1, <1>2, <1>3, Leaves

LEMMA WithoutRequestBridge == ASSUME BridgeInv, WithoutRequest PROVE BridgeInv'
  <1> DEFINE saved == [request |-> Store, operation |-> 0]
  <1>1. /\ InFrame(Javascript) /\ NativeContext(0)
        /\ Push(NewFrame("without", 0, saved))
        /\ UNCHANGED workVars /\ UNCHANGED scriptVars /\ UNCHANGED <<hooks, waiting, exit>>
    BY DEF WithoutRequest
  <1>2. exit = "no" /\ Top.stage # "entered"
    BY <1>1, InFrameTop, KindsApart
  <1>3. saved \in Context /\ saved.request = Store
    BY StoreTyped DEF Context
  <1>4. "without" \in Javascript /\ ScriptInv'
    BY <1>1, ScriptStays DEF Javascript, BridgeInv, Scripts
  <1> HIDE DEF saved
  <1>. QED  BY <1>1, <1>2, <1>3, <1>4, StoreTyped, OutsideTyped, Enters

(* A context is numbered, and has a row if the write succeeds. *)
LEMMA NumberScript ==
    ASSUME ScriptInv, next <= MaxContext, NEW roots, Number(roots),
           roots \subseteq 1 .. next, mapped' \subseteq mapped \cup {next}
    PROVE  ScriptInv' /\ next \in Contexts
  <1>1. /\ next \in Nat \ {0} /\ next' = next + 1 /\ next' \in 1 .. MaxContext + 1
        /\ next \in Contexts
    BY BridgeAssumption DEF ScriptInv, Number, Contexts
  <1>2. /\ 1 .. next' - 1 = (1 .. next - 1) \cup {next} /\ next \notin 1 .. next - 1
        /\ 1 .. next' - 1 = 1 .. next
    BY <1>1
  <1>3. DOMAIN owners = 1 .. next - 1
    BY DEF ScriptInv
  <1>4. owners' = [c \in 1 .. next' - 1 |-> IF c = next THEN roots ELSE owners[c]]
    BY <1>2, <1>3 DEF Number, Extend
  <1>5. owners' = [c \in 1 .. next' - 1 |-> owners'[c]]
    BY <1>4
  <1>6. \A c \in 1 .. next' - 1 : owners'[c] \subseteq 1 .. next' - 1
    BY <1>2, <1>4 DEF ScriptInv
  <1>7. mapped' \subseteq 1 .. next' - 1
    BY <1>2 DEF ScriptInv
  <1>. QED  BY <1>1, <1>5, <1>6, <1>7 DEF ScriptInv

LEMMA OnRequestBridge == ASSUME BridgeInv, OnRequest PROVE BridgeInv'
  <1>1. /\ InFrame({"callback"}) /\ Store = 0 /\ next <= MaxContext /\ Number({next})
        /\ UNCHANGED workVars /\ UNCHANGED <<hooks, waiting, exit>>
        /\ mapped' \subseteq mapped \cup {next}
        /\ \/ NativeContext(next) /\ Push(NewFrame("request", next, Outside))
           \/ UNCHANGED <<current, frames>>
    BY DEF OnRequest
  <1>2. exit = "no" /\ Top.stage # "entered"
    BY <1>1, InFrameTop
  <1>3. ScriptInv' /\ next \in Contexts
    <2>1. {next} \subseteq 1 .. next /\ ScriptInv
      BY DEF BridgeInv, ScriptInv
    <2>. QED  BY <1>1, <2>1, NumberScript
  <1>4. waiting' \in [DOMAIN waiting' -> Contexts]
    BY <1>1, StoreTyped
  <1>5. CASE NativeContext(next) /\ Push(NewFrame("request", next, Outside))
    <2>1. "request" \in Javascript
      BY DEF Javascript
    <2>. QED  BY <1>1, <1>2, <1>3, <1>4, <1>5, <2>1, OutsideTyped, Enters
  <1>6. CASE UNCHANGED <<current, frames>>
    BY <1>1, <1>2, <1>3, <1>4, <1>6, Rests
  <1>. QED  BY <1>1, <1>5, <1>6

LEMMA RootsTyped ==
    ASSUME ScriptInv, NEW parents \in SUBSET mapped
    PROVE  /\ RootsOf(parents) \subseteq 1 .. next - 1
           /\ RootsOf(parents) \subseteq Contexts
  <1>1. RootsOf(parents) \subseteq 1 .. next - 1
    BY DEF ScriptInv, RootsOf
  <1>2. 1 .. next - 1 \subseteq Contexts
    BY BridgeAssumption DEF ScriptInv, Contexts
  <1>. QED  BY <1>1, <1>2

LEMMA WithParentsBridge ==
    ASSUME BridgeInv, NEW parents \in SUBSET mapped, WithParents(parents) PROVE BridgeInv'
  <1> DEFINE roots == RootsOf(parents)
             one == CHOOSE root \in roots : TRUE
             Scope(context) == /\ NativeContext(context)
                               /\ Push(NewFrame("parents", context, current[Main]))
  <1>1. /\ InFrame(Javascript)
        /\ UNCHANGED workVars /\ UNCHANGED <<hooks, waiting, exit>>
        /\ \/ Cardinality(roots) = 1 /\ Scope(one) /\ UNCHANGED scriptVars
           \/ /\ next <= MaxContext /\ Number(roots)
              /\ \/ mapped' = mapped \cup {next} /\ Scope(next)
                 \/ mapped' = mapped /\ UNCHANGED <<current, frames>>
    BY DEF WithParents
  <1>2. exit = "no" /\ Top.stage # "entered" /\ "parents" \in Javascript
    BY <1>1, InFrameTop, KindsApart DEF Javascript
  <1>3. roots \subseteq 1 .. next - 1 /\ roots \subseteq Contexts
    BY RootsTyped DEF BridgeInv
  <1> HIDE DEF roots
  <1>4. ASSUME NEW context \in Contexts, Scope(context), ScriptInv' PROVE BridgeInv'
    BY <1>1, <1>2, <1>4, StoreTyped, Enters
  <1>5. CASE Cardinality(roots) = 1 /\ Scope(one) /\ UNCHANGED scriptVars
    <2>1. roots # {}
      BY <1>5, FS_EmptySet
    <2>2. one \in Contexts
      BY <1>3, <2>1
    <2>3. ScriptInv'
      BY <1>5, ScriptStays DEF BridgeInv, Scripts
    <2> HIDE DEF one
    <2>. QED  BY <1>4, <1>5, <2>2, <2>3
  <1>6. CASE next <= MaxContext /\ Number(roots) /\ mapped' \subseteq mapped \cup {next}
    <2>1. ScriptInv' /\ next \in Contexts
      <3>1. ScriptInv /\ roots \subseteq 1 .. next
        BY <1>3 DEF BridgeInv, ScriptInv
      <3>. QED  BY <1>6, <3>1, NumberScript
    <2>2. CASE Scope(next)
      BY <1>4, <2>1, <2>2
    <2>3. CASE UNCHANGED <<current, frames>>
      <3>1. waiting' \in [DOMAIN waiting' -> Contexts]
        BY <1>1, StoreTyped
      <3>. QED  BY <1>1, <1>2, <2>1, <2>3, <3>1, Rests
    <2>4. CASE Cardinality(roots) = 1 /\ Scope(one) /\ UNCHANGED scriptVars
      BY <1>5, <2>4
    <2>. QED  BY <1>1, <2>2, <2>3, <2>4
  <1>. QED  BY <1>1, <1>5, <1>6

-----------------------------------------------------------------------------
(* libuv takes work, runs it and calls back. *)
LEMMA ContextFor ==
    ASSUME current \in [Threads -> Context], NEW t \in Threads, NEW context \in Context,
           NEW kind, SetContext(t, context, kind)
    PROVE  /\ current' \in [Threads -> Context] /\ current'[t] = context
           /\ \A u \in Threads \ {t} : current'[u] = current[u]
  BY DEF SetContext

LEMMA ThreadsApart == /\ Main \in Threads /\ Main \notin Pool
                      /\ Pool \subseteq Threads /\ Pool = Threads \ {Main}
  BY BridgeAssumption DEF Threads

(* What libuv holds has a record; what it does not hold has none. *)
LEMMA HeldHere ==
    ASSUME BridgeInv
    PROVE  /\ DOMAIN records \subseteq Addresses
           /\ \A a \in queued : a \in DOMAIN records /\ a \in Addresses
           /\ \A t \in Pool : running[t] # Nothing =>
                 running[t] \in DOMAIN records /\ running[t] \in Addresses
           /\ \A f \in finished : /\ f.work \in DOMAIN records /\ f.work \in Addresses
                                  /\ f.status \in Statuses
           /\ \A a \in DOMAIN records : records[a] \in Context
  BY DEF BridgeInv, WorkTypes, Recorded, Runs, Ends

LEMMA MainStays ==
    ASSUME MainInv, UNCHANGED <<frames, hooks, waiting>>,
           current' \in [Threads -> Context], current'[Main] = current[Main]
    PROVE  MainInv'
  <1>1. Store' = Store
    BY DEF Store, Top
  <1>. QED  BY <1>1 DEF MainInv

LEMMA SubmitBridge ==
    ASSUME BridgeInv, NEW a \in Addresses, Submit(a) PROVE BridgeInv'
  <1> DEFINE record == [request |-> current[Main].request, operation |-> operation]
  <1>1. /\ exit = "no" /\ ~InUse(a) /\ operation' = operation + 1
        /\ UNCHANGED <<running, finished, current, hooks, frames, waiting>>
        /\ UNCHANGED scriptVars
        /\ \/ /\ a \notin DOMAIN records
              /\ records' = [y \in DOMAIN records \cup {a} |->
                                IF y = a THEN record ELSE records[y]]
              /\ queued' = queued \cup {a}
              /\ meantFor' = [y \in DOMAIN meantFor \cup {a} |->
                                IF y = a THEN Store ELSE meantFor[y]]
              /\ UNCHANGED exit
           \/ a \in DOMAIN records
    BY DEF Submit, InFrame, Extend
  <1>2. /\ a \notin queued /\ ~Runs(a) /\ ~Ends(a)
        /\ \A t \in Pool : running[t] # a
        /\ \A f \in finished : f.work # a
    BY <1>1 DEF InUse, Runs, Ends
  <1>3. a \notin DOMAIN records
    BY <1>2 DEF BridgeInv, Recorded
  <1>4. operation \in Nat /\ record \in Context /\ record.request = Store
    BY StoreTyped DEF BridgeInv, WorkTypes, Context
  <1> HIDE DEF record
  <1>5. /\ DOMAIN records' = DOMAIN records \cup {a} /\ records'[a] = record
        /\ records' \in [DOMAIN records' -> Context]
        /\ \A b \in DOMAIN records : records'[b] = records[b]
    BY <1>1, <1>3, <1>4, HeldHere
  <1>6. /\ DOMAIN meantFor' = DOMAIN meantFor \cup {a} /\ meantFor'[a] = Store
         /\ \A b \in DOMAIN records : meantFor'[b] = meantFor[b]
    BY <1>1, <1>3 DEF BridgeInv, Recorded
  <1>7. MainInv' /\ ScriptInv'
    <2>1. current' \in [Threads -> Context]
      BY <1>1, StoreTyped
    <2>. QED  BY <1>1, <2>1, MainStays, ScriptStays DEF BridgeInv, Scripts
  <1>8. WorkTypes'
    BY <1>1, <1>3, <1>4 DEF BridgeInv, WorkTypes
  <1>9. (\A b : Runs(b)' <=> Runs(b)) /\ (\A b : Ends(b)' <=> Ends(b))
    BY <1>1 DEF Runs, Ends
  <1>10. Placed'
    BY <1>1, <1>2, <1>3, <1>9 DEF BridgeInv, Placed
  <1>11. Recorded'
    <2>1. DOMAIN records' = {b \in Addresses : b \in queued' \/ Runs(b)' \/ Ends(b)'}
      BY <1>1, <1>3, <1>5, <1>9 DEF BridgeInv, Recorded
    <2>2. \A b \in DOMAIN records' :
             /\ b \in DOMAIN meantFor' /\ records'[b].request = meantFor'[b]
             /\ records'[b].operation < operation'
      <3>1. record.operation = operation
        BY DEF record
      <3>2. \A b \in DOMAIN records :
               /\ b \in DOMAIN meantFor /\ records[b].request = meantFor[b]
               /\ records[b].operation < operation /\ records[b].operation \in Nat
        BY HeldHere DEF BridgeInv, Recorded, Context
      <3>. QED  BY <1>1, <1>4, <1>5, <1>6, <3>1, <3>2
    <2>3. \A b, c \in DOMAIN records' : records'[b].operation = records'[c].operation => b = c
      <3>1. record.operation = operation
        BY DEF record
      <3>2. \A b \in DOMAIN records : records[b].operation < operation
        BY DEF BridgeInv, Recorded
      <3>3. \A b, c \in DOMAIN records : records[b].operation = records[c].operation => b = c
        BY DEF BridgeInv, Recorded
      <3>. QED  BY <1>4, <1>5, <3>1, <3>2, <3>3
    <2>4. \A t \in Pool : current'[t] =
             IF running'[t] = Nothing THEN Outside ELSE records'[running'[t]]
      <3>1. \A t \in Pool : current[t] =
               IF running[t] = Nothing THEN Outside ELSE records[running[t]]
        BY DEF BridgeInv, Recorded
      <3>. QED  BY <1>1, <1>5, <3>1, HeldHere
    <2>. QED  BY <1>5, <2>1, <2>2, <2>3, <2>4 DEF Recorded
  <1>12. DoneInv'
    <2>1. ~Entered
      <3>1. Top.kind \in Javascript /\ Nested(frames) /\ Len(frames) \in DOMAIN frames
            /\ Top = frames[Len(frames)] /\ 1 \in DOMAIN frames
        <4>1. InFrame(Javascript) /\ frames \in Seq(Frame)
          BY StoreTyped DEF Submit
        <4>. QED  BY <4>1, StoreTyped, InFrameTop
      <3>. QED  BY <3>1, KindsApart DEF Entered, Nested
    <2>. QED  BY <1>1, <2>1 DEF DoneInv, Entered
  <1>. QED  BY <1>1, <1>3, <1>7, <1>8, <1>10, <1>11, <1>12 DEF BridgeInv

LEMMA CancelBridge ==
    ASSUME BridgeInv, NEW a \in Addresses, Cancel(a) PROVE BridgeInv'
  <1> DEFINE f == [work |-> a, status |-> "cancelled"]
  <1>1. /\ exit = "no" /\ a \in queued /\ queued' = queued \ {a}
        /\ finished' = finished \cup {f}
        /\ UNCHANGED <<records, operation, running, meantFor, current, hooks, frames,
                       waiting, exit>>
        /\ UNCHANGED scriptVars
    BY DEF Cancel, InFrame
  <1>2. f \in [work : Addresses, status : Statuses] /\ f.work = a
    BY DEF Statuses
  <1> HIDE DEF f
  <1>3. MainInv' /\ ScriptInv' /\ WorkTypes'
    <2>1. current' \in [Threads -> Context]
      BY <1>1, StoreTyped
    <2>2. MainInv' /\ ScriptInv'
      BY <1>1, <2>1, MainStays, ScriptStays DEF BridgeInv, Scripts
    <2>3. WorkTypes'
      BY <1>1, <1>2 DEF BridgeInv, WorkTypes
    <2>. QED  BY <2>2, <2>3
  <1>4. (\A b : Runs(b)' <=> Runs(b)) /\ (\A b : Ends(b)' <=> Ends(b) \/ b = a)
    BY <1>1, <1>2 DEF Runs, Ends
  <1>5. Placed'
    <2>1. ~Runs(a) /\ ~Ends(a) /\ \A g \in finished : g.work # a
      BY <1>1 DEF BridgeInv, Placed, Ends
    <2>. QED  BY <1>1, <1>2, <1>4, <2>1 DEF BridgeInv, Placed
  <1>6. Recorded'
    <2>1. DOMAIN records' = {b \in Addresses : b \in queued' \/ Runs(b)' \/ Ends(b)'}
      BY <1>1, <1>4 DEF BridgeInv, Recorded
    <2>. QED  BY <1>1, <2>1 DEF BridgeInv, Recorded
  <1>7. DoneInv'
    BY <1>1 DEF BridgeInv, DoneInv, Entered
  <1>. QED  BY <1>1, <1>3, <1>5, <1>6, <1>7 DEF BridgeInv

LEMMA WorkEnterBridge ==
    ASSUME BridgeInv, NEW t \in Pool, NEW a \in Addresses, WorkEnter(t, a) PROVE BridgeInv'
  <1>1. /\ exit = "no" /\ running[t] = Nothing /\ a \in queued /\ a \in DOMAIN records
        /\ queued' = queued \ {a} /\ running' = [running EXCEPT ![t] = a]
        /\ SetContext(t, records[a], "WORK_ENTER")
        /\ UNCHANGED <<records, operation, finished, meantFor, hooks, frames, waiting, exit>>
        /\ UNCHANGED scriptVars
    BY DEF WorkEnter, LookupForWork
  <1>2. /\ current' \in [Threads -> Context] /\ current'[t] = records[a]
        /\ \A u \in Threads \ {t} : current'[u] = current[u]
    BY <1>1, HeldHere, StoreTyped, ThreadsApart, ContextFor
  <1>3. /\ running \in [Pool -> Addresses \cup {Nothing}] /\ a # Nothing
        /\ running'[t] = a /\ \A u \in Pool \ {t} : running'[u] = running[u]
    BY <1>1, BridgeAssumption DEF BridgeInv, WorkTypes
  <1>4. MainInv' /\ ScriptInv' /\ WorkTypes'
    <2>1. MainInv' /\ ScriptInv'
      BY <1>1, <1>2, ThreadsApart, MainStays, ScriptStays DEF BridgeInv, Scripts
    <2>2. WorkTypes'
      BY <1>1 DEF BridgeInv, WorkTypes
    <2>. QED  BY <2>1, <2>2
  <1>5. (\A b \in Addresses : Runs(b)' <=> Runs(b) \/ b = a) /\ (\A b : Ends(b)' <=> Ends(b))
    <2>1. \A b : Ends(b)' <=> Ends(b)
      BY <1>1 DEF Ends
    <2>2. \A b \in Addresses : Runs(b)' <=> Runs(b) \/ b = a
      BY <1>1, <1>3, BridgeAssumption DEF Runs
    <2>. QED  BY <2>1, <2>2
  <1>6. ~Runs(a) /\ ~Ends(a)
    BY <1>1 DEF BridgeInv, Placed
  <1>7. Placed'
    <2>1. queued \subseteq Addresses /\ \A f \in finished : f.work \in Addresses
      BY DEF BridgeInv, WorkTypes
    <2>2. \A b \in queued' : ~Runs(b)' /\ ~Ends(b)'
      BY <1>1, <1>5, <2>1 DEF BridgeInv, Placed
    <2>3. \A f \in finished' : ~Runs(f.work)'
      BY <1>1, <1>5, <1>6, <2>1 DEF BridgeInv, Placed, Ends
    <2>4. \A u, v \in Pool : running'[u] = running'[v] /\ running'[u] # Nothing => u = v
      BY <1>3, <1>6 DEF BridgeInv, Placed, Runs
    <2>. QED  BY <1>1, <2>2, <2>3, <2>4 DEF BridgeInv, Placed
  <1>8. Recorded'
    <2>1. DOMAIN records' = {b \in Addresses : b \in queued' \/ Runs(b)' \/ Ends(b)'}
      BY <1>1, <1>5 DEF BridgeInv, Recorded
    <2>2. \A u \in Pool : current'[u] =
             IF running'[u] = Nothing THEN Outside ELSE records'[running'[u]]
      BY <1>1, <1>2, <1>3, ThreadsApart DEF BridgeInv, Recorded
    <2>. QED  BY <1>1, <2>1, <2>2 DEF BridgeInv, Recorded
  <1>9. DoneInv'
    BY <1>1 DEF BridgeInv, DoneInv, Entered
  <1>. QED  BY <1>1, <1>4, <1>7, <1>8, <1>9 DEF BridgeInv

LEMMA WorkLeaveBridge ==
    ASSUME BridgeInv, NEW t \in Pool, WorkLeave(t) PROVE BridgeInv'
  <1> DEFINE a == running[t]
             f == [work |-> a, status |-> "ok"]
  <1>1. /\ exit = "no" /\ a # Nothing /\ running' = [running EXCEPT ![t] = Nothing]
        /\ finished' = finished \cup {f}
        /\ SetContext(t, Outside, "WORK_LEAVE")
        /\ UNCHANGED <<records, operation, queued, meantFor, hooks, frames, waiting, exit>>
        /\ UNCHANGED scriptVars
    BY DEF WorkLeave
  <1>2. /\ current' \in [Threads -> Context] /\ current'[t] = Outside
        /\ \A u \in Threads \ {t} : current'[u] = current[u]
    BY <1>1, OutsideTyped, StoreTyped, ThreadsApart, ContextFor
  <1>3. /\ running \in [Pool -> Addresses \cup {Nothing}] /\ a \in Addresses
        /\ running'[t] = Nothing /\ \A u \in Pool \ {t} : running'[u] = running[u]
    BY <1>1 DEF BridgeInv, WorkTypes
  <1>4. f \in [work : Addresses, status : Statuses] /\ f.work = a
    BY <1>3 DEF Statuses
  <1>5. MainInv' /\ ScriptInv' /\ WorkTypes'
    <2>1. MainInv' /\ ScriptInv'
      BY <1>1, <1>2, ThreadsApart, MainStays, ScriptStays DEF BridgeInv, Scripts
    <2>2. WorkTypes'
      BY <1>1, <1>4 DEF BridgeInv, WorkTypes
    <2>. QED  BY <2>1, <2>2
  <1>6. /\ \A u \in Pool \ {t} : running[u] # a
        /\ Runs(a) /\ ~Ends(a) /\ a \notin queued
    <2>1. Runs(a) /\ Placed
      BY DEF Runs, BridgeInv
    <2>. QED  BY <1>1, <2>1 DEF Placed, Ends
  <1>7. /\ \A b \in Addresses : Runs(b)' <=> Runs(b) /\ b # a
        /\ \A b \in Addresses : Ends(b)' <=> Ends(b) \/ b = a
    <2> HIDE DEF f
    <2>1. \A b \in Addresses : Ends(b)' <=> Ends(b) \/ b = a
      BY <1>1, <1>4 DEF Ends
    <2>2. \A b \in Addresses : Runs(b)' <=> Runs(b) /\ b # a
      BY <1>3, <1>6, BridgeAssumption DEF Runs
    <2>. QED  BY <2>1, <2>2
  <1>8. Placed'
    <2> HIDE DEF f
    <2>1. queued \subseteq Addresses /\ \A g \in finished : g.work \in Addresses
      BY DEF BridgeInv, WorkTypes
    <2>2. \A b \in queued' : ~Runs(b)' /\ ~Ends(b)'
      BY <1>1, <1>6, <1>7, <2>1 DEF BridgeInv, Placed
    <2>3. \A g \in finished' : ~Runs(g.work)'
      BY <1>1, <1>3, <1>4, <1>7, <2>1 DEF BridgeInv, Placed
    <2>4. \A u, v \in Pool : running'[u] = running'[v] /\ running'[u] # Nothing => u = v
      BY <1>3 DEF BridgeInv, Placed
    <2>5. \A g, h \in finished' : g.work = h.work => g = h
      BY <1>1, <1>4, <1>6 DEF BridgeInv, Placed, Ends
    <2>. QED  BY <2>2, <2>3, <2>4, <2>5 DEF Placed
  <1>9. Recorded'
    <2>1. DOMAIN records' = {b \in Addresses : b \in queued' \/ Runs(b)' \/ Ends(b)'}
      BY <1>1, <1>6, <1>7 DEF BridgeInv, Recorded
    <2>2. \A u \in Pool : current'[u] =
             IF running'[u] = Nothing THEN Outside ELSE records'[running'[u]]
      BY <1>1, <1>2, <1>3, ThreadsApart DEF BridgeInv, Recorded
    <2>. QED  BY <1>1, <2>1, <2>2 DEF BridgeInv, Recorded
  <1>10. DoneInv'
    BY <1>1 DEF BridgeInv, DoneInv, Entered
  <1>. QED  BY <1>1, <1>5, <1>8, <1>9, <1>10 DEF BridgeInv

(* Of the frame of a done call: how it is made and what it holds. *)
DoneFrame(f) == [NewFrame("done", meantFor[f.work], current[Main]) EXCEPT
                   !.stage = "entered", !.work = f.work, !.status = f.status,
                   !.operation = records[f.work].operation]

LEMMA DoneFrameTyped ==
    ASSUME BridgeInv, NEW f \in finished
    PROVE  /\ DoneFrame(f) \in Frame
           /\ DoneFrame(f).kind = "done" /\ DoneFrame(f).stage = "entered"
           /\ DoneFrame(f).store = records[f.work].request
           /\ DoneFrame(f).saved = current[Main] /\ DoneFrame(f).work = f.work
           /\ DoneFrame(f).status = f.status
           /\ DoneFrame(f).operation = records[f.work].operation
  <1>1. /\ f.work \in Addresses /\ f.status \in Statuses /\ records[f.work] \in Context
        /\ meantFor[f.work] = records[f.work].request /\ current[Main] \in Context
    BY HeldHere, StoreTyped DEF BridgeInv, Recorded
  <1>2. meantFor[f.work] \in Contexts /\ records[f.work].operation \in Nat
    BY <1>1 DEF Context
  <1> DEFINE n == NewFrame("done", meantFor[f.work], current[Main])
  <1>3. /\ n \in Frame /\ n.kind = "done" /\ n.store = meantFor[f.work]
        /\ n.saved = current[Main]
    BY <1>1, <1>2 DEF NewFrame, Frame, Statuses
  <1> HIDE DEF n
  <1>4. DoneFrame(f) = [n EXCEPT !.stage = "entered", !.work = f.work, !.status = f.status,
                                 !.operation = records[f.work].operation]
    BY DEF DoneFrame, n
  <1>. QED  BY <1>1, <1>2, <1>3, <1>4 DEF Frame

LEMMA DoneEnterBridge ==
    ASSUME BridgeInv, NEW f \in finished, DoneEnter(f) PROVE BridgeInv'
  <1> DEFINE g == DoneFrame(f)
             a == f.work
  <1>1. /\ exit = "no" /\ frames = <<>> /\ finished' = finished \ {f}
        /\ records' = [y \in DOMAIN records \ {a} |-> records[y]]
        /\ frames' = <<g>> /\ SetContext(Main, records[a], "DONE_ENTER")
        /\ UNCHANGED <<operation, queued, running, meantFor, hooks, waiting, exit>>
        /\ UNCHANGED scriptVars
    BY DEF DoneEnter, LookupForDone, Without, DoneFrame
  <1>2. /\ g \in Frame /\ g.kind = "done" /\ g.stage = "entered"
        /\ g.store = records[a].request /\ g.saved = current[Main]
        /\ g.operation = records[a].operation
    BY DoneFrameTyped
  <1>3. /\ a \in DOMAIN records /\ a \in Addresses /\ records[a] \in Context
        /\ DOMAIN records' = DOMAIN records \ {a}
        /\ \A b \in DOMAIN records' : records'[b] = records[b]
    BY <1>1, HeldHere
  <1>4. /\ current' \in [Threads -> Context] /\ current'[Main] = records[a]
        /\ \A u \in Pool : current'[u] = current[u]
    BY <1>1, <1>3, StoreTyped, ThreadsApart, ContextFor
  <1> HIDE DEF g
  <1>5. MainInv'
    <2>1. frames' \in Seq(Frame) /\ DOMAIN frames' = {1} /\ frames'[1] = g /\ Len(frames') = 1
          /\ frames' # <<>>
      BY <1>1, <1>2, Single
    <2>2. StoreOf(frames) = 0 /\ current[Main].request = 0 /\ Hooked(frames, hooks)
          /\ hooks \in Seq(Contexts) /\ waiting \in [DOMAIN waiting -> Contexts]
      BY <1>1, StoreTyped DEF StoreOf
    <2>3. Nested(frames')
      BY <1>2, <2>1, <2>2 DEF Nested, Below
    <2>4. Hooked(frames', hooks)
      <3>1. PICK at \in [DOMAIN hooks -> DOMAIN frames] : Matches(at, frames, hooks)
        BY <2>2 DEF Hooked
      <3>2. DOMAIN hooks = {}
        BY <1>1, <3>1
      <3>3. at \in [DOMAIN hooks -> DOMAIN frames'] /\ Matches(at, frames', hooks)
        BY <1>2, <2>1, <3>1, <3>2 DEF Matches
      <3>. QED  BY <3>3 DEF Hooked
    <2>5. Store' = g.store
      BY <2>1 DEF Store, Top, LastOf
    <2>. QED  BY <1>1, <1>2, <1>4, <2>1, <2>2, <2>3, <2>4, <2>5 DEF MainInv
  <1>6. ScriptInv' /\ WorkTypes'
    <2>1. ScriptInv'
      BY <1>1, ScriptStays DEF BridgeInv, Scripts
    <2>2. WorkTypes'
      BY <1>1 DEF BridgeInv, WorkTypes
    <2>. QED  BY <2>1, <2>2
  <1>7. /\ \A b : Runs(b)' <=> Runs(b)
        /\ \A b : Ends(b)' <=> Ends(b) /\ b # a
        /\ a \notin queued /\ ~Runs(a)
    <2>1. Placed /\ Ends(a)
      BY DEF BridgeInv, Ends
    <2>2. \A b : Runs(b)' <=> Runs(b)
      BY <1>1 DEF Runs
    <2>3. \A b : Ends(b)' <=> Ends(b) /\ b # a
      BY <1>1, <2>1 DEF Ends, Placed
    <2>. QED  BY <2>1, <2>2, <2>3 DEF Placed
  <1>8. Placed'
    BY <1>1, <1>7 DEF BridgeInv, Placed
  <1>9. Recorded'
    <2>1. DOMAIN records' = {b \in Addresses : b \in queued' \/ Runs(b)' \/ Ends(b)'}
      BY <1>1, <1>3, <1>7 DEF BridgeInv, Recorded
    <2>2. \A u \in Pool : running[u] # Nothing =>
             running[u] # a /\ running[u] \in DOMAIN records
      BY <1>7, HeldHere DEF Runs
    <2>3. \A u \in Pool : current'[u] =
             IF running'[u] = Nothing THEN Outside ELSE records'[running'[u]]
      BY <1>1, <1>3, <1>4, <2>2 DEF BridgeInv, Recorded
    <2>4. records' \in [DOMAIN records' -> Context]
      BY <1>1, <1>3, HeldHere
    <2>5. /\ \A b \in DOMAIN records' : /\ b \in DOMAIN meantFor'
                                        /\ records'[b].request = meantFor'[b]
                                        /\ records'[b].operation < operation'
          /\ \A b, c \in DOMAIN records' :
                records'[b].operation = records'[c].operation => b = c
      BY <1>1, <1>3 DEF BridgeInv, Recorded
    <2>. QED  BY <2>1, <2>3, <2>4, <2>5 DEF Recorded
  <1>10. DoneInv'
    <2>1. /\ records[a].operation < operation
          /\ \A b \in DOMAIN records' : records[b].operation # records[a].operation
      BY <1>3 DEF BridgeInv, Recorded
    <2>2. frames'[1] = g
      BY <1>1
    <2>. QED  BY <1>1, <1>2, <1>3, <2>1, <2>2 DEF DoneInv
  <1>. QED  BY <1>1, <1>5, <1>6, <1>8, <1>9, <1>10 DEF BridgeInv

LEMMA DoneTop ==
    ASSUME BridgeInv, InFrame({"done"}), NEW stage \in {"called", "entered", "completed"}
    PROVE  /\ exit = "no" /\ Top \in Frame /\ Top.kind = "done"
           /\ [Top EXCEPT !.stage = stage] \in Frame
           /\ [Top EXCEPT !.stage = stage].kind = "done"
           /\ [Top EXCEPT !.stage = stage].stage = stage
           /\ <<[Top EXCEPT !.stage = stage]>> \in Seq(Frame)
           /\ Nested(<<[Top EXCEPT !.stage = stage]>>)
           /\ Hooked(<<[Top EXCEPT !.stage = stage]>>, hooks)
           /\ StoreOf(<<[Top EXCEPT !.stage = stage]>>) = Store
           /\ frames = <<Top>> /\ Len(frames) = 1 /\ frames[1] = Top
           /\ Top.saved.request = 0 /\ Below(frames, 1) = 0
  <1> DEFINE g == [Top EXCEPT !.stage = stage]
  <1>1. exit = "no" /\ Top \in Frame /\ Top.kind = "done" /\ frames # <<>>
    BY InFrameTop
  <1>2. /\ g \in Frame /\ g.kind = "done" /\ g.stage = stage /\ g.store = Top.store
        /\ g.saved = Top.saved
    BY <1>1 DEF Frame
  <1> HIDE DEF g
  <1>3. /\ frames = <<Top>> /\ Len(frames) = 1 /\ frames[1] = Top
        /\ <<g>> \in Seq(Frame) /\ Nested(<<g>>) /\ Hooked(<<g>>, hooks)
        /\ StoreOf(<<g>>) = Store
    BY <1>1, <1>2, StoreTyped, ReplaceDone DEF Top
  <1>4. Top.saved.request = 0 /\ Below(frames, 1) = 0
    <2>1. 1 \in DOMAIN frames
      BY <1>3
    <2>. QED  BY <1>1, <1>3, <2>1, StoreTyped DEF Nested, Below
  <1>. QED  BY <1>1, <1>2, <1>3, <1>4 DEF g

LEMMA DoneCompleteBridge == ASSUME BridgeInv, DoneComplete PROVE BridgeInv'
  <1> DEFINE g == [Top EXCEPT !.stage = "completed"]
  <1>1. /\ InFrame({"done"}) /\ frames' = <<g>>
        /\ UNCHANGED <<workVars, current, scriptVars, hooks, waiting, exit>>
    BY DEF DoneComplete
  <1>2. /\ exit = "no" /\ g.stage = "completed" /\ <<g>> \in Seq(Frame) /\ Nested(<<g>>)
        /\ Hooked(<<g>>, hooks) /\ StoreOf(<<g>>) = Store
    BY <1>1, DoneTop
  <1> HIDE DEF g
  <1>3. Store' = Store
    BY <1>1, <1>2 DEF Store, StoreOf, Top
  <1>4. MainInv'
    BY <1>1, <1>2, <1>3, StoreTyped DEF MainInv
  <1>5. ScriptInv' /\ ~Entered'
    BY <1>1, <1>2, ScriptStays DEF BridgeInv, Scripts, Entered
  <1>. QED  BY <1>1, <1>2, <1>4, <1>5, ApartStep DEF Apart

LEMMA DoneCallbackBridge == ASSUME BridgeInv, DoneCallback PROVE BridgeInv'
  <1> DEFINE g == [Top EXCEPT !.stage = "called"]
             f == NewFrame("callback", Store, Outside)
  <1>1. /\ InFrame({"done"}) /\ frames' = <<g, f>> /\ NativeContext(Store)
        /\ hooks' = Append(hooks, current[Main].request)
        /\ UNCHANGED <<workVars, scriptVars, waiting, exit>>
    BY DEF DoneCallback
  <1>2. /\ exit = "no" /\ g \in Frame /\ g.kind = "done" /\ g.stage = "called"
        /\ <<g>> \in Seq(Frame) /\ Nested(<<g>>)
        /\ Hooked(<<g>>, hooks) /\ StoreOf(<<g>>) = Store
    BY <1>1, DoneTop
  <1>3. /\ f \in Frame /\ f.kind = "callback" /\ f.store = Store /\ f.stage = "called"
    BY StoreTyped, OutsideTyped, KindsApart, NewFrameTyped
  <1> HIDE DEF g, f
  <1>4. frames' = Append(<<g>>, f) /\ Len(<<g>>) = 1 /\ LastOf(<<g>>) = g
    BY <1>1 DEF LastOf
  <1>5. /\ frames' \in Seq(Frame) /\ Nested(frames') /\ StoreOf(frames') = Store
        /\ Below(frames', Len(<<g>>) + 1) = Store
        /\ \A i \in DOMAIN <<g>> : Below(frames', i) = Below(<<g>>, i)
    BY <1>2, <1>3, <1>4, PushNested
  <1>6. hooks' = Append(hooks, Store) /\ hooks' \in Seq(Contexts) /\ Hooked(frames', hooks')
    <2>1. hooks' = Append(hooks, Store)
      BY <1>1, StoreTyped
    <2>2. Hooked(Append(<<g>>, f), Append(hooks, Store))
      BY <1>2, <1>3, <1>4, <1>5, StoreTyped, PushCallbackHooked
    <2>. QED  BY <1>4, <2>1, <2>2, StoreTyped, Appended
  <1>7. /\ current' \in [Threads -> Context] /\ current'[Main].request = Store
        /\ \A t \in Pool : current'[t] = current[t]
    BY <1>1, StoreTyped, ContextSet
  <1>8. Store' = Store
    BY <1>5 DEF Store, StoreOf, Top
  <1>9. MainInv'
    BY <1>1, <1>5, <1>6, <1>7, <1>8, StoreTyped DEF MainInv
  <1>10. ScriptInv' /\ ~Entered'
    BY <1>1, <1>2, ScriptStays DEF BridgeInv, Scripts, Entered
  <1>. QED  BY <1>1, <1>2, <1>7, <1>9, <1>10, ApartStep DEF Apart

LEMMA DoneLeaveBridge == ASSUME BridgeInv, DoneLeave PROVE BridgeInv'
  <1>1. /\ InFrame({"done"}) /\ SetContext(Main, Top.saved, "DONE_LEAVE")
        /\ frames' = FrontOf(frames)
        /\ UNCHANGED <<workVars, scriptVars, hooks, waiting, exit>>
    BY DEF DoneLeave, Pop
  <1>2. /\ exit = "no" /\ Top \in Frame /\ Top.kind = "done" /\ frames = <<Top>>
        /\ Len(frames) = 1 /\ Top.saved.request = 0 /\ Below(frames, 1) = 0
    BY <1>1, DoneTop
  <1>3. /\ current' \in [Threads -> Context] /\ current'[Main] = Top.saved
        /\ \A t \in Pool : current'[t] = current[t]
    <2>1. Top.saved \in Context
      BY <1>2 DEF Frame
    <2>. QED  BY <1>1, <2>1, StoreTyped, ThreadsApart, ContextFor
  <1>4. frames # <<>>
    BY <1>2
  <1>. QED  BY <1>1, <1>2, <1>3, <1>4, Leaves

LEMMA BridgeStep == ASSUME BridgeInv, BridgeNext PROVE BridgeInv'
  <1>1. ASSUME SubmitAfterFailure PROVE BridgeInv'
    <2>1. Store' = Store
      BY <1>1 DEF Store, Top, SubmitAfterFailure
    <2>2. MainInv' /\ ScriptInv' /\ WorkTypes' /\ DoneInv'
      BY <1>1, <2>1 DEF SubmitAfterFailure, BridgeInv, MainInv, ScriptInv, WorkTypes, DoneInv,
            Entered, workVars, scriptVars
    <2>3. Placed' /\ Recorded'
      BY <1>1 DEF SubmitAfterFailure, BridgeInv, Placed, Recorded, Runs, Ends, workVars
    <2>. QED  BY <1>1, <2>2, <2>3 DEF SubmitAfterFailure, BridgeInv
  <1>2. ASSUME MainEffect \/ \E t \in Pool : PoolEffect(t) PROVE BridgeInv'
    <2>1. /\ exit = "no" /\ UNCHANGED <<current, frames, hooks, waiting, exit>>
          /\ UNCHANGED workVars /\ UNCHANGED scriptVars
      BY <1>2 DEF MainEffect, PoolEffect
    <2>2. waiting' \in [DOMAIN waiting' -> Contexts] /\ ScriptInv'
      BY <2>1, StoreTyped, ScriptStays DEF BridgeInv, Scripts
    <2>. QED  BY <2>1, <2>2, Rests
  <1>3. ASSUME ExitNormally PROVE BridgeInv'
    <2>1. Store' = Store /\ Idle'
      BY <1>3 DEF Store, Top, ExitNormally, Idle, workVars
    <2>2. MainInv' /\ ScriptInv' /\ WorkTypes' /\ DoneInv'
      BY <1>3, <2>1 DEF ExitNormally, BridgeInv, MainInv, ScriptInv, WorkTypes, DoneInv,
            Entered, workVars, scriptVars
    <2>3. Placed' /\ Recorded'
      BY <1>3 DEF ExitNormally, BridgeInv, Placed, Recorded, Runs, Ends, workVars
    <2>. QED  BY <2>1, <2>2, <2>3 DEF BridgeInv
  <1>. QED  BY <1>1, <1>2, <1>3, ReceiveBridge, OnRequestBridge, EndRequestBridge, AfterBridge,
              WithoutRequestBridge, EndScopeBridge, DeferBridge, RunCallbackBridge,
              WithParentsBridge, SubmitBridge, CancelBridge, WorkEnterBridge,
              WorkLeaveBridge, DoneEnterBridge, DoneCompleteBridge, DoneCallbackBridge,
              DoneLeaveBridge
           DEF BridgeNext

-----------------------------------------------------------------------------
(* The events of a step.  What the attributor does with one is a matter of   *)
(* its kind, if it can be used at all.                                       *)
Kinds == {"JS_CONTEXT", "SUBMIT", "WORK_ENTER", "WORK_LEAVE", "DONE_ENTER", "COMPLETE",
          "DONE_LEAVE", "DUPLICATE_WORK"}

LEMMA ByKind ==
    ASSUME NEW e, Observe(e)
    PROVE  /\ errors \subseteq errors'
           /\ Unusable(e) /\ e.kind # "NONE" =>
                 errors' # {} \/ (~e.captured /\ e.written = "failed")
           /\ ~Unusable(e) =>
                 /\ e.kind = "NONE" => UNCHANGED attributorVars
                 /\ e.kind = "SUBMIT" => OnSubmit(e)
                 /\ e.kind = "WORK_ENTER" => OnWorkEnter(e)
                 /\ e.kind = "WORK_LEAVE" => OnWorkLeave(e)
                 /\ e.kind \in {"JS_CONTEXT", "DONE_ENTER", "DONE_LEAVE"} => OnContext(e)
                 /\ e.kind = "COMPLETE" => OnComplete(e)
                 /\ e.kind = "EFFECT" => OnEffect(e)
  <1> DEFINE Usual == \/ OnSubmit(e) \/ OnWorkEnter(e) \/ OnWorkLeave(e) \/ OnContext(e)
                      \/ OnComplete(e) \/ OnEffect(e)
             Other == \/ OnFailure(e) \/ OnIpcSend(e) \/ OnIpcCancel(e)
                      \/ OnIpcEnter(e) \/ OnIpcLeave(e)
  <1>1. CASE e.kind = "NONE" /\ UNCHANGED attributorVars
    BY <1>1 DEF attributorVars
  <1>2. CASE /\ Unusable(e)
             /\ errors' = errors \cup
                   Refusal(e.captured \/ e.written # "failed", "incomplete capture")
    BY <1>2 DEF Refusal
  <1>3. CASE ~Unusable(e) /\ Usual
    <2>1. /\ OnSubmit(e) => e.kind = "SUBMIT" /\ errors \subseteq errors'
          /\ OnWorkEnter(e) => e.kind = "WORK_ENTER" /\ errors \subseteq errors'
          /\ OnWorkLeave(e) => e.kind = "WORK_LEAVE" /\ errors \subseteq errors'
          /\ OnContext(e) => /\ e.kind \in {"JS_CONTEXT", "DONE_ENTER", "DONE_LEAVE"}
                             /\ errors \subseteq errors'
          /\ OnComplete(e) => e.kind = "COMPLETE" /\ errors \subseteq errors'
          /\ OnEffect(e) => e.kind = "EFFECT" /\ errors \subseteq errors'
      BY DEF OnSubmit, OnWorkEnter, OnWorkLeave, OnContext, OnComplete, OnEffect,
             EnterContext, TRANSITIONS
    <2>. QED  BY <1>3, <2>1
  <1>4. CASE ~Unusable(e) /\ Other
    <2>1. /\ OnFailure(e) => e.kind \in {"INVARIANT_FAILURE", "DUPLICATE_WORK"}
          /\ OnIpcSend(e) => e.kind = "IPC_SEND"
          /\ OnIpcCancel(e) => e.kind = "IPC_CANCEL"
          /\ OnIpcEnter(e) => e.kind = "IPC_ENTER"
          /\ OnIpcLeave(e) => e.kind = "IPC_LEAVE"
      BY DEF OnFailure, OnIpcSend, OnIpcCancel, OnIpcEnter, OnIpcLeave
    <2>2. Other => errors \subseteq errors'
      BY DEF OnFailure, OnIpcSend, OnIpcCancel, OnIpcEnter, OnIpcLeave
    <2>. QED  BY <1>4, <2>1, <2>2
  <1>. QED  BY <1>1, <1>2, <1>3, <1>4 DEF Observe

Reads(e, kind, tid, request, operationOf, status) ==
    /\ e.kind = kind /\ e.tid = tid /\ e.request = request
    /\ e.operation = operationOf /\ e.status = status /\ e.span = 0

(* The marker as the tracer, the log and both may have it. *)
Written(kind, tid, request, number, status) ==
    [kind |-> kind, tid |-> tid, request |-> request, operation |-> number,
     span |-> 0, status |-> status, job |-> NoJob,
     written |-> "whole", captured |-> TRUE]

LEMMA MarkerFacts ==
    ASSUME NEW kind, NEW tid, NEW request, NEW number, NEW status, NEW e, NEW marker,
           marker = Written(kind, tid, request, number, status)
    PROVE  /\ e \in Delivered(marker) =>
                 Reads(e, kind, tid, request, number, status) /\ e.written = "whole"
           /\ e \in Undelivered(marker) =>
                 /\ Reads(e, kind, tid, request, number, status)
                 /\ e.written \in {"partial", "failed"}
  <1>1. marker = [kind |-> kind, tid |-> tid, request |-> request, operation |-> number,
                  span |-> 0, status |-> status, job |-> NoJob,
                  written |-> "whole", captured |-> TRUE]
    BY DEF Written
  <1>2. ASSUME e \in Delivered(marker)
        PROVE  Reads(e, kind, tid, request, number, status) /\ e.written = "whole"
    <2>1. \E c \in BOOLEAN : e = [marker EXCEPT !.captured = c]
      BY <1>2 DEF Delivered
    <2>. QED  BY <1>1, <2>1 DEF Reads
  <1>3. ASSUME e \in Undelivered(marker)
        PROVE  /\ Reads(e, kind, tid, request, number, status)
               /\ e.written \in {"partial", "failed"}
    <2>1. PICK w \in {"partial", "failed"} : e \in Delivered([marker EXCEPT !.written = w])
      BY <1>3 DEF Undelivered
    <2>2. \E c \in BOOLEAN : e = [[marker EXCEPT !.written = w] EXCEPT !.captured = c]
      BY <2>1 DEF Delivered
    <2>. QED  BY <1>1, <2>2 DEF Reads
  <1>. QED  BY <1>2, <1>3

(* What went wrong is refused, unless it left no evidence. *)
Refused == faults # {} => errors # {} \/ "unseen" \in faults

(* A marker arrives, or something went wrong with it. *)
LEMMA Emitted ==
    ASSUME NEW kind \in Kinds, NEW tid, NEW request, NEW number, NEW status,
           NEW marker, marker = Written(kind, tid, request, number, status),
           Emit(marker), Observe(emitted')
    PROVE  /\ Refused => Refused'
           /\ faults' = {} => /\ faults = {} /\ ~Unusable(emitted')
                              /\ Reads(emitted', kind, tid, request, number, status)
  <1>1. \/ /\ emitted' \in Delivered(marker)
           /\ faults' = IF emitted'.captured THEN faults ELSE faults \cup {"capture"}
        \/ /\ emitted' \in Undelivered(marker)
           /\ faults' = faults \cup
                 IF emitted'.written = "failed" /\ ~emitted'.captured
                 THEN {"unseen"} ELSE {"marker"}
    BY DEF Emit
  <1>2. /\ emitted' \in Delivered(marker) =>
              Reads(emitted', kind, tid, request, number, status) /\ emitted'.written = "whole"
        /\ emitted' \in Undelivered(marker) =>
              /\ Reads(emitted', kind, tid, request, number, status)
              /\ emitted'.written \in {"partial", "failed"}
    BY MarkerFacts
  <1>3. Reads(emitted', kind, tid, request, number, status) /\ emitted'.kind # "NONE"
    BY <1>1, <1>2 DEF Reads, Kinds
  <1>4. errors \subseteq errors'
    BY ByKind
  <1>5. CASE emitted' \in Delivered(marker) /\ emitted'.captured /\ faults' = faults
    <2>1. ~Unusable(emitted')
      BY <1>2, <1>5 DEF Unusable
    <2>. QED  BY <1>3, <1>4, <1>5, <2>1 DEF Refused
  <1>6. CASE emitted' \in Delivered(marker) /\ ~emitted'.captured /\ faults' # {}
    <2>1. Unusable(emitted') /\ emitted'.written # "failed"
      BY <1>2, <1>6 DEF Unusable
    <2>2. errors' # {}
      BY <1>3, <2>1, ByKind
    <2>. QED  BY <1>6, <2>2 DEF Refused
  <1>7. CASE emitted' \in Undelivered(marker)
    <2>1. Unusable(emitted') /\ faults' # {}
      BY <1>1, <1>2, <1>7 DEF Unusable
    <2>2. errors' # {} \/ "unseen" \in faults'
      BY <1>1, <1>2, <1>3, <1>7, <2>1, ByKind
    <2>. QED  BY <2>1, <2>2 DEF Refused
  <1>. QED  BY <1>1, <1>5, <1>6, <1>7

LEMMA EmittedPlain ==
    ASSUME NEW kind \in Kinds, NEW tid, NEW request, NEW number,
           Emit(Marker(kind, tid, request, number)), Observe(emitted')
    PROVE  /\ Refused => Refused'
           /\ faults' = {} => /\ faults = {} /\ ~Unusable(emitted')
                              /\ Reads(emitted', kind, tid, request, number, "ok")
  <1>1. Marker(kind, tid, request, number) = Written(kind, tid, request, number, "ok")
    BY DEF Marker, Written
  <1>. QED  BY <1>1, Emitted

(* COMPLETE passes the status on. *)
LEMMA EmittedStatus ==
    ASSUME NEW kind \in Kinds, NEW tid, NEW request, NEW number, NEW status,
           Emit([Marker(kind, tid, request, number) EXCEPT !.status = status]),
           Observe(emitted')
    PROVE  /\ Refused => Refused'
           /\ faults' = {} => /\ faults = {} /\ ~Unusable(emitted')
                              /\ Reads(emitted', kind, tid, request, number, status)
  <1> SUFFICES ASSUME NEW marker,
                      marker = [Marker(kind, tid, request, number) EXCEPT !.status = status],
                      Emit(marker)
               PROVE  /\ Refused => Refused'
                      /\ faults' = {} =>
                            /\ faults = {} /\ ~Unusable(emitted')
                            /\ Reads(emitted', kind, tid, request, number, status)
    OBVIOUS
  <1>1. marker = Written(kind, tid, request, number, status)
    BY DEF Marker, Written
  <1>. QED  BY <1>1, Emitted

(* Nothing is written, or an effect happens, which the tracer always sees.   *)
LEMMA Silent ==
    ASSUME Quiet, Observe(emitted')
    PROVE  UNCHANGED attributorVars /\ faults' = faults /\ (Refused => Refused')
  <1>1. emitted'.kind = "NONE" /\ ~Unusable(emitted')
    BY DEF Quiet, Silence, Marker, Unusable
  <1>. QED  BY <1>1, ByKind DEF Quiet, Refused, attributorVars

LEMMA Acted ==
    ASSUME NEW tid, NEW owner, emitted' = Effect(tid, owner), faults' = faults,
           Observe(emitted')
    PROVE  /\ OnEffect(emitted') /\ emitted'.tid = tid /\ emitted'.request = owner
           /\ Refused => Refused'
  <1>1. /\ emitted'.kind = "EFFECT" /\ ~Unusable(emitted')
        /\ emitted'.tid = tid /\ emitted'.request = owner
    BY DEF Effect, Marker, Unusable
  <1>. QED  BY <1>1, ByKind DEF Refused, OnEffect

(* The native context of the main thread: a marker if it changes. *)
LEMMA ContextTold ==
    ASSUME NEW r, NativeContext(r), Observe(emitted')
    PROVE  /\ Refused => Refused'
           /\ faults' = {} =>
                 /\ faults = {}
                 /\ \/ UNCHANGED <<current, attributorVars>>
                    \/ /\ OnContext(emitted')
                       /\ emitted'.tid = Main /\ emitted'.request = r
  <1>1. CASE Quiet /\ UNCHANGED current
    BY <1>1, Silent DEF attributorVars
  <1>2. CASE Emit(Marker("JS_CONTEXT", Main, r, 0))
    <2>1. "JS_CONTEXT" \in Kinds
      BY DEF Kinds
    <2>2. /\ Refused => Refused'
          /\ faults' = {} => /\ faults = {} /\ ~Unusable(emitted')
                             /\ Reads(emitted', "JS_CONTEXT", Main, r, 0, "ok")
      BY <1>2, <2>1, EmittedPlain
    <2>. QED  BY <2>2, ByKind DEF Reads
  <1>3. (Quiet /\ UNCHANGED current) \/ Emit(Marker("JS_CONTEXT", Main, r, 0))
    BY DEF NativeContext, SetContext
  <1>. QED  BY <1>1, <1>2, <1>3

(* The same for the contexts that a bracket of work sets. *)
LEMMA ContextMarked ==
    ASSUME NEW kind \in {"WORK_ENTER", "WORK_LEAVE", "DONE_ENTER", "DONE_LEAVE"},
           NEW tid, NEW context, SetContext(tid, context, kind), Observe(emitted')
    PROVE  /\ Refused => Refused'
           /\ faults' = {} =>
                 /\ faults = {}
                 /\ emitted'.tid = tid /\ emitted'.request = context.request
                 /\ emitted'.operation = context.operation
                 /\ kind = "WORK_ENTER" => OnWorkEnter(emitted')
                 /\ kind = "WORK_LEAVE" => OnWorkLeave(emitted')
                 /\ kind \in {"DONE_ENTER", "DONE_LEAVE"} => OnContext(emitted')
  <1>1. kind \in Kinds /\ Emit(Marker(kind, tid, context.request, context.operation))
    BY DEF Kinds, SetContext
  <1>2. /\ Refused => Refused'
        /\ faults' = {} => /\ faults = {} /\ ~Unusable(emitted')
                           /\ Reads(emitted', kind, tid, context.request,
                                    context.operation, "ok")
    BY <1>1, EmittedPlain
  <1>. QED  BY <1>2, ByKind DEF Reads

-----------------------------------------------------------------------------
(* Done calls that have not reported, when a frame comes or goes. *)
Sound == Refused /\ (faults = {} => Clean)

LEMMA NotEntered ==
    ASSUME BridgeInv, frames = <<>> \/ Top.stage # "entered"
    PROVE  ~Entered
  <1>1. frames \in Seq(Frame) /\ Nested(frames)
    BY StoreTyped
  <1>2. CASE frames # <<>>
    <2>1. /\ Len(frames) \in Nat \ {0} /\ DOMAIN frames = 1 .. Len(frames)
          /\ Top = frames[Len(frames)]
      BY <1>1, <1>2, Fronted DEF Top
    <2>2. 1 \in DOMAIN frames
      BY <2>1
    <2>. QED  BY <1>1, <1>2, <2>1, <2>2 DEF Nested, Entered
  <1>. QED  BY <1>2 DEF Entered

LEMMA InScript ==
    ASSUME BridgeInv, NEW kinds, InFrame(kinds), "done" \notin kinds
    PROVE  /\ ~Entered /\ exit = "no" /\ frames # <<>> /\ Top \in Frame
           /\ Top.stage # "entered" /\ Top.kind \in kinds
  <1>1. Top.stage # "entered"
    BY InFrameTop
  <1>. QED  BY <1>1, InFrameTop, NotEntered

LEMMA PushApart ==
    ASSUME BridgeInv, NEW kind \in Javascript, NEW store \in Contexts,
           NEW saved \in Context, Push(NewFrame(kind, store, saved)),
           frames = <<>> \/ Top.stage # "entered"
    PROVE  ~Entered /\ ~Entered'
  <1> DEFINE f == NewFrame(kind, store, saved)
  <1>1. f \in Frame /\ f.stage = "called" /\ frames' = Append(frames, f)
    BY NewFrameTyped DEF Push
  <1> HIDE DEF f
  <1>2. frames \in Seq(Frame) /\ ~Entered
    BY StoreTyped, NotEntered
  <1>3. /\ Len(frames) \in Nat /\ DOMAIN frames = 1 .. Len(frames)
        /\ frames'[Len(frames) + 1] = f
        /\ \A i \in DOMAIN frames : frames'[i] = frames[i]
    BY <1>1, <1>2, Appended
  <1>4. frames'[1].stage # "entered"
    <2>1. CASE Len(frames) = 0
      BY <1>1, <1>3, <2>1
    <2>2. CASE Len(frames) # 0
      <3>1. 1 \in DOMAIN frames /\ frames # <<>>
        BY <1>3, <2>2
      <3>. QED  BY <1>2, <1>3, <3>1 DEF Entered
    <2>. QED  BY <2>1, <2>2
  <1>. QED  BY <1>2, <1>4 DEF Entered

LEMMA PopApart ==
    ASSUME BridgeInv, frames # <<>>, Pop
    PROVE  ~Entered'
  <1>1. frames \in Seq(Frame) /\ Nested(frames)
    BY StoreTyped
  <1>2. /\ FrontOf(frames) \in Seq(Frame)
        /\ \A i \in DOMAIN FrontOf(frames) : frames[i].stage # "entered"
    BY <1>1, PopNested
  <1>3. /\ DOMAIN FrontOf(frames) = 1 .. Len(frames) - 1 /\ Len(frames) \in Nat \ {0}
        /\ \A i \in DOMAIN FrontOf(frames) : FrontOf(frames)[i] = frames[i]
        /\ FrontOf(frames) = <<>> <=> Len(frames) = 1
    BY <1>1, Fronted
  <1>4. CASE FrontOf(frames) # <<>>
    <2>1. 1 \in DOMAIN FrontOf(frames)
      BY <1>3, <1>4
    <2>. QED  BY <1>2, <1>3, <2>1 DEF Entered, Pop
  <1>. QED  BY <1>4 DEF Entered, Pop

-----------------------------------------------------------------------------
(* What a transition marker of a known request does to the tables. *)
LEMMA Transition ==
    ASSUME AttributorTypes, NEW e, e.tid \in Tids, e.request \in Contexts,
           EnterContext(e, {})
    PROVE  /\ state' = [t \in Tids |-> state'[t]] /\ state'[e.tid].request = e.request
           /\ \A t \in Tids : t # e.tid => state'[t] = state[t]
           /\ errors' = errors
  <1>1. UnknownRequest(e) = {}
    <2>1. e.request # 0 => e.request \in 1 .. MaxContext
      BY BridgeAssumption DEF Contexts
    <2>. QED  BY <2>1, AttributionAssumption DEF UnknownRequest, Refusal
  <1>2. Refusal(ipcActive[e.tid] # NoJob, "transition inside IPC job") = {}
    BY DEF AttributorTypes, Refusal
  <1>3. errors' = errors
    BY <1>1, <1>2 DEF EnterContext
  <1> DEFINE entry == [request |-> e.request, operation |-> e.operation, job |-> NoJob,
                       origin |-> CASE e.kind = "WORK_ENTER" -> "worker"
                                    [] e.kind = "DONE_ENTER" -> "completion"
                                    [] OTHER -> "async_context"]
  <1>4. state' = [state EXCEPT ![e.tid] = entry]
    BY DEF EnterContext
  <1>5. entry.request = e.request
    OBVIOUS
  <1> HIDE DEF entry
  <1>6. state = [t \in Tids |-> state[t]]
    BY DEF AttributorTypes
  <1>. QED  BY <1>3, <1>4, <1>5, <1>6

(* The request of the main thread moves, and nothing that the tables say.    *)
LEMMA MainMoves ==
    ASSUME BridgeInv, Clean, NEW e, OnContext(e), e.tid = Main,
           e.request = current'[Main].request, e.request \in Contexts,
           \A t \in Pool : current'[t] = current[t],
           UNCHANGED workVars, ~Entered, ~Entered'
    PROVE  Clean'
  <1>1. Main \in Tids /\ Main \notin Pool /\ Pool \subseteq Tids /\ AttributorTypes
    BY BridgeAssumption, AttributionAssumption DEF Threads, Clean
  <1>2. /\ EnterContext(e, {})
        /\ UNCHANGED <<operations, activeWork, runtimeSpans, ipcJobs, ipcActive, bound>>
    BY DEF OnContext
  <1>3. /\ state' = [t \in Tids |-> state'[t]] /\ state'[Main].request = e.request
        /\ \A t \in Tids : t # Main => state'[t] = state[t]
        /\ errors' = errors
    BY <1>1, <1>2, Transition
  <1>4. AttributorTypes'
    BY <1>1, <1>2, <1>3 DEF AttributorTypes
  <1>5. Followed'
    <2>1. \A t \in Threads : state'[t].request = current'[t].request
      BY <1>1, <1>3 DEF Threads, Clean, Followed
    <2>2. activeWork' = [t \in Tids |-> IF t \in Pool /\ running'[t] # Nothing
                                        THEN <<current'[t].operation>> ELSE <<>>]
      BY <1>2 DEF Clean, Followed, workVars
    <2>3. \A a \in DOMAIN records' :
             Tells(records[a].operation, records[a].request, Began(a), Through(a))'
      BY <1>2 DEF Clean, Followed, workVars, Tells, Began, Through, Runs
    <2>. QED  BY <2>1, <2>2, <2>3 DEF Followed
  <1>6. AllClosed'
    BY <1>2 DEF Clean, AllClosed, Going, Closed, workVars
  <1>. QED  BY <1>2, <1>3, <1>4, <1>5, <1>6 DEF Clean, BoundToOwner

(* Nothing that the attributor follows moves. *)
LEMMA NothingMoves ==
    ASSUME BridgeInv, Clean, UNCHANGED attributorVars,
           \A t \in Threads : current'[t].request = current[t].request,
           \A t \in Pool : current'[t] = current[t],
           UNCHANGED workVars, ~Entered, ~Entered'
    PROVE  Clean'
  <1>1. AttributorTypes'
    BY DEF Clean, AttributorTypes, attributorVars
  <1>2. Followed'
    <2>1. \A t \in Threads : state'[t].request = current'[t].request
      BY DEF Clean, Followed, attributorVars
    <2>2. activeWork' = [t \in Tids |-> IF t \in Pool /\ running'[t] # Nothing
                                        THEN <<current'[t].operation>> ELSE <<>>]
      BY DEF Clean, Followed, workVars, attributorVars
    <2>3. \A a \in DOMAIN records' :
             Tells(records[a].operation, records[a].request, Began(a), Through(a))'
      BY DEF Clean, Followed, workVars, attributorVars, Tells, Began, Through, Runs
    <2>. QED  BY <2>1, <2>2, <2>3 DEF Followed
  <1>3. AllClosed'
    BY DEF Clean, AllClosed, Going, Closed, workVars, attributorVars
  <1>. QED  BY <1>1, <1>2, <1>3 DEF Clean, BoundToOwner, attributorVars

LEMMA ContextSound ==
    ASSUME AttributionInv, NEW r \in Contexts, NativeContext(r), Observe(emitted'),
           UNCHANGED workVars, ~Entered, ~Entered'
    PROVE  Sound'
  <1>1. BridgeInv /\ Refused /\ (faults = {} => Clean)
    BY DEF AttributionInv, Refused
  <1>2. /\ current'[Main].request = r /\ \A t \in Pool : current'[t] = current[t]
    BY <1>1, StoreTyped, ContextSet
  <1>3. /\ Refused'
        /\ faults' = {} =>
              /\ faults = {}
              /\ \/ UNCHANGED <<current, attributorVars>>
                 \/ /\ OnContext(emitted')
                    /\ emitted'.tid = Main /\ emitted'.request = r
    BY <1>1, ContextTold
  <1>4. ASSUME faults' = {} PROVE Clean'
    <2>1. CASE UNCHANGED <<current, attributorVars>>
      BY <1>1, <1>3, <1>4, <2>1, NothingMoves
    <2>2. CASE OnContext(emitted') /\ emitted'.tid = Main /\ emitted'.request = r
      BY <1>1, <1>2, <1>3, <1>4, <2>2, MainMoves
    <2>. QED  BY <1>3, <1>4, <2>1, <2>2
  <1>. QED  BY <1>3, <1>4 DEF Sound

LEMMA QuietSound ==
    ASSUME AttributionInv, Quiet, Observe(emitted'), UNCHANGED <<workVars, current>>,
           ~Entered, ~Entered'
    PROVE  Sound'
  <1>1. BridgeInv /\ Refused /\ (faults = {} => Clean)
    BY DEF AttributionInv, Refused
  <1>2. UNCHANGED attributorVars /\ faults' = faults /\ Refused'
    BY <1>1, Silent
  <1>3. faults' = {} => Clean'
    BY <1>1, <1>2, NothingMoves
  <1>. QED  BY <1>2, <1>3 DEF Sound

(* A step after which nothing went wrong follows one after which nothing had. *)
LEMMA SoundIsInv == ASSUME BridgeInv, Sound PROVE AttributionInv
  BY DEF AttributionInv, Sound, Refused

-----------------------------------------------------------------------------
(* The main thread's script, step by step. *)
LEMMA InvIs == ASSUME AttributionInv PROVE BridgeInv /\ Refused /\ (faults = {} => Clean)
  BY DEF AttributionInv, Refused

LEMMA BeforeSound ==
    ASSUME AttributionInv, Observe(emitted'), NEW store \in Contexts, Before(store),
           frames = <<>> \/ Top.stage # "entered"
    PROVE  Sound'
  <1>1. /\ NativeContext(store) /\ Push(NewFrame("callback", store, Outside))
        /\ UNCHANGED workVars
    BY DEF Before
  <1>2. ~Entered /\ ~Entered'
    BY <1>1, InvIs, KindsApart, OutsideTyped, PushApart
  <1>. QED  BY <1>1, <1>2, ContextSound

LEMMA ReceiveSound == ASSUME AttributionInv, Observe(emitted'), Receive PROVE Sound'
  <1>1. frames = <<>> /\ Before(0)
    BY DEF Receive
  <1>. QED  BY <1>1, OutsideTyped, BeforeSound

LEMMA RunCallbackSound ==
    ASSUME AttributionInv, Observe(emitted'), NEW c \in Callbacks, RunCallback(c)
    PROVE  Sound'
  <1>1. c \in DOMAIN waiting /\ Before(waiting[c]) /\ (frames = <<>> \/ Top.stage # "entered")
    BY DEF RunCallback
  <1>2. waiting[c] \in Contexts
    BY <1>1, InvIs, StoreTyped
  <1>. QED  BY <1>1, <1>2, BeforeSound

LEMMA DeferSound ==
    ASSUME AttributionInv, Observe(emitted'), NEW c \in Callbacks, Defer(c) PROVE Sound'
  <1>1. /\ InFrame(Javascript) /\ Quiet /\ UNCHANGED workVars /\ UNCHANGED current
        /\ UNCHANGED frames
    BY DEF Defer
  <1>2. ~Entered
    BY <1>1, InvIs, KindsApart, InScript
  <1>3. ~Entered'
    BY <1>1, <1>2 DEF Entered
  <1>. QED  BY <1>1, <1>2, <1>3, QuietSound

LEMMA LeaveSound ==
    ASSUME AttributionInv, Observe(emitted'), NEW kinds, InFrame(kinds), "done" \notin kinds,
           NEW r \in Contexts, NativeContext(r), Pop, UNCHANGED workVars
    PROVE  Sound'
  <1>1. ~Entered /\ frames # <<>>
    BY InvIs, InScript
  <1>2. ~Entered'
    BY <1>1, InvIs, PopApart
  <1>. QED  BY <1>1, <1>2, ContextSound

LEMMA AfterSound == ASSUME AttributionInv, Observe(emitted'), After PROVE Sound'
  <1> DEFINE r == IF hooks = <<>> THEN 0 ELSE LastOf(hooks)
  <1>1. InFrame({"callback"}) /\ NativeContext(r) /\ Pop /\ UNCHANGED workVars
    BY DEF After
  <1>2. r \in Contexts
    <2>1. hooks # <<>> => LastOf(hooks) \in Contexts
      BY InvIs, StoreTyped, Fronted
    <2>. QED  BY <2>1, OutsideTyped
  <1> HIDE DEF r
  <1>. QED  BY <1>1, <1>2, LeaveSound

LEMMA EndRequestSound == ASSUME AttributionInv, Observe(emitted'), EndRequest PROVE Sound'
  <1>1. InFrame({"request"}) /\ NativeContext(0) /\ Pop /\ UNCHANGED workVars
    BY DEF EndRequest
  <1>. QED  BY <1>1, OutsideTyped, LeaveSound

LEMMA EndScopeSound == ASSUME AttributionInv, Observe(emitted'), EndScope PROVE Sound'
  <1>1. /\ InFrame({"parents", "without"}) /\ NativeContext(Top.saved.request) /\ Pop
        /\ UNCHANGED workVars
    BY DEF EndScope
  <1>2. Top \in Frame
    BY <1>1, InvIs, InScript
  <1>3. Top.saved.request \in Contexts
    BY <1>2 DEF Frame, Context
  <1>. QED  BY <1>1, <1>3, LeaveSound

(* A scope or a request is entered, or its row cannot be written and it is not. *)
LEMMA ScopeSound ==
    ASSUME AttributionInv, Observe(emitted'), NEW kinds, InFrame(kinds), "done" \notin kinds,
           NEW kind \in Javascript, NEW store \in Contexts, NEW saved \in Context,
           UNCHANGED workVars,
           \/ NativeContext(store) /\ Push(NewFrame(kind, store, saved))
           \/ Quiet /\ UNCHANGED <<current, frames>>
    PROVE  Sound'
  <1>1. ~Entered /\ Top.stage # "entered" /\ BridgeInv
    BY InvIs, InScript
  <1>2. CASE NativeContext(store) /\ Push(NewFrame(kind, store, saved))
    <2>1. ~Entered'
      BY <1>1, <1>2, PushApart
    <2>. QED  BY <1>1, <1>2, <2>1, ContextSound
  <1>3. CASE Quiet /\ UNCHANGED <<current, frames>>
    <2>1. ~Entered'
      BY <1>1, <1>3 DEF Entered
    <2>. QED  BY <1>1, <1>3, <2>1, QuietSound
  <1>. QED  BY <1>2, <1>3

LEMMA WithoutRequestSound ==
    ASSUME AttributionInv, Observe(emitted'), WithoutRequest PROVE Sound'
  <1> DEFINE saved == [request |-> Store, operation |-> 0]
  <1>1. /\ InFrame(Javascript) /\ NativeContext(0) /\ Push(NewFrame("without", 0, saved))
        /\ UNCHANGED workVars
    BY DEF WithoutRequest
  <1>2. saved \in Context /\ "without" \in Javascript
    BY InvIs, StoreTyped DEF Context, Javascript
  <1> HIDE DEF saved
  <1>. QED  BY <1>1, <1>2, KindsApart, OutsideTyped, ScopeSound

LEMMA OnRequestSound == ASSUME AttributionInv, Observe(emitted'), OnRequest PROVE Sound'
  <1>1. /\ InFrame({"callback"}) /\ next <= MaxContext /\ UNCHANGED workVars
        /\ \/ NativeContext(next) /\ Push(NewFrame("request", next, Outside))
           \/ Quiet /\ UNCHANGED <<current, frames>>
    BY DEF OnRequest
  <1>2. next \in Contexts /\ "request" \in Javascript
    <2>1. ScriptInv
      BY InvIs DEF BridgeInv
    <2>. QED  BY <1>1, <2>1, BridgeAssumption DEF ScriptInv, Contexts, Javascript
  <1>. QED  BY <1>1, <1>2, OutsideTyped, ScopeSound

LEMMA WithParentsSound ==
    ASSUME AttributionInv, Observe(emitted'), NEW parents \in SUBSET mapped,
           WithParents(parents)
    PROVE  Sound'
  <1> DEFINE roots == RootsOf(parents)
             one == CHOOSE root \in roots : TRUE
             Scope(context) == /\ NativeContext(context)
                               /\ Push(NewFrame("parents", context, current[Main]))
  <1>1. /\ InFrame(Javascript) /\ UNCHANGED workVars
        /\ \/ Cardinality(roots) = 1 /\ Scope(one)
           \/ next <= MaxContext /\ Scope(next)
           \/ Quiet /\ UNCHANGED <<current, frames>>
    BY DEF WithParents
  <1>2. BridgeInv /\ ScriptInv /\ current[Main] \in Context /\ "parents" \in Javascript
    BY InvIs, StoreTyped DEF BridgeInv, Javascript
  <1>3. roots \subseteq Contexts
    BY <1>2, RootsTyped
  <1> HIDE DEF roots
  <1>4. ASSUME NEW context \in Contexts, Scope(context) PROVE Sound'
    BY <1>1, <1>2, <1>4, KindsApart, ScopeSound
  <1>5. CASE Cardinality(roots) = 1 /\ Scope(one)
    <2>1. roots # {}
      BY <1>5, FS_EmptySet
    <2>2. one \in Contexts
      BY <1>3, <2>1
    <2> HIDE DEF one
    <2>. QED  BY <1>4, <1>5, <2>2
  <1>6. CASE next <= MaxContext /\ Scope(next)
    <2>1. next \in Contexts
      BY <1>2, <1>6, BridgeAssumption DEF ScriptInv, Contexts
    <2>. QED  BY <1>4, <1>6, <2>1
  <1>7. CASE Quiet /\ UNCHANGED <<current, frames>>
    <2>1. 0 \in Contexts /\ Outside \in Context
      BY OutsideTyped
    <2>. QED  BY <1>1, <1>2, <1>7, <2>1, KindsApart, ScopeSound
  <1>. QED  BY <1>1, <1>5, <1>6, <1>7

-----------------------------------------------------------------------------
(* What comes after COMPLETE, the effects, and the ends of the process. *)
LEMMA DoneCallbackSound == ASSUME AttributionInv, Observe(emitted'), DoneCallback PROVE Sound'
  <1> DEFINE g == [Top EXCEPT !.stage = "called"]
             f == NewFrame("callback", Store, Outside)
  <1>1. /\ InFrame({"done"}) /\ Top.stage = "completed" /\ frames' = <<g, f>>
        /\ NativeContext(Store) /\ UNCHANGED workVars
    BY DEF DoneCallback
  <1>2. g.stage = "called"
    BY <1>1, InvIs, DoneTop
  <1> HIDE DEF g, f
  <1>3. ~Entered /\ ~Entered' /\ Store \in Contexts
    BY <1>1, <1>2, InvIs, NotEntered, StoreTyped DEF Entered
  <1>. QED  BY <1>1, <1>3, ContextSound

LEMMA DoneLeaveSound == ASSUME AttributionInv, Observe(emitted'), DoneLeave PROVE Sound'
  <1>1. /\ InFrame({"done"}) /\ Top.stage # "entered" /\ Pop /\ UNCHANGED workVars
        /\ SetContext(Main, Top.saved, "DONE_LEAVE")
    BY DEF DoneLeave
  <1>2. BridgeInv /\ Top \in Frame /\ frames # <<>>
    BY <1>1, InvIs, InFrameTop
  <1>3. /\ Top.saved \in Context /\ Top.saved.request \in Contexts
        /\ current'[Main] = Top.saved /\ \A t \in Pool : current'[t] = current[t]
    <2>1. Top.saved \in Context
      BY <1>2 DEF Frame
    <2>. QED  BY <1>1, <1>2, <2>1, StoreTyped, ThreadsApart, ContextFor DEF Context
  <1>4. ~Entered /\ ~Entered'
    BY <1>1, <1>2, NotEntered, PopApart
  <1>5. /\ Refused => Refused'
        /\ faults' = {} => /\ faults = {} /\ OnContext(emitted') /\ emitted'.tid = Main
                           /\ emitted'.request = Top.saved.request
    BY <1>1, ContextMarked
  <1>6. faults' = {} => Clean'
    BY <1>1, <1>2, <1>3, <1>4, <1>5, InvIs, MainMoves
  <1>. QED  BY <1>5, <1>6, InvIs DEF Sound

LEMMA EffectSound ==
    ASSUME AttributionInv, Observe(emitted'), NEW t \in Threads, NEW owner,
           owner = current[t].request, emitted' = Effect(t, owner), faults' = faults,
           UNCHANGED <<workVars, current, frames>>
    PROVE  Sound'
  <1>1. /\ OnEffect(emitted') /\ emitted'.tid = t /\ emitted'.request = owner /\ Refused'
    BY InvIs, Acted
  <1>2. ASSUME faults' = {} PROVE Clean'
    <2>1. Clean
      BY <1>2, InvIs
    <2>2. /\ bound' = bound \cup {<<owner, state[t].request>>}
          /\ UNCHANGED <<state, operations, activeWork, runtimeSpans, ipcJobs,
                         ipcActive, errors>>
      BY <1>1 DEF OnEffect
    <2>3. AttributorTypes'
      BY <2>1, <2>2 DEF Clean, AttributorTypes
    <2>4. Followed'
      BY <2>1, <2>2 DEF Clean, Followed, workVars, Tells, Began, Through, Runs, Entered, Ran
    <2>5. AllClosed'
      BY <2>1, <2>2 DEF Clean, AllClosed, Going, Closed, workVars, Entered
    <2>6. BoundToOwner'
      <3>1. state[t].request = owner
        BY <2>1 DEF Clean, Followed
      <3>2. \A row \in bound' : row \in bound \/ row = <<owner, owner>>
        BY <2>2, <3>1
      <3>3. \A row \in bound : row[2] = row[1]
        BY <2>1 DEF Clean, BoundToOwner
      <3>. QED  BY <3>2, <3>3 DEF BoundToOwner
    <2>. QED  BY <2>1, <2>2, <2>3, <2>4, <2>5, <2>6 DEF Clean
  <1>. QED  BY <1>1, <1>2 DEF Sound

LEMMA MainEffectSound == ASSUME AttributionInv, Observe(emitted'), MainEffect PROVE Sound'
  <1>1. /\ emitted' = Effect(Main, Store) /\ faults' = faults
        /\ UNCHANGED <<workVars, current, frames>>
    BY DEF MainEffect
  <1>2. current[Main].request = Store /\ Main \in Threads
    BY InvIs, StoreTyped, ThreadsApart
  <1>. QED  BY <1>1, <1>2, EffectSound

(* A pool thread's context is the record of the work it runs. *)
LEMMA PoolContext ==
    ASSUME BridgeInv, NEW t \in Pool, running[t] # Nothing
    PROVE  /\ running[t] \in DOMAIN records /\ running[t] \in Addresses
           /\ current[t] = records[running[t]] /\ current[t] \in Context
           /\ current[t].request = meantFor[running[t]]
  <1>1. running[t] \in Addresses /\ Runs(running[t])
    BY DEF BridgeInv, WorkTypes, Runs
  <1>2. running[t] \in DOMAIN records
    BY <1>1 DEF BridgeInv, Recorded
  <1>. QED  BY <1>1, <1>2 DEF BridgeInv, Recorded

LEMMA PoolEffectSound ==
    ASSUME AttributionInv, Observe(emitted'), NEW t \in Pool, PoolEffect(t) PROVE Sound'
  <1>1. /\ emitted' = Effect(t, meantFor[running[t]]) /\ faults' = faults
        /\ UNCHANGED <<workVars, current, frames>> /\ running[t] # Nothing
    BY DEF PoolEffect
  <1>2. current[t].request = meantFor[running[t]] /\ t \in Threads
    BY <1>1, InvIs, PoolContext DEF Threads
  <1>. QED  BY <1>1, <1>2, EffectSound

LEMMA EndsSound ==
    ASSUME AttributionInv, Observe(emitted'), SubmitAfterFailure \/ ExitNormally PROVE Sound'
  <1>1. /\ Quiet /\ UNCHANGED workVars /\ UNCHANGED current /\ UNCHANGED frames
        /\ InFrame(Javascript) \/ frames = <<>>
    BY DEF SubmitAfterFailure, ExitNormally
  <1>2. ~Entered
    BY <1>1, InvIs, KindsApart, InScript DEF Entered
  <1>3. ~Entered'
    BY <1>1, <1>2 DEF Entered
  <1>. QED  BY <1>1, <1>2, <1>3, QuietSound

-----------------------------------------------------------------------------
(* Work is submitted, cancelled, run and called back. *)
LEMMA CancelSound ==
    ASSUME AttributionInv, Observe(emitted'), NEW a \in Addresses, Cancel(a) PROVE Sound'
  <1>1. /\ InFrame(Javascript) /\ Quiet /\ a \in queued
        /\ finished' = finished \cup {[work |-> a, status |-> "cancelled"]}
        /\ UNCHANGED <<records, operation, running, meantFor, current, frames>>
    BY DEF Cancel
  <1>2. UNCHANGED attributorVars /\ faults' = faults /\ Refused'
    BY <1>1, InvIs, Silent
  <1>3. \A b : Through(b)' <=> Through(b)
    BY <1>1 DEF Through
  <1>4. ASSUME Clean PROVE Clean'
    <2>1. AttributorTypes'
      BY <1>2, <1>4 DEF Clean, AttributorTypes, attributorVars
    <2>2. Followed'
      BY <1>1, <1>2, <1>3, <1>4
         DEF Clean, Followed, attributorVars, Tells, Began, Runs, Entered, Ran
    <2>3. AllClosed'
      BY <1>1, <1>2, <1>4 DEF Clean, AllClosed, Going, Closed, attributorVars, Entered
    <2>. QED  BY <1>2, <1>4, <2>1, <2>2, <2>3 DEF Clean, BoundToOwner, attributorVars
  <1>. QED  BY <1>2, <1>4, InvIs DEF Sound

(* The tables about the work that is under way. *)
LEMMA Known ==
    ASSUME BridgeInv, Clean
    PROVE  /\ operation \in Nat /\ operation \notin DOMAIN operations
           /\ \A o \in DOMAIN operations : operations[o] \in Life
           /\ \A a \in DOMAIN records :
                 /\ records[a] \in Context /\ records[a].request \in Contexts
                 /\ records[a].operation \in Nat /\ records[a].operation < operation
                 /\ Tells(records[a].operation, records[a].request, Began(a), Through(a))
           /\ \A a, b \in DOMAIN records : records[a].operation = records[b].operation => a = b
  <1>1. operation \in Nat
    BY DEF BridgeInv, WorkTypes
  <1>2. operation \notin DOMAIN operations
    BY <1>1 DEF Clean, AllClosed
  <1>3. \A o \in DOMAIN operations : operations[o] \in Life
    BY DEF Clean, AttributorTypes
  <1>4. \A a \in DOMAIN records :
           /\ records[a] \in Context /\ records[a].request \in Contexts
           /\ records[a].operation \in Nat /\ records[a].operation < operation
    BY HeldHere DEF BridgeInv, Recorded, Context
  <1>5. /\ \A a \in DOMAIN records :
              Tells(records[a].operation, records[a].request, Began(a), Through(a))
        /\ \A a, b \in DOMAIN records : records[a].operation = records[b].operation => a = b
    BY DEF Clean, Followed, BridgeInv, Recorded
  <1>. QED  BY <1>1, <1>2, <1>3, <1>4, <1>5

LEMMA KnownRequest ==
    ASSUME NEW e, e.request \in Contexts
    PROVE  UnknownRequest(e) = {}
  <1>1. e.request # 0 => e.request \in 1 .. MaxContext
    BY BridgeAssumption DEF Contexts
  <1>. QED  BY <1>1, AttributionAssumption DEF UnknownRequest, Refusal

(* One operation changes in the table, and the others are told as before. *)
OnlyChanges(o) ==
    /\ DOMAIN operations \subseteq DOMAIN operations'
    /\ \A p \in DOMAIN operations : p # o => operations'[p] = operations[p]

LEMMA TellsKept ==
    ASSUME NEW o, OnlyChanges(o), NEW b, Tells(records[b].operation, records[b].request,
                                               Began(b), Through(b)),
           records[b].operation # o, records'[b] = records[b],
           Began(b)' <=> Began(b), Through(b)' <=> Through(b)
    PROVE  Tells(records[b].operation, records[b].request, Began(b), Through(b))'
  BY DEF Tells, OnlyChanges

LEMMA SubmitSound ==
    ASSUME AttributionInv, Observe(emitted'), NEW a \in Addresses, Submit(a) PROVE Sound'
  <1> DEFINE record == [request |-> current[Main].request, operation |-> operation]
             life == [request |-> record.request, started |-> FALSE, finished |-> FALSE,
                      completed |-> FALSE, status |-> "none"]
  <1>1. /\ InFrame(Javascript) /\ ~InUse(a) /\ operation' = operation + 1
        /\ UNCHANGED <<running, finished, current, frames>>
        /\ \/ /\ a \notin DOMAIN records
              /\ records' = [y \in DOMAIN records \cup {a} |->
                                IF y = a THEN record ELSE records[y]]
              /\ Emit(Marker("SUBMIT", Main, record.request, record.operation))
           \/ a \in DOMAIN records
    BY DEF Submit, Extend
  <1>2. BridgeInv /\ ~Runs(a) /\ ~Ends(a) /\ a \notin queued
    BY <1>1, InvIs DEF InUse, Runs, Ends
  <1>3. a \notin DOMAIN records
    BY <1>2 DEF BridgeInv, Recorded
  <1>4. ~Entered /\ ~Entered'
    <2>1. ~Entered
      BY <1>1, <1>2, KindsApart, InScript
    <2>. QED  BY <1>1, <2>1 DEF Entered
  <1>5. /\ record.request = current[Main].request /\ record.operation = operation
        /\ record.request \in Contexts
    BY <1>2, StoreTyped
  <1>6. life \in Life /\ life.request = record.request
        /\ ~life.started /\ ~life.finished /\ ~life.completed
    BY <1>5 DEF Life
  <1> HIDE DEF record, life
  <1>7. /\ Refused'
        /\ faults' = {} => /\ Clean /\ OnSubmit(emitted')
                           /\ Reads(emitted', "SUBMIT", Main, record.request, operation, "ok")
    <2>1. "SUBMIT" \in Kinds
      BY DEF Kinds
    <2>2. Emit(Marker("SUBMIT", Main, record.request, operation))
      BY <1>1, <1>3, <1>5
    <2>3. /\ Refused => Refused'
          /\ faults' = {} =>
                /\ faults = {} /\ ~Unusable(emitted')
                /\ Reads(emitted', "SUBMIT", Main, record.request, operation, "ok")
      BY <2>1, <2>2, EmittedPlain
    <2>4. ~Unusable(emitted') /\ emitted'.kind = "SUBMIT" => OnSubmit(emitted')
      BY ByKind
    <2>. QED  BY <2>3, <2>4, InvIs DEF Reads
  <1>8. ASSUME faults' = {} PROVE Clean'
    <2> DEFINE e == emitted'
    <2>1. /\ Clean /\ OnSubmit(e) /\ e.operation = operation /\ e.request = record.request
          /\ e.span = 0
      BY <1>7, <1>8 DEF Reads
    <2>2. /\ operation \in Nat /\ operation \notin DOMAIN operations
          /\ \A o \in DOMAIN operations : operations[o] \in Life
      BY <1>2, <2>1, Known
    <2>3. operations' = [o \in DOMAIN operations \cup {operation} |->
                            IF o = operation THEN life ELSE operations[o]]
      BY <2>1 DEF OnSubmit, Put, life
    <2>4. /\ runtimeSpans' = runtimeSpans
          /\ UNCHANGED <<state, activeWork, ipcJobs, ipcActive, bound>>
      BY <2>1 DEF OnSubmit
    <2>5. errors' = {}
      <3>1. UnknownRequest(e) = {}
        BY <1>5, <2>1, KnownRequest
      <3>2. Refusal(e.operation \in DOMAIN operations, "duplicate operation") = {}
        BY <2>1, <2>2 DEF Refusal
      <3>3. Refusal(e.span # 0 /\ runtimeSpans'[e.span] # e.request,
                    "span changed identity") = {}
        BY <2>1 DEF Refusal
      <3>. QED  BY <2>1, <3>1, <3>2, <3>3 DEF OnSubmit, Clean
    <2> HIDE DEF e
    <2>6. /\ DOMAIN operations' = DOMAIN operations \cup {operation}
          /\ operations'[operation] = life /\ OnlyChanges(operation)
          /\ operations' \in [DOMAIN operations' -> Life]
      BY <1>6, <2>2, <2>3 DEF OnlyChanges
    <2>7. AttributorTypes'
      BY <2>1, <2>4, <2>6 DEF Clean, AttributorTypes
    <2>8. /\ DOMAIN records' = DOMAIN records \cup {a} /\ records'[a] = record
          /\ \A b \in DOMAIN records : b # a /\ records'[b] = records[b]
      BY <1>1, <1>3
    <2>9. Followed'
      <3>1. \A b : (Began(b)' <=> Began(b)) /\ (Through(b)' <=> Through(b))
        BY <1>1 DEF Began, Through, Runs
      <3>2. Tells(records[a].operation, records[a].request, Began(a), Through(a))'
        <4>1. ~Began(a) /\ ~Through(a)
          BY <1>2 DEF Began, Through, Ends
        <4>. QED  BY <1>5, <1>6, <2>6, <2>8, <3>1, <4>1 DEF Tells
      <3>3. ASSUME NEW b \in DOMAIN records
            PROVE  Tells(records[b].operation, records[b].request, Began(b), Through(b))'
        <4>1. /\ records[b].operation # operation
              /\ Tells(records[b].operation, records[b].request, Began(b), Through(b))
          BY <1>2, <2>1, <2>2, Known
        <4>. QED  BY <2>6, <2>8, <3>1, <4>1, TellsKept
      <3>4. \A b \in DOMAIN records' :
               Tells(records[b].operation, records[b].request, Began(b), Through(b))'
        BY <2>8, <3>2, <3>3
      <3>5. activeWork' = [t \in Tids |-> IF t \in Pool /\ running'[t] # Nothing
                                          THEN <<current'[t].operation>> ELSE <<>>]
        BY <1>1, <2>1, <2>4 DEF Clean, Followed
      <3>6. \A t \in Threads : state'[t].request = current'[t].request
        BY <1>1, <2>1, <2>4 DEF Clean, Followed
      <3>. QED  BY <1>4, <3>4, <3>5, <3>6 DEF Followed
    <2>10. AllClosed'
      <3> SUFFICES ASSUME NEW o \in DOMAIN operations'
                   PROVE  /\ o \in Nat /\ o < operation'
                          /\ Going(o)' \/ Closed(o)'
        BY DEF AllClosed
      <3>1. CASE o = operation
        BY <1>1, <1>5, <2>2, <2>8, <3>1 DEF Going
      <3>2. CASE o # operation
        <4>1. o \in DOMAIN operations /\ operations'[o] = operations[o]
          BY <2>6, <3>2 DEF OnlyChanges
        <4>2. o \in Nat /\ o < operation /\ (Going(o) \/ Closed(o))
          BY <2>1, <4>1 DEF Clean, AllClosed
        <4>3. Going(o) => Going(o)'
          BY <1>4, <2>8 DEF Going
        <4>4. Closed(o) => Closed(o)'
          BY <4>1 DEF Closed
        <4>. QED  BY <1>1, <2>2, <4>2, <4>3, <4>4
      <3>. QED  BY <3>1, <3>2
    <2>. QED  BY <2>1, <2>4, <2>5, <2>7, <2>9, <2>10 DEF Clean, BoundToOwner
  <1>. QED  BY <1>7, <1>8 DEF Sound

LEMMA WorkEnterSound ==
    ASSUME AttributionInv, Observe(emitted'), NEW t \in Pool, NEW a \in Addresses,
           WorkEnter(t, a)
    PROVE  Sound'
  <1> DEFINE op == records[a].operation
  <1>1. /\ running[t] = Nothing /\ a \in queued /\ a \in DOMAIN records
        /\ running' = [running EXCEPT ![t] = a]
        /\ SetContext(t, records[a], "WORK_ENTER")
        /\ UNCHANGED <<records, operation, finished, frames>>
    BY DEF WorkEnter, LookupForWork
  <1>2. /\ BridgeInv /\ records[a] \in Context /\ op \in Nat /\ ~Runs(a) /\ ~Ends(a)
        /\ records[a].request \in Contexts
    <2>1. BridgeInv /\ records[a] \in Context
      BY <1>1, InvIs, HeldHere
    <2>. QED  BY <1>1, <2>1 DEF BridgeInv, Placed, Context
  <1>3. /\ current'[t] = records[a] /\ \A u \in Threads \ {t} : current'[u] = current[u]
        /\ t \in Threads /\ t \in Tids /\ Main \in Threads \ {t}
    BY <1>1, <1>2, StoreTyped, ThreadsApart, ContextFor, AttributionAssumption
  <1>4. /\ a # Nothing /\ running'[t] = a /\ \A u \in Pool \ {t} : running'[u] = running[u]
    BY <1>1, <1>2, BridgeAssumption DEF BridgeInv, WorkTypes
  <1>5. /\ Refused'
        /\ faults' = {} => /\ Clean /\ OnWorkEnter(emitted') /\ emitted'.tid = t
                           /\ emitted'.request = records[a].request /\ emitted'.operation = op
    BY <1>1, InvIs, ContextMarked
  <1>6. /\ \A b \in Addresses : b # a => (Runs(b)' <=> Runs(b))
        /\ Runs(a)' /\ \A b : Through(b)' <=> Through(b)
    <2>1. \A b \in Addresses : b # a => (Runs(b)' <=> Runs(b))
      BY <1>1, <1>4, BridgeAssumption DEF Runs
    <2>. QED  BY <1>1, <1>4, <2>1 DEF Runs, Through
  <1> HIDE DEF op
  <1>7. ASSUME faults' = {} PROVE Clean'
    <2> DEFINE e == emitted'
    <2>1. /\ Clean /\ OnWorkEnter(e) /\ e.tid = t /\ e.request = records[a].request
          /\ e.operation = op
      BY <1>5, <1>7
    <2>2. /\ op \in DOMAIN operations /\ operations[op] \in Life
          /\ operations[op].request = records[a].request
          /\ ~operations[op].started /\ ~operations[op].finished /\ ~operations[op].completed
      <3>1. ~Began(a) /\ ~Through(a)
        BY <1>2 DEF Began, Through, Ends
      <3>2. Tells(op, records[a].request, Began(a), Through(a))
        BY <1>1, <1>2, <2>1, Known DEF op
      <3>. QED  BY <1>2, <2>1, <3>1, <3>2, Known DEF Tells
    <2>3. /\ operations' = [operations EXCEPT ![op].started = TRUE]
          /\ activeWork' = [activeWork EXCEPT ![t] = Append(@, op)]
          /\ EnterContext(e, {})
          /\ UNCHANGED <<runtimeSpans, ipcJobs, ipcActive, bound>>
      BY <2>1, <2>2 DEF OnWorkEnter, Refusal
    <2> HIDE DEF e
    <2>4. /\ state' = [u \in Tids |-> state'[u]] /\ state'[t].request = records[a].request
          /\ \A u \in Tids : u # t => state'[u] = state[u]
          /\ errors' = errors
      BY <1>2, <1>3, <2>1, <2>3, Transition DEF Clean
    <2>5. /\ DOMAIN operations' = DOMAIN operations /\ OnlyChanges(op)
          /\ operations' \in [DOMAIN operations' -> Life]
          /\ operations'[op].request = records[a].request
          /\ operations'[op].started /\ ~operations'[op].finished
          /\ ~operations'[op].completed
      <3> DEFINE life == [operations[op] EXCEPT !.started = TRUE]
      <3>1. /\ life \in Life /\ life.request = records[a].request
            /\ life.started /\ ~life.finished /\ ~life.completed
        BY <2>2 DEF Life
      <3>2. operations' = [operations EXCEPT ![op] = life]
        BY <2>3
      <3> HIDE DEF life
      <3>3. operations \in [DOMAIN operations -> Life]
        BY <2>1 DEF Clean, AttributorTypes
      <3>. QED  BY <2>2, <3>1, <3>2, <3>3 DEF OnlyChanges
    <2>6. AttributorTypes'
      BY <2>1, <2>3, <2>4, <2>5 DEF Clean, AttributorTypes
    <2>7. Followed'
      <3>1. Tells(records[a].operation, records[a].request, Began(a), Through(a))'
        <4>1. Began(a)' /\ ~Through(a)'
          BY <1>2, <1>6 DEF Began, Through, Ends
        <4>. QED  BY <1>1, <2>2, <2>5, <4>1 DEF Tells, op
      <3>2. ASSUME NEW b \in DOMAIN records, b # a
            PROVE  Tells(records[b].operation, records[b].request, Began(b), Through(b))'
        <4>1. /\ records[b].operation # op /\ b \in Addresses
              /\ Tells(records[b].operation, records[b].request, Began(b), Through(b))
          BY <1>1, <1>2, <2>1, <3>2, Known, HeldHere DEF op
        <4>2. (Began(b)' <=> Began(b)) /\ (Through(b)' <=> Through(b))
          BY <1>6, <3>2, <4>1 DEF Began
        <4>. QED  BY <1>1, <2>5, <4>1, <4>2, TellsKept
      <3>3. \A b \in DOMAIN records' :
               Tells(records[b].operation, records[b].request, Began(b), Through(b))'
        BY <1>1, <3>1, <3>2
      <3>4. activeWork' = [u \in Tids |-> IF u \in Pool /\ running'[u] # Nothing
                                          THEN <<current'[u].operation>> ELSE <<>>]
        <4>1. activeWork = [u \in Tids |-> IF u \in Pool /\ running[u] # Nothing
                                           THEN <<current[u].operation>> ELSE <<>>]
          BY <2>1 DEF Clean, Followed
        <4>2. activeWork[t] = <<>> /\ Append(activeWork[t], op) = <<op>>
          <5>1. activeWork[t] = <<>>
            BY <1>1, <1>3, <4>1
          <5>2. Append(<<>>, op) = <<op>>
            OBVIOUS
          <5>. QED  BY <5>1, <5>2
        <4>3. activeWork' = [u \in Tids |-> IF u = t THEN <<op>> ELSE activeWork[u]]
          BY <2>3, <4>1, <4>2
        <4>4. \A u \in Pool : u # t => running'[u] = running[u] /\ current'[u] = current[u]
          BY <1>3, <1>4, ThreadsApart
        <4>. QED  BY <1>3, <1>4, <4>1, <4>3, <4>4 DEF op
      <3>5. \A u \in Threads : state'[u].request = current'[u].request
        BY <1>3, <2>1, <2>4, AttributionAssumption DEF Clean, Followed
      <3>6. Entered' => Tells(frames[1].operation, current[Main].request, Ran, Ran)'
        <4>1. current'[Main] = current[Main]
          BY <1>3
        <4>2. Entered => frames[1].operation # op
          BY <1>1, <1>2 DEF BridgeInv, DoneInv, op
        <4>. QED  BY <1>1, <2>1, <2>5, <4>1, <4>2
                  DEF Clean, Followed, Tells, Entered, Ran, OnlyChanges
      <3>. QED  BY <3>3, <3>4, <3>5, <3>6 DEF Followed
    <2>8. AllClosed'
      <3> SUFFICES ASSUME NEW o \in DOMAIN operations'
                   PROVE  /\ o \in Nat /\ o < operation'
                          /\ Going(o)' \/ Closed(o)'
        BY DEF AllClosed
      <3>1. o \in Nat /\ o < operation /\ (Going(o) \/ Closed(o))
        BY <2>1, <2>5 DEF Clean, AllClosed
      <3>2. Going(o)' <=> Going(o)
        BY <1>1 DEF Going, Entered
      <3>3. Going(op)
        BY <1>1 DEF Going, op
      <3>4. o # op /\ Closed(o) => Closed(o)'
        BY <2>5 DEF Closed, OnlyChanges
      <3>. QED  BY <1>1, <3>1, <3>2, <3>3, <3>4
    <2>. QED  BY <2>1, <2>3, <2>4, <2>6, <2>7, <2>8 DEF Clean, BoundToOwner
  <1>. QED  BY <1>5, <1>7 DEF Sound

LEMMA OneElement ==
    ASSUME NEW x
    PROVE  LastOf(<<x>>) = x /\ FrontOf(<<x>>) = <<>> /\ <<x>> # <<>>
  <1>1. <<x>> \in Seq({x}) /\ Len(<<x>>) = 1 /\ <<x>>[1] = x /\ <<x>> # <<>>
    OBVIOUS
  <1> DEFINE s == <<x>>
  <1> HIDE DEF s
  <1>2. s \in Seq({x}) /\ Len(s) = 1 /\ s[1] = x /\ s # <<>>
    BY <1>1 DEF s
  <1>3. LastOf(s) = s[Len(s)] /\ (FrontOf(s) = <<>> <=> Len(s) = 1)
    BY <1>2, Fronted
  <1>. QED  BY <1>2, <1>3 DEF s

LEMMA WorkLeaveSound ==
    ASSUME AttributionInv, Observe(emitted'), NEW t \in Pool, WorkLeave(t) PROVE Sound'
  <1> DEFINE a == running[t]
             op == current[t].operation
             f == [work |-> a, status |-> "ok"]
  <1>1. /\ a # Nothing /\ running' = [running EXCEPT ![t] = Nothing]
        /\ finished' = finished \cup {f}
        /\ SetContext(t, Outside, "WORK_LEAVE")
        /\ UNCHANGED <<records, operation, frames>>
    BY DEF WorkLeave
  <1>2. /\ BridgeInv /\ a \in DOMAIN records /\ a \in Addresses /\ Runs(a)
        /\ current[t] = records[a] /\ op = records[a].operation
        /\ f.work = a /\ f.status = "ok"
    BY <1>1, InvIs, PoolContext DEF Runs
  <1>3. /\ current'[t] = Outside /\ \A u \in Threads \ {t} : current'[u] = current[u]
        /\ t \in Threads /\ t \in Tids /\ Main \in Threads \ {t}
    BY <1>1, <1>2, OutsideTyped, StoreTyped, ThreadsApart, ContextFor, AttributionAssumption
  <1>4. running'[t] = Nothing /\ \A u \in Pool \ {t} : running'[u] = running[u]
    BY <1>1, <1>2 DEF BridgeInv, WorkTypes
  <1>5. /\ Refused'
        /\ faults' = {} => /\ Clean /\ OnWorkLeave(emitted') /\ emitted'.tid = t
                           /\ emitted'.request = 0
    BY <1>1, OutsideTyped, InvIs, ContextMarked
  <1> HIDE DEF a, op, f
  <1>6. /\ \A b \in Addresses : b # a => (Runs(b)' <=> Runs(b))
        /\ \A b \in Addresses : b # a => (Through(b)' <=> Through(b))
        /\ \A b : b = a => Through(b)'
    <2>1. \A b \in Addresses : b # a => (Runs(b)' <=> Runs(b))
      BY <1>4, BridgeAssumption DEF Runs, a
    <2>2. \A b \in Addresses : b # a => (Through(b)' <=> Through(b))
      BY <1>1, <1>2 DEF Through
    <2>3. \A b : b = a => Through(b)'
      BY <1>1, <1>2 DEF Through
    <2>. QED  BY <2>1, <2>2, <2>3
  <1>7. ASSUME faults' = {} PROVE Clean'
    <2> DEFINE e == emitted'
    <2>1. Clean /\ OnWorkLeave(e) /\ e.tid = t /\ e.request = 0
      BY <1>5, <1>7
    <2>2. /\ op \in DOMAIN operations /\ operations[op] \in Life
          /\ operations[op].request = records[a].request
          /\ operations[op].started /\ ~operations[op].completed
      <3>1. Began(a)
        BY <1>2 DEF Began
      <3>2. Tells(op, records[a].request, Began(a), Through(a))
        BY <1>2, <2>1, Known
      <3>. QED  BY <1>2, <2>1, <3>1, <3>2, Known DEF Tells
    <2>3. activeWork = [u \in Tids |-> IF u \in Pool /\ running[u] # Nothing
                                       THEN <<current[u].operation>> ELSE <<>>]
      BY <2>1 DEF Clean, Followed
    <2>4. /\ activeWork[t] = <<op>> /\ LastOf(activeWork[t]) = op
          /\ FrontOf(activeWork[t]) = <<>> /\ activeWork[t] # <<>>
      <3>1. activeWork[t] = <<op>>
        BY <1>1, <1>3, <2>3 DEF a, op
      <3>. QED  BY <3>1, OneElement
    <2>5. /\ operations' = [operations EXCEPT ![op].finished = TRUE]
          /\ activeWork' = [activeWork EXCEPT ![t] = <<>>]
          /\ EnterContext(e, {})
          /\ UNCHANGED <<runtimeSpans, ipcJobs, ipcActive, bound>>
      BY <2>1, <2>2, <2>4 DEF OnWorkLeave, Refusal
    <2> HIDE DEF e
    <2>6. /\ state' = [u \in Tids |-> state'[u]] /\ state'[t].request = 0
          /\ \A u \in Tids : u # t => state'[u] = state[u]
          /\ errors' = errors
      BY <1>3, <2>1, <2>5, OutsideTyped, Transition DEF Clean
    <2>7. /\ DOMAIN operations' = DOMAIN operations /\ OnlyChanges(op)
          /\ operations' \in [DOMAIN operations' -> Life]
          /\ operations'[op].request = records[a].request
          /\ operations'[op].started /\ operations'[op].finished
          /\ ~operations'[op].completed
      <3> DEFINE life == [operations[op] EXCEPT !.finished = TRUE]
      <3>1. /\ life \in Life /\ life.request = records[a].request
            /\ life.started /\ life.finished /\ ~life.completed
        BY <2>2 DEF Life
      <3>2. operations' = [operations EXCEPT ![op] = life]
        BY <2>5
      <3> HIDE DEF life
      <3>3. operations \in [DOMAIN operations -> Life]
        BY <2>1 DEF Clean, AttributorTypes
      <3>. QED  BY <2>2, <3>1, <3>2, <3>3 DEF OnlyChanges
    <2>8. AttributorTypes'
      BY <2>1, <2>5, <2>6, <2>7 DEF Clean, AttributorTypes
    <2>9. Followed'
      <3>1. ASSUME NEW b \in DOMAIN records, b = a
            PROVE  Tells(records[b].operation, records[b].request, Began(b), Through(b))'
        <4>1. Began(b)' /\ Through(b)'
          BY <1>6, <3>1 DEF Began
        <4>. QED  BY <1>1, <1>2, <2>2, <2>7, <3>1, <4>1 DEF Tells
      <3>2. ASSUME NEW b \in DOMAIN records, b # a
            PROVE  Tells(records[b].operation, records[b].request, Began(b), Through(b))'
        <4>1. /\ records[b].operation # op /\ b \in Addresses
              /\ Tells(records[b].operation, records[b].request, Began(b), Through(b))
          BY <1>2, <2>1, <3>2, Known, HeldHere
        <4>2. (Began(b)' <=> Began(b)) /\ (Through(b)' <=> Through(b))
          BY <1>6, <3>2, <4>1 DEF Began
        <4>. QED  BY <1>1, <2>7, <4>1, <4>2, TellsKept
      <3>3. \A b \in DOMAIN records' :
               Tells(records[b].operation, records[b].request, Began(b), Through(b))'
        BY <1>1, <3>1, <3>2
      <3>4. activeWork' = [u \in Tids |-> IF u \in Pool /\ running'[u] # Nothing
                                          THEN <<current'[u].operation>> ELSE <<>>]
        <4>1. activeWork' = [u \in Tids |-> IF u = t THEN <<>> ELSE activeWork[u]]
          BY <2>3, <2>5
        <4>2. \A u \in Pool : u # t => running'[u] = running[u] /\ current'[u] = current[u]
          BY <1>3, <1>4, ThreadsApart
        <4>. QED  BY <1>3, <1>4, <2>3, <4>1, <4>2
      <3>5. \A u \in Threads : state'[u].request = current'[u].request
        BY <1>3, <2>1, <2>6, OutsideTyped, AttributionAssumption DEF Clean, Followed
      <3>6. Entered' => Tells(frames[1].operation, current[Main].request, Ran, Ran)'
        <4>1. current'[Main] = current[Main]
          BY <1>3
        <4>2. Entered => frames[1].operation # op
          BY <1>2 DEF BridgeInv, DoneInv
        <4>. QED  BY <1>1, <2>1, <2>7, <4>1, <4>2
                  DEF Clean, Followed, Tells, Entered, Ran, OnlyChanges
      <3>. QED  BY <3>3, <3>4, <3>5, <3>6 DEF Followed
    <2>10. AllClosed'
      <3> SUFFICES ASSUME NEW o \in DOMAIN operations'
                   PROVE  /\ o \in Nat /\ o < operation'
                          /\ Going(o)' \/ Closed(o)'
        BY DEF AllClosed
      <3>1. o \in Nat /\ o < operation /\ (Going(o) \/ Closed(o))
        BY <2>1, <2>7 DEF Clean, AllClosed
      <3>2. Going(o)' <=> Going(o)
        BY <1>1 DEF Going, Entered
      <3>3. Going(op)
        BY <1>2 DEF Going
      <3>4. o # op /\ Closed(o) => Closed(o)'
        BY <2>7 DEF Closed, OnlyChanges
      <3>. QED  BY <1>1, <3>1, <3>2, <3>3, <3>4
    <2>. QED  BY <2>1, <2>5, <2>6, <2>8, <2>9, <2>10 DEF Clean, BoundToOwner
  <1>. QED  BY <1>5, <1>7 DEF Sound

LEMMA DoneEnterSound ==
    ASSUME AttributionInv, Observe(emitted'), NEW f \in finished, DoneEnter(f) PROVE Sound'
  <1> DEFINE g == DoneFrame(f)
             a == f.work
  <1>1. /\ frames = <<>> /\ finished' = finished \ {f}
        /\ records' = [y \in DOMAIN records \ {a} |-> records[y]]
        /\ frames' = <<g>> /\ SetContext(Main, records[a], "DONE_ENTER")
        /\ UNCHANGED <<operation, running>>
    BY DEF DoneEnter, LookupForDone, Without, DoneFrame
  <1>2. /\ BridgeInv /\ a \in DOMAIN records /\ a \in Addresses /\ records[a] \in Context
        /\ records[a].request \in Contexts
        /\ DOMAIN records' = DOMAIN records \ {a}
        /\ \A b \in DOMAIN records' : records'[b] = records[b]
    BY <1>1, InvIs, HeldHere DEF Context
  <1>3. /\ g.stage = "entered" /\ g.status = f.status /\ g.operation = records[a].operation
    BY <1>2, DoneFrameTyped
  <1> HIDE DEF g
  <1>4. /\ ~Entered /\ frames'[1] = g /\ Entered'
    BY <1>1, <1>3 DEF Entered
  <1>5. /\ current'[Main] = records[a] /\ \A u \in Pool : current'[u] = current[u]
        /\ Main \in Tids /\ Pool \subseteq Tids /\ Main \notin Pool
        /\ Threads = Pool \cup {Main}
    BY <1>1, <1>2, StoreTyped, ThreadsApart, ContextFor, AttributionAssumption DEF Threads
  <1>6. /\ ~Runs(a) /\ \A h \in finished : h.work = a => h = f
        /\ \A b : b # a => (Through(b)' <=> Through(b))
        /\ \A b : Runs(b)' <=> Runs(b)
    <2>1. ~Runs(a) /\ \A h \in finished : h.work = a => h = f
      BY <1>2 DEF BridgeInv, Placed
    <2>. QED  BY <1>1, <2>1 DEF Through, Runs
  <1>7. /\ Refused'
        /\ faults' = {} => /\ Clean /\ OnContext(emitted') /\ emitted'.tid = Main
                           /\ emitted'.request = records[a].request
    BY <1>1, InvIs, ContextMarked
  <1>8. ASSUME faults' = {} PROVE Clean'
    <2> DEFINE e == emitted'
    <2>1. /\ Clean /\ OnContext(e) /\ e.tid = Main /\ e.request = records[a].request
      BY <1>7, <1>8
    <2>2. /\ EnterContext(e, {})
          /\ UNCHANGED <<operations, activeWork, runtimeSpans, ipcJobs, ipcActive, bound>>
      BY <2>1 DEF OnContext
    <2> HIDE DEF e
    <2>3. /\ state' = [t \in Tids |-> state'[t]] /\ state'[Main].request = records[a].request
          /\ \A t \in Tids : t # Main => state'[t] = state[t]
          /\ errors' = errors
      BY <1>2, <1>5, <2>1, <2>2, Transition DEF Clean
    <2>4. AttributorTypes'
      BY <2>1, <2>2, <2>3 DEF Clean, AttributorTypes
    <2>5. Followed'
      <3>1. \A t \in Threads : state'[t].request = current'[t].request
        BY <1>5, <2>1, <2>3 DEF Clean, Followed
      <3>2. activeWork' = [t \in Tids |-> IF t \in Pool /\ running'[t] # Nothing
                                          THEN <<current'[t].operation>> ELSE <<>>]
        BY <1>1, <1>5, <2>1, <2>2 DEF Clean, Followed
      <3>3. ASSUME NEW b \in DOMAIN records'
            PROVE  Tells(records[b].operation, records[b].request, Began(b), Through(b))'
        <4>1. b \in DOMAIN records /\ b # a /\ records'[b] = records[b]
          BY <1>2
        <4>2. Tells(records[b].operation, records[b].request, Began(b), Through(b))
          BY <1>2, <2>1, <4>1, Known
        <4>. QED  BY <1>6, <2>2, <4>1, <4>2 DEF Tells, Began
      <3>4. Tells(frames[1].operation, current[Main].request, Ran, Ran)'
        <4>1. Tells(records[a].operation, records[a].request, Began(a), Through(a))
          BY <1>2, <2>1, Known
        <4>2. (Through(a) <=> f.status = "ok") /\ (Began(a) <=> f.status = "ok")
          BY <1>6 DEF Through, Began
        <4>3. Ran' <=> f.status = "ok"
          BY <1>3, <1>4 DEF Ran
        <4>. QED  BY <1>3, <1>4, <1>5, <2>2, <4>1, <4>2, <4>3 DEF Tells
      <3>. QED  BY <3>1, <3>2, <3>3, <3>4 DEF Followed
    <2>6. AllClosed'
      <3> SUFFICES ASSUME NEW o \in DOMAIN operations'
                   PROVE  /\ o \in Nat /\ o < operation'
                          /\ Going(o)' \/ Closed(o)'
        BY DEF AllClosed
      <3>1. o \in Nat /\ o < operation /\ (Going(o) \/ Closed(o))
        BY <2>1, <2>2 DEF Clean, AllClosed
      <3>2. Going(o) => Going(o)'
        <4>1. ASSUME NEW b \in DOMAIN records, records[b].operation = o PROVE Going(o)'
          <5>1. CASE b = a
            BY <1>3, <1>4, <4>1, <5>1 DEF Going
          <5>2. CASE b # a
            <6>1. b \in DOMAIN records' /\ records'[b].operation = o
              BY <1>2, <4>1, <5>2
            <6>. QED  BY <6>1 DEF Going
          <5>. QED  BY <5>1, <5>2
        <4>. QED  BY <1>4, <4>1 DEF Going
      <3>3. Closed(o) => Closed(o)'
        BY <2>2 DEF Closed
      <3>. QED  BY <1>1, <3>1, <3>2, <3>3
    <2>. QED  BY <2>1, <2>2, <2>3, <2>4, <2>5, <2>6 DEF Clean, BoundToOwner
  <1>. QED  BY <1>7, <1>8 DEF Sound

LEMMA DoneCompleteSound == ASSUME AttributionInv, Observe(emitted'), DoneComplete PROVE Sound'
  <1> DEFINE op == frames[1].operation
             g == [Top EXCEPT !.stage = "completed"]
             request == current[Main].request
             status == frames[1].status
  <1>1. /\ InFrame({"done"}) /\ Top.stage = "entered" /\ frames' = <<g>>
        /\ Emit([Marker("COMPLETE", Main, current[Main].request, Top.operation)
                   EXCEPT !.status = Top.status])
        /\ UNCHANGED workVars /\ UNCHANGED current
    BY DEF DoneComplete
  <1>2. /\ BridgeInv /\ frames = <<Top>> /\ frames[1] = Top /\ Top \in Frame
        /\ g.stage = "completed" /\ request \in Contexts
    BY <1>1, InvIs, DoneTop, StoreTyped
  <1> HIDE DEF g
  <1>3. /\ Entered /\ ~Entered' /\ status \in Statuses
    BY <1>1, <1>2 DEF Entered, Frame
  <1>4. /\ Refused'
        /\ faults' = {} => /\ Clean /\ OnComplete(emitted')
                           /\ Reads(emitted', "COMPLETE", Main, request, op, status)
    <2>1. "COMPLETE" \in Kinds
      BY DEF Kinds
    <2>2. /\ Refused => Refused'
          /\ faults' = {} => /\ faults = {} /\ ~Unusable(emitted')
                             /\ Reads(emitted', "COMPLETE", Main, request, op, status)
      BY <1>1, <1>2, <2>1, EmittedStatus
    <2>3. ~Unusable(emitted') /\ emitted'.kind = "COMPLETE" => OnComplete(emitted')
      BY ByKind
    <2>. QED  BY <2>2, <2>3, InvIs DEF Reads
  <1> HIDE DEF op, request, status
  <1>5. ASSUME faults' = {} PROVE Clean'
    <2> DEFINE e == emitted'
    <2>1. /\ Clean /\ OnComplete(e) /\ e.operation = op /\ e.request = request
          /\ e.status = status
      BY <1>4, <1>5 DEF Reads
    <2>2. /\ op \in DOMAIN operations /\ operations[op] \in Life
          /\ operations[op].request = request /\ ~operations[op].completed
          /\ operations[op].started <=> status = "ok"
          /\ operations[op].finished <=> status = "ok"
      <3>1. Tells(op, request, Ran, Ran)
        BY <1>3, <2>1 DEF Clean, Followed, op, request
      <3>2. Ran <=> status = "ok"
        BY DEF Ran, status
      <3>. QED  BY <1>2, <2>1, <3>1, <3>2, Known DEF Tells
    <2>3. /\ operations' = [operations EXCEPT ![op].completed = TRUE, ![op].status = status]
          /\ UNCHANGED <<state, activeWork, runtimeSpans, ipcJobs, ipcActive, bound>>
      BY <2>1, <2>2 DEF OnComplete
    <2>4. errors' = {}
      <3>1. UnknownRequest(e) = {}
        BY <1>2, <2>1, KnownRequest
      <3>. QED  BY <2>1, <2>2, <3>1 DEF OnComplete, Refusal, Clean
    <2> HIDE DEF e
    <2>5. /\ DOMAIN operations' = DOMAIN operations /\ OnlyChanges(op)
          /\ operations' \in [DOMAIN operations' -> Life]
          /\ operations'[op].completed /\ operations'[op].status = status
          /\ operations'[op].started <=> status = "ok"
          /\ operations'[op].finished <=> status = "ok"
      <3> DEFINE life == [operations[op] EXCEPT !.completed = TRUE, !.status = status]
      <3>1. /\ life \in Life /\ life.completed /\ life.status = status
            /\ life.started <=> status = "ok"
            /\ life.finished <=> status = "ok"
        BY <1>3, <2>2 DEF Life, Statuses
      <3>2. operations' = [operations EXCEPT ![op] = life]
        BY <2>2, <2>3
      <3> HIDE DEF life
      <3>3. operations \in [DOMAIN operations -> Life]
        BY <2>1 DEF Clean, AttributorTypes
      <3>. QED  BY <2>2, <3>1, <3>2, <3>3 DEF OnlyChanges
    <2>6. AttributorTypes'
      BY <2>1, <2>3, <2>5 DEF Clean, AttributorTypes
    <2>7. Followed'
      <3>1. /\ \A t \in Threads : state'[t].request = current'[t].request
            /\ activeWork' = [t \in Tids |-> IF t \in Pool /\ running'[t] # Nothing
                                             THEN <<current'[t].operation>> ELSE <<>>]
        BY <1>1, <2>1, <2>3 DEF Clean, Followed, workVars
      <3>2. ASSUME NEW b \in DOMAIN records'
            PROVE  Tells(records[b].operation, records[b].request, Began(b), Through(b))'
        <4>1. b \in DOMAIN records /\ records'[b] = records[b]
          BY <1>1 DEF workVars
        <4>2. records[b].operation # op
          BY <1>2, <1>3, <4>1 DEF BridgeInv, DoneInv, op
        <4>3. Tells(records[b].operation, records[b].request, Began(b), Through(b))
          BY <1>2, <2>1, <4>1, Known
        <4>4. (Began(b)' <=> Began(b)) /\ (Through(b)' <=> Through(b))
          BY <1>1 DEF Began, Runs, Through, workVars
        <4>. QED  BY <2>5, <4>1, <4>2, <4>3, <4>4, TellsKept
      <3>. QED  BY <1>3, <3>1, <3>2 DEF Followed
    <2>8. AllClosed'
      <3> SUFFICES ASSUME NEW o \in DOMAIN operations'
                   PROVE  /\ o \in Nat /\ o < operation'
                          /\ Going(o)' \/ Closed(o)'
        BY DEF AllClosed
      <3>1. o \in Nat /\ o < operation /\ (Going(o) \/ Closed(o))
        BY <2>1, <2>5 DEF Clean, AllClosed
      <3>2. CASE o = op
        BY <1>1, <1>3, <2>5, <3>1, <3>2 DEF Closed, workVars
      <3>3. CASE o # op
        <4>1. Going(o) => Going(o)'
          BY <1>1, <3>3 DEF Going, workVars, op
        <4>2. Closed(o) => Closed(o)'
          BY <2>5, <3>3 DEF Closed, OnlyChanges
        <4>. QED  BY <1>1, <3>1, <4>1, <4>2 DEF workVars
      <3>. QED  BY <3>2, <3>3
    <2>. QED  BY <2>1, <2>3, <2>4, <2>6, <2>7, <2>8 DEF Clean, BoundToOwner
  <1>. QED  BY <1>4, <1>5 DEF Sound

-----------------------------------------------------------------------------
(* The whole: every state of the bridge and of its attributor. *)
LEMMA BridgeBegins == ASSUME BridgeInit PROVE BridgeInv
  <1> USE DEF BridgeInit
  <1>1. MainInv
    <2>1. frames \in Seq(Frame) /\ hooks \in Seq(Contexts) /\ DOMAIN frames = {}
          /\ DOMAIN hooks = {} /\ Store = 0
      BY DEF Store
    <2>2. Nested(frames)
      BY <2>1 DEF Nested
    <2>3. Hooked(frames, hooks)
      <3>1. [k \in DOMAIN hooks |-> 0] \in [DOMAIN hooks -> DOMAIN frames]
        BY <2>1
      <3>2. Matches([k \in DOMAIN hooks |-> 0], frames, hooks)
        BY <2>1 DEF Matches
      <3>. QED  BY <3>1, <3>2 DEF Hooked
    <2>4. /\ current \in [Threads -> Context] /\ current[Main].request = Store
          /\ waiting \in [DOMAIN waiting -> Contexts]
      BY <2>1, OutsideTyped, ThreadsApart
    <2>. QED  BY <2>1, <2>2, <2>3, <2>4 DEF MainInv
  <1>2. ScriptInv
    <2>1. 1 \in 1 .. MaxContext + 1 /\ 1 .. 1 - 1 = {}
      BY BridgeAssumption
    <2>2. owners = [c \in 1 .. next - 1 |-> owners[c]]
      BY <2>1
    <2>. QED  BY <2>1, <2>2 DEF ScriptInv
  <1>3. WorkTypes /\ Placed
    BY DEF WorkTypes, Placed, Runs, Ends
  <1>4. Recorded
    <2>1. \A a \in Addresses : ~(a \in queued \/ Runs(a) \/ Ends(a))
      BY BridgeAssumption DEF Runs, Ends
    <2>2. \A t \in Pool : current[t] = Outside /\ running[t] = Nothing
      BY ThreadsApart
    <2>. QED  BY <2>1, <2>2 DEF Recorded
  <1>5. DoneInv
    BY DEF DoneInv, Entered
  <1>. QED  BY <1>1, <1>2, <1>3, <1>4, <1>5 DEF BridgeInv

LEMMA InitAttribution == ASSUME Init PROVE AttributionInv
  <1>1. BridgeInv /\ BridgeInit /\ AttributorInit
    BY BridgeBegins DEF Init
  <1>2. AttributorTypes
    BY <1>1 DEF AttributorInit, AttributorTypes
  <1>3. Followed
    <2>1. \A t \in Threads : state[t].request = current[t].request
      BY <1>1, AttributionAssumption DEF AttributorInit, BridgeInit, NoContext, Outside
    <2>2. activeWork = [t \in Tids |-> IF t \in Pool /\ running[t] # Nothing
                                       THEN <<current[t].operation>> ELSE <<>>]
      BY <1>1 DEF AttributorInit, BridgeInit
    <2>3. DOMAIN records = {} /\ ~Entered
      BY <1>1 DEF BridgeInit, Entered
    <2>. QED  BY <2>1, <2>2, <2>3 DEF Followed
  <1>4. AllClosed /\ BoundToOwner /\ errors = {} /\ faults = {}
    BY <1>1 DEF AttributorInit, BridgeInit, AllClosed, BoundToOwner
  <1>. QED  BY <1>1, <1>2, <1>3, <1>4 DEF AttributionInv, Clean

LEMMA NextAttribution == ASSUME AttributionInv, BridgeNext, Observe(emitted') PROVE AttributionInv'
  <1>1. BridgeInv'
    BY InvIs, BridgeStep
  <1>2. Sound'
    BY ReceiveSound, OnRequestSound, EndRequestSound, AfterSound, WithoutRequestSound,
       EndScopeSound, DeferSound, RunCallbackSound, WithParentsSound, SubmitSound,
       CancelSound, EndsSound, WorkEnterSound, WorkLeaveSound, PoolEffectSound,
       DoneEnterSound, DoneCompleteSound, DoneCallbackSound, DoneLeaveSound,
       MainEffectSound
       DEF BridgeNext
  <1>. QED  BY <1>1, <1>2 DEF AttributionInv, Sound, Refused

LEMMA AttributionRests == ASSUME AttributionInv, UNCHANGED vars PROVE AttributionInv'
  <1> USE DEF vars, bridgeVars, attributorVars
  <1>1. Store' = Store /\ (Entered' <=> Entered)
    BY DEF Store, Top, Entered
  <1>2. MainInv' /\ ScriptInv' /\ WorkTypes'
    BY <1>1 DEF AttributionInv, BridgeInv, MainInv, ScriptInv, WorkTypes
  <1>3. Placed' /\ Recorded' /\ DoneInv' /\ (exit' = "normal" => Idle')
    BY <1>1 DEF AttributionInv, BridgeInv, Placed, Recorded, DoneInv, Idle, Runs, Ends
  <1>4. faults = {} => Clean'
    <2> SUFFICES ASSUME Clean PROVE Clean'
      BY DEF AttributionInv
    <2>1. AttributorTypes' /\ BoundToOwner' /\ errors' = {}
      BY DEF Clean, AttributorTypes, BoundToOwner
    <2>2. Followed'
      BY <1>1 DEF Clean, Followed, Tells, Began, Through, Runs, Ran
    <2>3. AllClosed'
      BY <1>1 DEF Clean, AllClosed, Going, Closed
    <2>. QED  BY <2>1, <2>2, <2>3 DEF Clean
  <1>. QED  BY <1>2, <1>3, <1>4 DEF AttributionInv, BridgeInv

(* The bridge and the tables that its trace leaves always agree as           *)
(* AttributionInv says: markers that context.cc writes, in the order libuv   *)
(* and the main loop bring them about, and what attribute.py makes of them.  *)
THEOREM AttributionInvariant == Spec => []AttributionInv
  <1>1. AttributionInv /\ [Next]_vars => AttributionInv'
    BY NextAttribution, AttributionRests DEF Next
  <1>. QED  BY InitAttribution, <1>1, PTL DEF Spec

(* Whenever JavaScript runs, the native context of the main thread is the    *)
(* store: the hooks, scopes and request ends of instrument.mjs and the done  *)
(* calls of context.cc restore what they displaced, however they nest.       *)
THEOREM NativeContextIsStore == Spec => []NativeIsStore
  <1>1. AttributionInv => NativeIsStore
    BY InvIs, StoreTyped DEF NativeIsStore
  <1>. QED  BY <1>1, AttributionInvariant, PTL

(* A pool thread works in the context its work was submitted under, and      *)
(* lookup of context.cc never misses what libuv still holds, however an      *)
(* address is cancelled, completed and used again.                           *)
THEOREM WorkKeepsItsSubmitter == Spec => []WorkKeepsSubmitter
  <1>1. ASSUME BridgeInv PROVE WorkKeepsSubmitter
    <2>1. \A a \in queued \cup {f.work : f \in finished} :
             a \in DOMAIN records /\ records[a].request = meantFor[a]
      BY <1>1, HeldHere DEF BridgeInv, Recorded
    <2>2. \A t \in Pool : running[t] # Nothing =>
             /\ current[t].request = meantFor[running[t]]
             /\ running[t] \in DOMAIN records /\ records[running[t]] = current[t]
      BY <1>1, PoolContext
    <2>. QED  BY <2>1, <2>2 DEF WorkKeepsSubmitter
  <1>2. AttributionInv => WorkKeepsSubmitter
    BY <1>1, InvIs
  <1>. QED  BY <1>2, AttributionInvariant, PTL

(* Of whatever becomes of the markers, short of a failed write that the      *)
(* tracer missed as well, an accepted capture has every effect of the main   *)
(* and pool threads bound to the request it ran for.                         *)
THEOREM AcceptedCapturesAreRight == Spec => []AcceptedIsRight
  <1>1. AttributionInv => AcceptedIsRight
    BY DEF AttributionInv, AcceptedIsRight, Accepted, Clean
  <1>. QED  BY <1>1, AttributionInvariant, PTL

(* A process that lost no marker and came to its end is accepted: no         *)
(* operation is left open and none ended otherwise than it was reported.     *)
THEOREM CleanCapturesAreAccepted == Spec => []CleanIsAccepted
  <1>1. ASSUME AttributionInv, faults = {}, exit = "normal" PROVE Accepted
    <2>1. Clean /\ Idle /\ BridgeInv
      BY <1>1 DEF AttributionInv, BridgeInv
    <2>2. ~Entered /\ DOMAIN records = {}
      BY <2>1, BridgeAssumption DEF Idle, Entered, BridgeInv, Recorded, Runs, Ends
    <2>3. \A o \in DOMAIN operations : Closed(o)
      BY <2>1, <2>2 DEF Clean, AllClosed, Going
    <2>4. \A o \in DOMAIN operations :
             /\ operations[o].completed
             /\ operations[o].status = "ok" =>
                   operations[o].started /\ operations[o].finished
             /\ operations[o].status = "cancelled" => ~operations[o].started
      BY <2>3 DEF Closed
    <2>5. \A t \in Tids : activeWork[t] = <<>>
      BY <2>1 DEF Clean, Followed, Idle
    <2>6. JobsClosed
      BY <2>1 DEF Clean, AttributorTypes, JobsClosed
    <2>. QED  BY <2>1, <2>4, <2>5, <2>6 DEF Accepted, CompleteLifeCycles, Clean
  <1>2. AttributionInv => CleanIsAccepted
    BY <1>1 DEF CleanIsAccepted
  <1>. QED  BY <1>2, AttributionInvariant, PTL

-----------------------------------------------------------------------------
(* A step of the bridge that numbers a context is one of the algebra. *)
Table == [s \in {"run"} |-> owners]

LEMMA NumberIsAlgebra ==
    ASSUME ScriptInv, next <= MaxContext, NEW roots, Number(roots)
    PROVE  /\ next \in 1 .. MaxContext /\ next \notin DOMAIN Table["run"]
           /\ Table' = [Table EXCEPT !["run"] = Algebra!With(Table["run"], next, roots)]
  <1>1. next \in 1 .. MaxContext
    BY BridgeAssumption DEF ScriptInv
  <1>2. DOMAIN owners = 1 .. next - 1 /\ next \notin 1 .. next - 1
    BY <1>1 DEF ScriptInv
  <1>3. owners' = Algebra!With(owners, next, roots)
    BY DEF Number, Extend, Algebra!With
  <1>. QED  BY <1>1, <1>2, <1>3 DEF Table

LEMMA AlgebraStep ==
    ASSUME BridgeInv, BridgeNext, owners' # owners
    PROVE  Algebra!AlgebraNext
  <1>1. ScriptInv
    BY DEF BridgeInv
  <1>2. \/ OnRequest
        \/ \E parents \in SUBSET mapped : WithParents(parents)
    BY DEF BridgeNext, Receive, RunCallback, Before, Defer, After, EndRequest, EndScope,
           WithoutRequest, Submit, Cancel, SubmitAfterFailure, WorkEnter, WorkLeave,
           PoolEffect, DoneEnter, DoneComplete, DoneCallback, DoneLeave, MainEffect,
           ExitNormally, scriptVars
  <1>3. CASE OnRequest
    <2>1. next <= MaxContext /\ Number({next})
      BY <1>3 DEF OnRequest
    <2>2. Algebra!Register("run", next) /\ next \in 1 .. MaxContext
      BY <1>1, <2>1, NumberIsAlgebra DEF Algebra!Register, Table
    <2>. QED  BY <2>2 DEF Algebra!AlgebraNext
  <1>4. ASSUME NEW parents \in SUBSET mapped, WithParents(parents)
        PROVE  Algebra!AlgebraNext
    <2>1. parents # {} /\ next <= MaxContext /\ Number(RootsOf(parents))
      BY <1>4 DEF WithParents, scriptVars
    <2>2. parents \in SUBSET DOMAIN owners
      BY <1>1 DEF ScriptInv
    <2>3. RootsOf(parents) = UNION {Table["run"][p] : p \in parents}
      BY DEF RootsOf, Table
    <2>4. Algebra!Combine("run", next, parents) /\ next \in 1 .. MaxContext
      BY <1>1, <2>1, <2>3, NumberIsAlgebra DEF Algebra!Combine, Table
    <2>. QED  BY <2>2, <2>4 DEF Algebra!AlgebraNext, Table
  <1>. QED  BY <1>2, <1>3, <1>4

(* instrument.mjs implements ContextAlgebra: every context it numbers is a   *)
(* new request that owns itself, or a join that owns what its parents own.   *)
THEOREM BridgeIsAlgebra == Spec => BridgeImplementsAlgebra
  <1>1. Init => Algebra!AlgebraInit
    BY DEF Init, BridgeInit, Algebra!AlgebraInit
  <1>2. AttributionInv /\ [Next]_vars => [owners' # owners => Algebra!AlgebraNext]_owners
    BY InvIs, AlgebraStep DEF Next, vars, bridgeVars
  <1>. QED  BY <1>1, <1>2, AttributionInvariant, PTL DEF Spec, BridgeImplementsAlgebra
=============================================================================
