----------------------- MODULE RuntimeAttributionProofs -----------------------
(***************************************************************************)
(* What the attributor makes of the runtime layer's markers is right, for  *)
(* any number of threads, tasks, requests, spans and intervals.            *)
(*                                                                         *)
(* As long as nothing happened that forbids accepting the capture, the     *)
(* attributor's tables mirror the layer's stacks (Mirrored).  What breaks  *)
(* the mirror either leaves an error or leaves an interval open that no    *)
(* thread can complete any more (Doomed), and that is never undone.        *)
(***************************************************************************)
EXTENDS RuntimeAttribution, TLAPS

Frame == [span : Nat, request : Nat, operation : Nat]
Phases == {"idle", "entering", "submitted", "running", "leaving", "left", "aborted"}
Endings == {"ready", "done", "resume", "panicked", "dropping", "unwinding"}
Life == [request : Nat, started : BOOLEAN, finished : BOOLEAN, completed : BOOLEAN,
         status : {"none", "ok"}]

LayerTypes ==
    /\ owner \in Seq(Nat) /\ meant \in Seq(Nat) /\ Len(meant) = Len(owner)
    /\ stack \in [Threads -> Seq(Frame)]
    /\ operation \in Nat \ {0}
    /\ pending \in [Threads -> Frame]
    /\ phase \in [Threads -> Phases]
    /\ scope \in [Threads -> Seq(Nat)]
    /\ run \in [Threads -> Tasks \cup {NoTask}]
    /\ ending \in [Threads -> Endings]
    /\ task \in [Tasks -> [status : {"absent", "ready", "polled", "done"},
                           spans : Seq(Nat), holds : BOOLEAN]]

AttributorTypes ==
    /\ state \in [Tids -> [request : Nat, operation : Nat, job : {NoJob},
                           origin : {"unobserved", "worker", "completion", "async_context"}]]
    /\ DOMAIN operations \subseteq 1 .. operation - 1
    /\ operations \in [DOMAIN operations -> Life]
    /\ activeWork \in [Tids -> Seq(Nat)]
    /\ \A t \in Tids \ Threads : activeWork[t] = <<>>
    /\ DOMAIN ipcJobs = {}
    /\ ipcActive = [t \in Tids |-> NoJob]

-----------------------------------------------------------------------------
(* The layer by itself.  A thread is inside spans that exist, in the order   *)
(* they were made; those of its task come first.                             *)
Created == 1 .. Len(owner)
Increasing(s) == \A i, j \in DOMAIN s : i < j => s[i] < s[j]

TaskSpans == \A k \in Tasks :
    /\ \A i \in DOMAIN task[k].spans : task[k].spans[i] \in Created
    /\ Increasing(task[k].spans)
    /\ task[k].status # "absent" => task[k].spans # <<>>

Polls(t) == phase[t] \notin {"idle", "aborted"}
Structured(t) ==
    /\ \A i \in DOMAIN scope[t] : scope[t][i] \in Created
    /\ Increasing(scope[t])
    /\ phase[t] = "idle" => scope[t] = <<>>
    /\ phase[t] \in {"running", "leaving"} => scope[t] # <<>>
    /\ Polls(t) =>
          /\ run[t] \in Tasks /\ task[run[t]].status # "absent"
          /\ \A i \in DOMAIN scope[t] :
                i \in DOMAIN Spans(t) => scope[t][i] = Spans(t)[i]
    /\ phase[t] = "entering" => Len(scope[t]) < Len(Spans(t))
    /\ phase[t] = "running" => Len(scope[t]) >= Len(Spans(t))
    /\ phase[t] = "leaving" /\ ending[t] = "resume" => Len(scope[t]) > Len(Spans(t))
    /\ phase[t] = "left" /\ ending[t] = "resume" => Len(scope[t]) >= Len(Spans(t))
    /\ phase[t] = "submitted" =>
          /\ pending[t].span \in Created
          /\ \A i \in DOMAIN scope[t] : scope[t][i] < pending[t].span
          /\ Len(scope[t]) < Len(Spans(t)) =>
                pending[t].span = Spans(t)[Len(scope[t]) + 1]
LayerInv == LayerTypes /\ TaskSpans /\ \A t \in Threads : Structured(t)

-----------------------------------------------------------------------------
(* The layer beside the attributor.  An interval is between the two markers  *)
(* of a boundary, or on a stack; what is neither is not completed any more.  *)
Between(t) == phase[t] \in {"submitted", "left"}
Stacked(o) == \E t \in Threads : \E i \in DOMAIN stack[t] : stack[t][i].operation = o
Open(o) == Stacked(o) \/ \E t \in Threads : Between(t) /\ pending[t].operation = o

Doomed == \/ errors # {}
          \/ \E o \in DOMAIN operations : ~operations[o].completed /\ ~Open(o)

Submitted(frame) ==
    /\ frame.operation \in DOMAIN operations
    /\ frame.span \in Created /\ frame.request = owner[frame.span]
    /\ operations[frame.operation].request = frame.request
    /\ ~operations[frame.operation].completed
Running(frame) ==
    /\ Submitted(frame)
    /\ operations[frame.operation].started /\ ~operations[frame.operation].finished

(* The frames of a stack, and what the attributor has of them. *)
Framed(t) ==
    /\ \A i \in DOMAIN stack[t] : Running(stack[t][i])
    /\ Len(activeWork[t]) = Len(stack[t])
    /\ \A i \in DOMAIN stack[t] : activeWork[t][i] = stack[t][i].operation
    /\ state[t].request = Current(stack[t]).request
    /\ state[t].operation = Current(stack[t]).operation

(* A frame is for a span the code is inside of; but a guard that is held     *)
(* while the future waits leaves frames of spans the code is not inside of.  *)
Scoped(t) ==
    /\ Len(scope[t]) <= Len(stack[t])
    /\ \A i \in DOMAIN scope[t] : stack[t][i].span = scope[t][i]
    /\ \A i, j \in DOMAIN stack[t] : i < j => stack[t][i].span < stack[t][j].span
    /\ Len(scope[t]) = Len(stack[t]) \/ phase[t] \in {"leaving", "aborted"}

Bounded(t) ==
    /\ phase[t] = "submitted" =>
          /\ Submitted(pending[t])
          /\ ~operations[pending[t].operation].started
          /\ ~operations[pending[t].operation].finished
    /\ phase[t] = "left" =>
          /\ Submitted(pending[t])
          /\ operations[pending[t].operation].started
          /\ operations[pending[t].operation].finished

(* No two of them are for one interval. *)
Apart ==
    /\ \A t, u \in Threads : \A i \in DOMAIN stack[t], j \in DOMAIN stack[u] :
          stack[t][i].operation = stack[u][j].operation => t = u /\ i = j
    /\ \A t, u \in Threads : \A i \in DOMAIN stack[t] :
          Between(u) => pending[u].operation # stack[t][i].operation
    /\ \A t, u \in Threads :
          Between(t) /\ Between(u) /\ pending[t].operation = pending[u].operation => t = u

Mirrored ==
    /\ \A s \in Created : owner[s] = meant[s] /\ owner[s] \in Requests \cup {0}
    /\ \A s \in DOMAIN runtimeSpans : s \in Created /\ runtimeSpans[s] = owner[s]
    /\ \A t \in Threads : Framed(t) /\ Scoped(t) /\ Bounded(t)
    /\ Apart
    /\ BoundToOwner

(* What is not open any more has gone its way to the end. *)
Finished == \A o \in DOMAIN operations : ~Open(o) =>
    /\ operations[o].completed /\ operations[o].status = "ok"
    /\ operations[o].started /\ operations[o].finished

(* While nothing went wrong, no guard is held across a wait. *)
Unguarded == /\ \A k \in Tasks : ~task[k].holds
             /\ \A t \in Threads : Len(scope[t]) = Len(stack[t])

Clean == Mirrored /\ errors = {} /\ Finished /\ Unguarded

AttributionInv ==
    /\ LayerInv /\ AttributorTypes
    /\ Mirrored \/ Doomed
    /\ faults = {} => Clean

-----------------------------------------------------------------------------
(* Sequences with one element more, or one less. *)
LEMMA AppendFacts ==
    ASSUME NEW S, NEW s \in Seq(S), NEW e \in S
    PROVE  /\ Append(s, e) \in Seq(S) /\ Len(Append(s, e)) = Len(s) + 1
           /\ DOMAIN Append(s, e) = 1 .. Len(s) + 1 /\ DOMAIN s = 1 .. Len(s)
           /\ Append(s, e)[Len(s) + 1] = e
           /\ \A i \in DOMAIN s : Append(s, e)[i] = s[i]
           /\ Append(s, e) # <<>>
  OBVIOUS

LEMMA AppendNat ==
    ASSUME NEW s \in Seq(Nat), NEW e \in Nat
    PROVE  /\ Append(s, e) \in Seq(Nat) /\ Len(Append(s, e)) = Len(s) + 1
           /\ DOMAIN Append(s, e) = 1 .. Len(s) + 1 /\ DOMAIN s = 1 .. Len(s)
           /\ Append(s, e)[Len(s) + 1] = e /\ Len(s) \in Nat
           /\ \A i \in DOMAIN s : Append(s, e)[i] = s[i]
           /\ Append(s, e) # <<>>
  OBVIOUS

LEMMA FrontFacts ==
    ASSUME NEW S, NEW s \in Seq(S), s # <<>>
    PROVE  /\ FrontOf(s) \in Seq(S) /\ Len(FrontOf(s)) = Len(s) - 1
           /\ DOMAIN FrontOf(s) = 1 .. Len(s) - 1 /\ DOMAIN s = 1 .. Len(s)
           /\ \A i \in DOMAIN FrontOf(s) : i \in DOMAIN s /\ FrontOf(s)[i] = s[i]
           /\ Len(s) \in Nat /\ Len(s) > 0 /\ LastOf(s) = s[Len(s)]
           /\ LastOf(s) \in S
  <1>1. /\ Len(s) \in Nat /\ Len(s) > 0 /\ DOMAIN s = 1 .. Len(s)
        /\ Len(s) \in DOMAIN s /\ s[Len(s)] \in S
    OBVIOUS
  <1>2. /\ FrontOf(s) \in Seq(S) /\ Len(FrontOf(s)) = Len(s) - 1
        /\ \A i \in 1 .. Len(s) - 1 : FrontOf(s)[i] = s[i]
    <2> DEFINE n == Len(s) - 1
    <2>1. n \in 0 .. Len(s)
      BY <1>1
    <2>2. /\ SubSeq(s, 1, n) \in Seq(S) /\ Len(SubSeq(s, 1, n)) = n
          /\ \A i \in 1 .. n : SubSeq(s, 1, n)[i] = s[i]
      <3>. HIDE DEF n
      <3>. QED  BY <2>1
    <2>. QED  BY <2>2 DEF FrontOf
  <1>3. DOMAIN FrontOf(s) = 1 .. Len(s) - 1
    BY <1>2
  <1>. QED  BY <1>1, <1>2, <1>3 DEF LastOf

LEMMA PrefixNat ==
    ASSUME NEW s \in Seq(Nat), NEW n \in 0 .. Len(s)
    PROVE  /\ SubSeq(s, 1, n) \in Seq(Nat) /\ Len(SubSeq(s, 1, n)) = n
           /\ \A i \in DOMAIN SubSeq(s, 1, n) :
                 i \in DOMAIN s /\ SubSeq(s, 1, n)[i] = s[i]
           /\ n > 0 => SubSeq(s, 1, n) # <<>>
  OBVIOUS

LEMMA FrontNat ==
    ASSUME NEW s \in Seq(Nat), s # <<>>
    PROVE  /\ FrontOf(s) \in Seq(Nat) /\ Len(FrontOf(s)) = Len(s) - 1
           /\ \A i \in DOMAIN FrontOf(s) : i \in DOMAIN s /\ FrontOf(s)[i] = s[i]
           /\ Len(s) \in DOMAIN s /\ LastOf(s) = s[Len(s)] /\ Len(s) > 0
  <1>1. Len(s) \in Nat /\ Len(s) > 0 /\ Len(s) - 1 \in 0 .. Len(s)
    OBVIOUS
  <1> DEFINE n == Len(s) - 1
  <1>2. /\ SubSeq(s, 1, n) \in Seq(Nat) /\ Len(SubSeq(s, 1, n)) = n
        /\ \A i \in DOMAIN SubSeq(s, 1, n) :
              i \in DOMAIN s /\ SubSeq(s, 1, n)[i] = s[i]
    <2>. HIDE DEF n
    <2>. QED  BY <1>1, PrefixNat DEF n
  <1>. QED  BY <1>1, <1>2 DEF FrontOf, LastOf

(* What a new task adds to the table of spans. *)
LEMMA ConcatFacts ==
    ASSUME NEW s \in Seq(Nat), NEW u \in Seq(Nat)
    PROVE  /\ s \o u \in Seq(Nat) /\ Len(s \o u) = Len(s) + Len(u)
           /\ \A i \in DOMAIN s : (s \o u)[i] = s[i]
           /\ \A i \in DOMAIN u : (s \o u)[Len(s) + i] = u[i]
  OBVIOUS

-----------------------------------------------------------------------------
(* Where a thread goes from a boundary, if it is then inside some spans. *)
Lands(t, inside, fate) ==
    /\ \A u \in Threads \ {t} :
          phase'[u] = phase[u] /\ run'[u] = run[u] /\ ending'[u] = ending[u]
    /\ \/ /\ inside # <<>> /\ run'[t] = run[t] /\ ending'[t] = fate
          /\ phase'[t] = IF fate = "resume" THEN "running" ELSE "leaving"
       \/ inside = <<>> /\ phase'[t] = "entering" /\ run'[t] = run[t]
       \/ inside = <<>> /\ phase'[t] = "idle"
Settles(t, inside, fate) ==
    /\ phase' \in [Threads -> Phases]
    /\ run' \in [Threads -> Tasks \cup {NoTask}]
    /\ ending' \in [Threads -> Endings]
    /\ task' \in [Tasks -> [status : {"absent", "ready", "polled", "done"},
                            spans : Seq(Nat), holds : BOOLEAN]]
    /\ \A k \in Tasks : /\ task'[k].spans = task[k].spans
                        /\ task'[k].status = "absent" <=> task[k].status = "absent"
    /\ \/ \A u \in Threads : phase'[u] = "aborted"
       \/ Lands(t, inside, fate)

LEMMA ContinueSettles ==
    ASSUME LayerTypes, NEW t \in Threads, NEW inside, NEW fate \in Endings,
           run[t] \in Tasks, task[run[t]].status # "absent",
           Continue(t, inside, fate)
    PROVE  Settles(t, inside, fate)
  <1>. USE DEF LayerTypes
  <1>1. CASE inside # <<>>
    BY <1>1 DEF Continue, Settles, Lands, Phases
  <1>2. CASE inside = <<>> /\ fate \in {"done", "panicked"}
    BY <1>2 DEF Continue, Settles, Lands, Phases, Endings
  <1>3. CASE inside = <<>> /\ fate \notin {"done", "panicked"}
    <2>1. /\ phase' = [phase EXCEPT ![t] = "idle"]
          /\ run' = [run EXCEPT ![t] = NoTask]
          /\ ending' = [ending EXCEPT ![t] = fate]
      BY <1>3 DEF Continue, ReturnToScheduler
    <2>2. PICK status \in {"ready", "done"} : task' = [task EXCEPT ![run[t]].status = status]
      BY <1>3 DEF Continue, ReturnToScheduler
    <2>3. /\ task' \in [Tasks -> [status : {"absent", "ready", "polled", "done"},
                                  spans : Seq(Nat), holds : BOOLEAN]]
          /\ \A k \in Tasks : /\ task'[k].spans = task[k].spans
                              /\ task'[k].status = "absent" <=> task[k].status = "absent"
      BY <2>2
    <2>. QED  BY <1>3, <2>1, <2>3 DEF Settles, Lands, Phases
  <1>. QED  BY <1>1, <1>2, <1>3

LEMMA PanicSettles ==
    ASSUME LayerTypes, NEW t \in Threads, NEW inside,
           run[t] \in Tasks, task[run[t]].status # "absent",
           Panic(t, inside)
    PROVE  \E fate \in {"panicked", "unwinding"} : Settles(t, inside, fate)
  <1>1. CASE ending[t] \in {"panicked", "unwinding"}
    BY <1>1 DEF Panic, Abort, Settles, LayerTypes, Phases
  <1>2. CASE ending[t] \notin {"panicked", "unwinding"}
    BY <1>2, ContinueSettles DEF Panic, Endings
  <1>. QED  BY <1>1, <1>2

-----------------------------------------------------------------------------
(* The threads that a step leaves alone. *)
LEMMA OtherStructured ==
    ASSUME LayerInv, NEW u \in Threads, Created \subseteq Created',
           scope'[u] = scope[u], pending'[u] = pending[u],
           \/ phase'[u] = "aborted"
           \/ phase'[u] = phase[u] /\ run'[u] = run[u] /\ ending'[u] = ending[u],
           \A k \in Tasks : task[k].status # "absent" =>
              task'[k].status # "absent" /\ task'[k].spans = task[k].spans
    PROVE  Structured(u)'
  <1>1. Structured(u)
    BY DEF LayerInv
  <1>2. CASE phase'[u] = "aborted"
    BY <1>1, <1>2 DEF Structured, Polls, Increasing
  <1>3. CASE phase'[u] = phase[u] /\ run'[u] = run[u] /\ ending'[u] = ending[u]
    <2>1. Polls(u) => Spans(u)' = Spans(u) /\ task'[run'[u]].status # "absent"
      BY <1>1, <1>3 DEF Structured, Spans
    <2>2. Polls(u)' <=> Polls(u)
      BY <1>3 DEF Polls
    <2>3. phase[u] # "idle" /\ phase[u] # "aborted" => Polls(u)
      BY DEF Polls
    <2>. QED  BY <1>1, <1>3, <2>1, <2>2, <2>3 DEF Structured, Increasing
  <1>. QED  BY <1>2, <1>3

(* The thread that leaves a boundary. *)
LEMMA LandStructured ==
    ASSUME LayerInv, NEW t \in Threads, NEW fate \in Endings,
           Settles(t, scope'[t], fate), Polls(t),
           Created \subseteq Created', scope'[t] \in Seq(Nat),
           \A i \in DOMAIN scope'[t] : i \in DOMAIN scope[t] /\ scope'[t][i] = scope[t][i],
           fate = "resume" => Len(scope'[t]) >= Len(Spans(t))
    PROVE  Structured(t)'
  <1>1. /\ Structured(t) /\ run[t] \in Tasks /\ task[run[t]].status # "absent"
        /\ Spans(t) \in Seq(Nat) /\ Spans(t) # <<>>
    BY DEF LayerInv, LayerTypes, Structured, Polls, Spans, TaskSpans
  <1>2. Increasing(scope'[t]) /\ \A i \in DOMAIN scope'[t] : scope'[t][i] \in Created'
    BY <1>1 DEF Structured, Increasing
  <1>3. CASE \A u \in Threads : phase'[u] = "aborted"
    BY <1>2, <1>3 DEF Structured, Polls, Increasing
  <1>4. CASE Lands(t, scope'[t], fate)
    <2>1. CASE phase'[t] = "idle"
      BY <1>2, <1>4, <2>1 DEF Structured, Polls, Increasing, Lands
    <2>2. CASE run'[t] = run[t] /\ phase'[t] # "idle"
      <3>1. task'[run'[t]].status # "absent" /\ Spans(t)' = Spans(t)
        BY <1>1, <2>2 DEF Settles, Spans
      <3>2. \A i \in DOMAIN scope'[t] :
               i \in DOMAIN Spans(t)' => scope'[t][i] = Spans(t)'[i]
        BY <1>1, <3>1 DEF Structured, Polls
      <3>3. CASE /\ scope'[t] # <<>> /\ ending'[t] = fate
                 /\ phase'[t] = IF fate = "resume" THEN "running" ELSE "leaving"
        BY <1>1, <1>2, <2>2, <3>1, <3>2, <3>3 DEF Structured, Increasing
      <3>4. CASE scope'[t] = <<>> /\ phase'[t] = "entering"
        BY <1>1, <1>2, <2>2, <3>1, <3>2, <3>4 DEF Structured, Increasing
      <3>. QED  BY <1>4, <2>2, <3>3, <3>4 DEF Lands
    <2>. QED  BY <1>4, <2>1, <2>2 DEF Lands
  <1>. QED  BY <1>3, <1>4 DEF Settles

(* The spans of the tasks are what they were. *)
LEMMA SameSpans ==
    ASSUME LayerInv, Created \subseteq Created',
           \A k \in Tasks : /\ task'[k].spans = task[k].spans
                            /\ task'[k].status = "absent" <=> task[k].status = "absent"
    PROVE  TaskSpans'
  BY DEF LayerInv, TaskSpans, Increasing

-----------------------------------------------------------------------------
(* An interval begins. *)
LEMMA SubmitLayer ==
    ASSUME LayerInv, NEW t \in Threads, NEW span, NEW request \in Nat, Polls(t),
           Submit(t, span, request),
           owner' \in Seq(Nat) /\ meant' \in Seq(Nat) /\ Len(meant') = Len(owner'),
           Len(owner) <= Len(owner'), span \in Created',
           \A i \in DOMAIN scope[t] : scope[t][i] < span,
           Len(scope[t]) < Len(Spans(t)) => span = Spans(t)[Len(scope[t]) + 1]
    PROVE  LayerInv'
  <1> DEFINE frame == [span |-> span, request |-> request, operation |-> operation]
  <1>1. /\ operation' = operation + 1 /\ UNCHANGED <<stack, scope>>
        /\ \/ /\ pending' = [pending EXCEPT ![t] = frame]
              /\ phase' = [phase EXCEPT ![t] = "submitted"]
              /\ UNCHANGED <<run, task, ending>>
           \/ Panic(t, scope[t]) /\ UNCHANGED pending
    BY DEF Submit, NextOperation
  <1>2. Created \subseteq Created' /\ span \in Nat /\ Len(owner) \in Nat /\ Len(owner') \in Nat
    BY DEF Created, LayerInv, LayerTypes
  <1>3. /\ Structured(t) /\ run[t] \in Tasks /\ task[run[t]].status # "absent"
    BY DEF LayerInv, Structured, Polls
  <1>4. CASE /\ pending' = [pending EXCEPT ![t] = frame]
             /\ phase' = [phase EXCEPT ![t] = "submitted"]
             /\ UNCHANGED <<run, task, ending>>
    <2>1. frame \in Frame
      BY <1>2 DEF Frame, LayerInv, LayerTypes
    <2>2. LayerTypes'
      BY <1>1, <1>4, <2>1 DEF LayerInv, LayerTypes, Phases
    <2>3. TaskSpans'
      BY <1>2, <1>4, SameSpans
    <2>4. \A u \in Threads \ {t} : Structured(u)'
      BY <1>1, <1>2, <1>4, OtherStructured DEF LayerInv, LayerTypes
    <2>5. /\ phase'[t] = "submitted" /\ pending'[t].span = span /\ scope'[t] = scope[t]
          /\ run'[t] = run[t] /\ Spans(t)' = Spans(t)
      BY <1>1, <1>4 DEF LayerInv, LayerTypes, Spans
    <2>6. Structured(t)'
      BY <1>2, <1>3, <1>4, <2>5 DEF Structured, Increasing, Polls
    <2>. QED  BY <2>2, <2>3, <2>4, <2>6 DEF LayerInv
  <1>5. CASE Panic(t, scope[t]) /\ UNCHANGED pending
    <2>1. PICK fate \in {"panicked", "unwinding"} : Settles(t, scope[t], fate)
      BY <1>3, <1>5, PanicSettles DEF LayerInv
    <2>2. LayerTypes'
      BY <1>1, <1>5, <2>1 DEF LayerInv, LayerTypes, Settles
    <2>3. TaskSpans'
      BY <1>2, <2>1, SameSpans DEF Settles
    <2>4. \A u \in Threads \ {t} : Structured(u)'
      BY <1>1, <1>2, <1>5, <2>1, OtherStructured DEF Settles, Lands
    <2>5. Structured(t)'
      <3>1. scope'[t] = scope[t] /\ scope[t] \in Seq(Nat)
        BY <1>1 DEF LayerInv, LayerTypes
      <3>. QED  BY <1>2, <2>1, <3>1, LandStructured DEF Endings
    <2>. QED  BY <2>2, <2>3, <2>4, <2>5 DEF LayerInv
  <1>. QED  BY <1>1, <1>4, <1>5

-----------------------------------------------------------------------------
LEMMA CurrentFrame ==
    ASSUME NEW frames \in Seq(Frame)
    PROVE  /\ Current(frames) \in Frame
           /\ frames # <<>> => Current(frames) = frames[Len(frames)] /\ Len(frames) > 0
           /\ frames = <<>> => Current(frames) = NoFrame
  BY FrontFacts DEF Current, NoFrame, Frame

LEMMA FunctionIsSequence ==
    ASSUME NEW S, NEW n \in Nat, NEW f \in [1 .. n -> S]
    PROVE  f \in Seq(S) /\ Len(f) = n /\ DOMAIN f = 1 .. n
  OBVIOUS

LEMMA MeantNat ==
    ASSUME LayerInv, NEW t \in Threads
    PROVE  Meant(t) \in Nat
  <1>1. CASE scope[t] = <<>>
    BY <1>1 DEF Meant
  <1>2. CASE scope[t] # <<>>
    <2>1. scope[t] \in Seq(Nat)
      BY DEF LayerInv, LayerTypes
    <2>2. LastOf(scope[t]) \in 1 .. Len(owner)
      BY <1>2, <2>1, FrontNat DEF LayerInv, Structured, Created
    <2>. QED  BY <1>2, <2>2 DEF Meant, LayerInv, LayerTypes
  <1>. QED  BY <1>1, <1>2

(* The owner of a new span, and whom it is meant for, are requests. *)
LEMMA NewRequests ==
    ASSUME LayerInv, NEW t \in Threads, NEW field \in Requests \cup {0},
           NEW parent \in 0 .. Len(owner)
    PROVE  OwnerOfNew(t, field, parent) \in Nat /\ MeantOfNew(t, field, parent) \in Nat
  <1>1. field \in Nat /\ \A i \in 1 .. Len(owner) : owner[i] \in Nat /\ meant[i] \in Nat
    BY RuntimeAssumption DEF LayerInv, LayerTypes
  <1>2. Current(stack[t]).request \in Nat
    BY CurrentFrame DEF LayerInv, LayerTypes, Frame
  <1>3. Meant(t) \in Nat
    BY MeantNat
  <1>. QED  BY <1>1, <1>2, <1>3 DEF OwnerOfNew, MeantOfNew

(* What a new task adds. *)
LEMMA SpawnFacts ==
    ASSUME LayerInv, NEW t \in Threads, NEW k \in Tasks,
           NEW field \in Requests \cup {0}, Spawn(t, k, field)
    PROVE  \E n \in {1, 2} : \E new \in [1 .. n -> Requests \cup {0}] :
              /\ owner' \in Seq(Nat) /\ Len(owner') = Len(owner) + n
              /\ meant' \in Seq(Nat) /\ Len(meant') = Len(meant) + n
              /\ \A i \in 1 .. Len(owner) : owner'[i] = owner[i] /\ meant'[i] = meant[i]
              /\ \A i \in 1 .. n : /\ owner'[Len(owner) + i] = OwnerOfNew(t, new[i], 0)
                                   /\ meant'[Len(owner) + i] = MeantOfNew(t, new[i], 0)
              /\ task' = [task EXCEPT ![k] = [status |-> "ready", holds |-> FALSE,
                                   spans |-> [i \in 1 .. n |-> Len(owner) + i]]]
  <1> DEFINE new == IF field = 0 THEN <<0>> ELSE <<0, field>>
             n == IF field = 0 THEN 1 ELSE 2
             owners == [i \in 1 .. n |-> OwnerOfNew(t, new[i], 0)]
             meants == [i \in 1 .. n |-> MeantOfNew(t, new[i], 0)]
  <1>1. n \in {1, 2} /\ DOMAIN new = 1 .. n /\ new \in [1 .. n -> Requests \cup {0}]
    <2>1. CASE field = 0
      BY <2>1
    <2>2. CASE field # 0
      BY <2>2
    <2>. QED  BY <2>1, <2>2
  <1>2. /\ owner' = owner \o owners /\ meant' = meant \o meants
        /\ task' = [task EXCEPT ![k] = [status |-> "ready", holds |-> FALSE,
                                   spans |-> [i \in 1 .. n |-> Len(owner) + i]]]
    BY <1>1 DEF Spawn
  <1> HIDE DEF new, n
  <1>3. /\ owner \in Seq(Nat) /\ meant \in Seq(Nat) /\ Len(owner) = Len(meant)
        /\ DOMAIN owner = 1 .. Len(owner) /\ DOMAIN meant = 1 .. Len(owner)
        /\ Len(owner) \in Nat
    BY DEF LayerInv, LayerTypes
  <1>4. owners \in [1 .. n -> Nat] /\ meants \in [1 .. n -> Nat]
    <2>1. \A i \in 1 .. n : OwnerOfNew(t, new[i], 0) \in Nat /\ MeantOfNew(t, new[i], 0) \in Nat
      <3>1. 0 \in 0 .. Len(owner) /\ \A i \in 1 .. n : new[i] \in Requests \cup {0}
        BY <1>1, <1>3
      <3>. QED  BY <3>1, NewRequests
    <2>. QED  BY <2>1
  <1>5. /\ owners \in Seq(Nat) /\ Len(owners) = n /\ DOMAIN owners = 1 .. n
        /\ meants \in Seq(Nat) /\ Len(meants) = n /\ DOMAIN meants = 1 .. n
    <2> HIDE DEF owners, meants
    <2>. QED  BY <1>1, <1>4, FunctionIsSequence
  <1>6. /\ owner' \in Seq(Nat) /\ Len(owner') = Len(owner) + n
        /\ \A i \in 1 .. Len(owner) : owner'[i] = owner[i]
        /\ \A i \in 1 .. n : owner'[Len(owner) + i] = owners[i]
    <2> HIDE DEF owners
    <2>1. /\ owner \o owners \in Seq(Nat) /\ Len(owner \o owners) = Len(owner) + Len(owners)
          /\ \A i \in DOMAIN owner : (owner \o owners)[i] = owner[i]
          /\ \A i \in DOMAIN owners : (owner \o owners)[Len(owner) + i] = owners[i]
      BY <1>3, <1>5, ConcatFacts
    <2>. QED  BY <1>2, <1>3, <1>5, <2>1
  <1>7. /\ meant' \in Seq(Nat) /\ Len(meant') = Len(meant) + n
        /\ \A i \in 1 .. Len(owner) : meant'[i] = meant[i]
        /\ \A i \in 1 .. n : meant'[Len(owner) + i] = meants[i]
    <2> HIDE DEF meants
    <2>1. /\ meant \o meants \in Seq(Nat) /\ Len(meant \o meants) = Len(meant) + Len(meants)
          /\ \A i \in DOMAIN meant : (meant \o meants)[i] = meant[i]
          /\ \A i \in DOMAIN meants : (meant \o meants)[Len(meant) + i] = meants[i]
      BY <1>3, <1>5, ConcatFacts
    <2>. QED  BY <1>2, <1>3, <1>5, <2>1
  <1>. QED  BY <1>1, <1>2, <1>6, <1>7

LEMMA SpawnLayer ==
    ASSUME LayerInv, NEW t \in Threads, NEW k \in Tasks,
           NEW field \in Requests \cup {0}, Spawn(t, k, field)
    PROVE  LayerInv' /\ Created \subseteq Created'
  <1>1. PICK n \in {1, 2} :
              /\ owner' \in Seq(Nat) /\ Len(owner') = Len(owner) + n
              /\ meant' \in Seq(Nat) /\ Len(meant') = Len(meant) + n
              /\ task' = [task EXCEPT ![k] = [status |-> "ready", holds |-> FALSE,
                                   spans |-> [i \in 1 .. n |-> Len(owner) + i]]]
    BY SpawnFacts
  <1> DEFINE spans == [i \in 1 .. n |-> Len(owner) + i]
  <1>2. /\ task[k].status = "absent"
        /\ UNCHANGED <<stack, operation, pending, phase, scope, run, ending>>
    BY DEF Spawn
  <1>3. Len(owner) \in Nat
    BY DEF LayerInv, LayerTypes
  <1>4. spans \in [1 .. n -> Nat] /\ \A i \in 1 .. n : spans[i] = Len(owner) + i
    BY <1>3
  <1>5. spans \in Seq(Nat) /\ Len(spans) = n /\ DOMAIN spans = 1 .. n /\ spans # <<>>
    <2> HIDE DEF spans
    <2>. QED  BY <1>4, FunctionIsSequence
  <1>6. Created \subseteq Created'
    BY <1>1, <1>3 DEF Created
  <1>7. /\ task'[k].spans = spans /\ task'[k].status = "ready"
        /\ \A j \in Tasks \ {k} : task'[j] = task[j]
        /\ task' \in [Tasks -> [status : {"absent", "ready", "polled", "done"},
                                spans : Seq(Nat), holds : BOOLEAN]]
    <2>1. task' = [task EXCEPT ![k] = [status |-> "ready", holds |-> FALSE, spans |-> spans]]
      BY <1>1
    <2> HIDE DEF spans
    <2>. QED  BY <1>5, <2>1 DEF LayerInv, LayerTypes
  <1>8. LayerTypes'
    BY <1>1, <1>2, <1>7 DEF LayerInv, LayerTypes
  <1>9. TaskSpans'
    <2>1. \A i \in DOMAIN spans : spans[i] \in Created'
      BY <1>1, <1>3, <1>4, <1>5 DEF Created
    <2>2. Increasing(spans)
      BY <1>3, <1>4, <1>5 DEF Increasing
    <2> HIDE DEF spans
    <2>. QED  BY <1>5, <1>6, <1>7, <2>1, <2>2 DEF LayerInv, TaskSpans, Increasing
  <1>10. \A u \in Threads : Structured(u)'
    BY <1>2, <1>6, <1>7, OtherStructured
  <1>. QED  BY <1>6, <1>8, <1>9, <1>10 DEF LayerInv

LEMMA PollLayer ==
    ASSUME LayerInv, NEW t \in Threads, NEW k \in Tasks, Poll(t, k)
    PROVE  LayerInv' /\ Created \subseteq Created'
  <1>1. /\ phase[t] = "idle" /\ scope[t] = <<>> /\ task[k].status = "ready"
        /\ task[k].spans # <<>> /\ task[k].spans \in Seq(Nat)
        /\ UNCHANGED <<owner, meant, stack, operation, pending, scope>>
        /\ run' = [run EXCEPT ![t] = k] /\ phase' = [phase EXCEPT ![t] = "entering"]
        /\ ending' = [ending EXCEPT ![t] = "ready"]
        /\ task' = [task EXCEPT ![k].status = "polled"]
    BY DEF Poll, LayerInv, LayerTypes, TaskSpans, Structured
  <1>2. \A j \in Tasks : /\ task'[j].spans = task[j].spans
                         /\ task'[j].status = "absent" <=> task[j].status = "absent"
    BY <1>1 DEF LayerInv, LayerTypes
  <1>3. LayerTypes'
    BY <1>1 DEF LayerInv, LayerTypes, Phases, Endings
  <1>4. Created \subseteq Created'
    BY <1>1 DEF Created
  <1>5. TaskSpans'
    BY <1>2, <1>4, SameSpans
  <1>6. \A u \in Threads \ {t} : Structured(u)'
    BY <1>1, <1>2, <1>4, OtherStructured DEF LayerInv, LayerTypes
  <1>7. Structured(t)'
    <2>1. /\ run'[t] = k /\ phase'[t] = "entering" /\ scope'[t] = <<>>
          /\ Spans(t)' = task[k].spans
      BY <1>1, <1>2 DEF LayerInv, LayerTypes, Spans
    <2>. QED  BY <1>1, <1>2, <2>1 DEF Structured, Increasing
  <1>. QED  BY <1>3, <1>4, <1>5, <1>6, <1>7 DEF LayerInv

(* A task's spans are entered in their order. *)
LEMMA EnteringFacts ==
    ASSUME LayerInv, NEW t \in Threads, phase[t] = "entering"
    PROVE  LET span == Spans(t)[Len(scope[t]) + 1]
           IN  /\ Polls(t) /\ span \in Created /\ owner[span] \in Nat
               /\ \A i \in DOMAIN scope[t] : scope[t][i] < span
  <1>1. /\ Structured(t) /\ Polls(t) /\ run[t] \in Tasks /\ scope[t] \in Seq(Nat)
        /\ Len(scope[t]) < Len(Spans(t))
    BY DEF LayerInv, LayerTypes, Structured, Polls
  <1>2. /\ Spans(t) \in Seq(Nat) /\ Increasing(Spans(t))
        /\ \A i \in DOMAIN Spans(t) : Spans(t)[i] \in Created
    BY <1>1 DEF Spans, LayerInv, LayerTypes, TaskSpans
  <1>3. /\ Len(scope[t]) + 1 \in DOMAIN Spans(t)
        /\ \A i \in DOMAIN scope[t] : i \in DOMAIN Spans(t) /\ i < Len(scope[t]) + 1
    BY <1>1, <1>2
  <1>4. \A i \in DOMAIN scope[t] : scope[t][i] = Spans(t)[i]
    BY <1>1, <1>3 DEF Structured
  <1>5. \A s \in Created : owner[s] \in Nat
    BY DEF Created, LayerInv, LayerTypes
  <1>. QED  BY <1>1, <1>2, <1>3, <1>4, <1>5 DEF Increasing

LEMMA EnterNextLayer ==
    ASSUME LayerInv, NEW t \in Threads, EnterNext(t)
    PROVE  LayerInv' /\ Created \subseteq Created'
  <1> DEFINE span == Spans(t)[Len(scope[t]) + 1]
  <1>1. phase[t] = "entering" /\ Submit(t, span, owner[span]) /\ UNCHANGED <<owner, meant>>
    BY DEF EnterNext
  <1>2. /\ Polls(t) /\ span \in Created /\ owner[span] \in Nat
        /\ \A i \in DOMAIN scope[t] : scope[t][i] < span
    BY <1>1, EnteringFacts
  <1>3. /\ Created' = Created /\ owner' \in Seq(Nat) /\ meant' \in Seq(Nat)
        /\ Len(meant') = Len(owner') /\ Len(owner) <= Len(owner')
    BY <1>1 DEF Created, LayerInv, LayerTypes
  <1> HIDE DEF span
  <1>4. Len(scope[t]) < Len(Spans(t)) => span = Spans(t)[Len(scope[t]) + 1]
    BY DEF span
  <1>. QED  BY <1>1, <1>2, <1>3, <1>4, SubmitLayer

(* The span of a new scope comes after all others. *)
LEMMA OpenScopeFacts ==
    ASSUME LayerInv, NEW t \in Threads, NEW field \in Requests \cup {0},
           NEW parent \in 0 .. Len(owner), OpenScope(t, field, parent)
    PROVE  LET request == OwnerOfNew(t, field, parent)
           IN  /\ phase[t] = "running" /\ Polls(t) /\ request \in Nat
               /\ Submit(t, Len(owner) + 1, request)
               /\ owner' \in Seq(Nat) /\ meant' \in Seq(Nat)
               /\ Len(owner') = Len(owner) + 1 /\ Len(meant') = Len(owner')
               /\ \A s \in Created : owner'[s] = owner[s] /\ meant'[s] = meant[s]
               /\ owner'[Len(owner) + 1] = request
               /\ meant'[Len(owner) + 1] = MeantOfNew(t, field, parent)
               /\ Created' = Created \cup {Len(owner) + 1}
               /\ \A i \in DOMAIN scope[t] : scope[t][i] < Len(owner) + 1
  <1> DEFINE request == OwnerOfNew(t, field, parent)
             intent == MeantOfNew(t, field, parent)
  <1>1. /\ phase[t] = "running" /\ owner' = Append(owner, request)
        /\ meant' = Append(meant, intent) /\ Submit(t, Len(owner) + 1, request)
    BY DEF OpenScope
  <1>2. request \in Nat /\ intent \in Nat
    BY NewRequests
  <1> HIDE DEF request, intent
  <1>3. /\ owner \in Seq(Nat) /\ meant \in Seq(Nat) /\ Len(meant) = Len(owner)
        /\ Len(owner) \in Nat
    BY DEF LayerInv, LayerTypes
  <1>4. /\ owner' \in Seq(Nat) /\ meant' \in Seq(Nat)
        /\ Len(owner') = Len(owner) + 1 /\ Len(meant') = Len(owner')
        /\ \A s \in 1 .. Len(owner) : owner'[s] = owner[s] /\ meant'[s] = meant[s]
        /\ owner'[Len(owner) + 1] = request /\ meant'[Len(owner) + 1] = intent
    BY <1>1, <1>2, <1>3
  <1>5. Created' = Created \cup {Len(owner) + 1}
    BY <1>3, <1>4 DEF Created
  <1>6. Polls(t) /\ \A i \in DOMAIN scope[t] : scope[t][i] < Len(owner) + 1
    BY <1>1, <1>3 DEF LayerInv, Structured, Polls, Created
  <1>. QED  BY <1>1, <1>2, <1>4, <1>5, <1>6 DEF Created, request, intent

LEMMA OpenScopeLayer ==
    ASSUME LayerInv, NEW t \in Threads, NEW field \in Requests \cup {0},
           NEW parent \in 0 .. Len(owner), OpenScope(t, field, parent)
    PROVE  LayerInv' /\ Created \subseteq Created'
  <1> DEFINE request == OwnerOfNew(t, field, parent)
             span == Len(owner) + 1
  <1>1. /\ phase[t] = "running" /\ Polls(t) /\ request \in Nat
        /\ Submit(t, span, request)
        /\ owner' \in Seq(Nat) /\ meant' \in Seq(Nat)
        /\ Len(owner') = Len(owner) + 1 /\ Len(meant') = Len(owner')
        /\ Created' = Created \cup {span}
        /\ \A i \in DOMAIN scope[t] : scope[t][i] < span
    BY OpenScopeFacts
  <1>2. ~(Len(scope[t]) < Len(Spans(t))) /\ Len(owner) <= Len(owner')
    <2>1. Structured(t) /\ scope[t] \in Seq(Nat) /\ Len(owner) \in Nat
      BY DEF LayerInv, LayerTypes
    <2>2. Spans(t) \in Seq(Nat)
      BY <1>1 DEF LayerInv, LayerTypes, Structured, Spans
    <2>. QED  BY <1>1, <2>1, <2>2 DEF Structured
  <1> HIDE DEF request, span
  <1>. QED  BY <1>1, <1>2, SubmitLayer

-----------------------------------------------------------------------------
LEMMA EnterWorkLayer ==
    ASSUME LayerInv, NEW t \in Threads, EnterWork(t)
    PROVE  LayerInv' /\ Created \subseteq Created'
  <1> DEFINE frame == pending[t]
  <1>1. /\ phase[t] = "submitted" /\ UNCHANGED <<owner, meant, operation, pending>>
        /\ \/ /\ stack' = [stack EXCEPT ![t] = Append(stack[t], frame)]
              /\ scope' = [scope EXCEPT ![t] = Append(scope[t], frame.span)]
              /\ \/ Abort
                 \/ /\ phase' = [phase EXCEPT ![t] =
                          IF Len(scope'[t]) < Len(Spans(t)) THEN "entering"
                          ELSE IF ending[t] \in {"dropping", "unwinding"}
                          THEN "leaving" ELSE "running"]
                    /\ UNCHANGED <<run, task, ending>>
           \/ Panic(t, scope[t]) /\ UNCHANGED <<stack, scope>>
    BY DEF EnterWork
  <1>2. /\ Structured(t) /\ Polls(t) /\ run[t] \in Tasks /\ task[run[t]].status # "absent"
        /\ frame \in Frame /\ frame.span \in Created /\ frame.span \in Nat
        /\ scope[t] \in Seq(Nat) /\ Spans(t) \in Seq(Nat)
    BY <1>1 DEF LayerInv, LayerTypes, Structured, Polls, Spans, Frame, Created
  <1>3. Created' = Created
    BY <1>1 DEF Created
  <1>4. CASE /\ stack' = [stack EXCEPT ![t] = Append(stack[t], frame)]
             /\ scope' = [scope EXCEPT ![t] = Append(scope[t], frame.span)]
             /\ \/ Abort
                \/ /\ phase' = [phase EXCEPT ![t] =
                         IF Len(scope'[t]) < Len(Spans(t)) THEN "entering"
                         ELSE IF ending[t] \in {"dropping", "unwinding"}
                         THEN "leaving" ELSE "running"]
                   /\ UNCHANGED <<run, task, ending>>
    <2>0. /\ scope'[t] \in Seq(Nat) /\ Len(scope'[t]) = Len(scope[t]) + 1
          /\ DOMAIN scope'[t] = 1 .. Len(scope[t]) + 1 /\ DOMAIN scope[t] = 1 .. Len(scope[t])
          /\ scope'[t][Len(scope[t]) + 1] = frame.span
          /\ \A i \in DOMAIN scope[t] : scope'[t][i] = scope[t][i]
          /\ scope'[t] # <<>> /\ Len(scope[t]) \in Nat
      <3>1. scope'[t] = Append(scope[t], frame.span)
        BY <1>4 DEF LayerInv, LayerTypes
      <3>2. scope[t] \in Seq(Nat) /\ frame.span \in Nat
        BY <1>2
      <3> HIDE DEF frame
      <3>. QED  BY <3>1, <3>2, AppendNat
    <2>1. LayerTypes'
      <3>1. /\ stack' \in [Threads -> Seq(Frame)] /\ scope' \in [Threads -> Seq(Nat)]
        BY <1>2, <1>4 DEF LayerInv, LayerTypes
      <3>. QED  BY <1>1, <1>4, <3>1 DEF LayerInv, LayerTypes, Phases, Abort
    <2>2. UNCHANGED <<run, task, ending>> /\ Spans(t)' = Spans(t)
      BY <1>4 DEF Abort, Spans
    <2>3. TaskSpans'
      BY <1>3, <2>2, SameSpans
    <2>4. \A u \in Threads \ {t} : Structured(u)'
      <3>1. \A u \in Threads \ {t} : scope'[u] = scope[u] /\
                 (phase'[u] = "aborted" \/ phase'[u] = phase[u])
        BY <1>4 DEF LayerInv, LayerTypes, Abort
      <3>. QED  BY <1>1, <1>3, <2>2, <3>1, OtherStructured
    <2>5. Structured(t)'
      <3>0. /\ \A i \in DOMAIN scope[t] : scope[t][i] \in Created
            /\ Increasing(scope[t])
            /\ \A i \in DOMAIN scope[t] : i \in DOMAIN Spans(t) => scope[t][i] = Spans(t)[i]
            /\ \A i \in DOMAIN scope[t] : scope[t][i] < frame.span
            /\ Len(scope[t]) < Len(Spans(t)) => frame.span = Spans(t)[Len(scope[t]) + 1]
        BY <1>1, <1>2 DEF Structured
      <3>a. \A i \in DOMAIN scope'[t] :
               \/ i \in DOMAIN scope[t] /\ scope'[t][i] = scope[t][i]
               \/ i = Len(scope[t]) + 1 /\ scope'[t][i] = frame.span
        BY <2>0
      <3>1. \A i \in DOMAIN scope'[t] : scope'[t][i] \in Created'
        BY <1>2, <1>3, <3>0, <3>a
      <3>2. Increasing(scope'[t])
        <4> SUFFICES ASSUME NEW i \in DOMAIN scope'[t], NEW j \in DOMAIN scope'[t], i < j
                     PROVE  scope'[t][i] < scope'[t][j]
          BY DEF Increasing
        <4>1. i \in DOMAIN scope[t] /\ scope'[t][i] = scope[t][i]
          BY <2>0, <3>a
        <4>. QED  BY <3>0, <3>a, <4>1 DEF Increasing
      <3>3. \A i \in DOMAIN scope'[t] : i \in DOMAIN Spans(t) => scope'[t][i] = Spans(t)[i]
        <4>1. Len(scope[t]) + 1 \in DOMAIN Spans(t) => frame.span = Spans(t)[Len(scope[t]) + 1]
          BY <1>2, <2>0, <3>0
        <4>. QED  BY <3>0, <3>a, <4>1
      <3>4. CASE Abort
        <4>1. phase'[t] = "aborted"
          BY <3>4 DEF Abort
        <4>. QED  BY <3>1, <3>2, <4>1 DEF Structured, Polls, Increasing
      <3>5. CASE phase' = [phase EXCEPT ![t] =
                     IF Len(scope'[t]) < Len(Spans(t)) THEN "entering"
                     ELSE IF ending[t] \in {"dropping", "unwinding"}
                     THEN "leaving" ELSE "running"]
        <4>1. phase'[t] = IF Len(scope'[t]) < Len(Spans(t)) THEN "entering"
                     ELSE IF ending[t] \in {"dropping", "unwinding"}
                     THEN "leaving" ELSE "running"
          BY <3>5 DEF LayerInv, LayerTypes
        <4>2. Len(scope'[t]) \in Nat /\ Len(Spans(t)) \in Nat
          BY <1>2, <2>0
        <4>. QED  BY <1>2, <2>0, <2>2, <3>1, <3>2, <3>3, <4>1, <4>2
                  DEF Structured, Increasing
      <3>. QED  BY <1>4, <3>4, <3>5
    <2>. QED  BY <1>3, <2>1, <2>3, <2>4, <2>5 DEF LayerInv
  <1>5. CASE Panic(t, scope[t]) /\ UNCHANGED <<stack, scope>>
    <2>1. PICK fate \in {"panicked", "unwinding"} : Settles(t, scope[t], fate)
      BY <1>2, <1>5, PanicSettles DEF LayerInv
    <2>2. LayerTypes'
      BY <1>1, <1>5, <2>1 DEF LayerInv, LayerTypes, Settles
    <2>3. TaskSpans'
      BY <1>3, <2>1, SameSpans DEF Settles
    <2>4. \A u \in Threads \ {t} : Structured(u)'
      BY <1>1, <1>3, <1>5, <2>1, OtherStructured DEF Settles, Lands
    <2>5. Structured(t)'
      BY <1>2, <1>3, <1>5, <2>1, LandStructured DEF Endings
    <2>. QED  BY <1>3, <2>2, <2>3, <2>4, <2>5 DEF LayerInv
  <1>. QED  BY <1>1, <1>4, <1>5

LEMMA ExitLeaveLayer ==
    ASSUME LayerInv, NEW t \in Threads, ExitLeave(t)
    PROVE  LayerInv' /\ Created \subseteq Created'
  <1> DEFINE frame == Current(stack[t])
             inside == FrontOf(scope[t])
  <1>1. /\ phase[t] = "leaving" /\ UNCHANGED <<owner, meant, operation>>
        /\ stack' = [stack EXCEPT ![t] = IF @ = <<>> THEN @ ELSE FrontOf(@)]
        /\ scope' = [scope EXCEPT ![t] = inside]
        /\ \/ /\ pending' = [pending EXCEPT ![t] = frame]
              /\ phase' = [phase EXCEPT ![t] = "left"]
              /\ UNCHANGED <<run, task, ending>>
           \/ Panic(t, inside) /\ UNCHANGED pending
    BY DEF ExitLeave
  <1>2. /\ Structured(t) /\ Polls(t) /\ run[t] \in Tasks /\ task[run[t]].status # "absent"
        /\ scope[t] \in Seq(Nat) /\ scope[t] # <<>> /\ Spans(t) \in Seq(Nat)
        /\ stack[t] \in Seq(Frame)
    BY <1>1 DEF LayerInv, LayerTypes, Structured, Polls, Spans
  <1>3. Created' = Created
    BY <1>1 DEF Created
  <1>4. /\ inside \in Seq(Nat) /\ Len(inside) = Len(scope[t]) - 1
        /\ \A i \in DOMAIN inside : i \in DOMAIN scope[t] /\ inside[i] = scope[t][i]
        /\ scope'[t] = inside
    <2>1. scope'[t] = inside
      BY <1>1 DEF LayerInv, LayerTypes
    <2>. QED  BY <1>2, <2>1, FrontNat
  <1>5. frame \in Frame
    BY <1>2, CurrentFrame
  <1>6. stack' \in [Threads -> Seq(Frame)] /\ scope' \in [Threads -> Seq(Nat)]
    <2>1. stack[t] # <<>> => FrontOf(stack[t]) \in Seq(Frame)
      BY <1>2, FrontFacts
    <2> HIDE DEF inside
    <2>. QED  BY <1>1, <1>2, <1>4, <2>1 DEF LayerInv, LayerTypes
  <1> HIDE DEF inside, frame
  <1>7. ending[t] = "resume" => Len(inside) >= Len(Spans(t))
    BY <1>1, <1>2, <1>4 DEF Structured
  <1>8. CASE /\ pending' = [pending EXCEPT ![t] = frame]
             /\ phase' = [phase EXCEPT ![t] = "left"]
             /\ UNCHANGED <<run, task, ending>>
    <2>1. LayerTypes'
      BY <1>1, <1>5, <1>6, <1>8 DEF LayerInv, LayerTypes, Phases
    <2>2. TaskSpans'
      BY <1>3, <1>8, SameSpans
    <2>3. \A u \in Threads \ {t} : Structured(u)'
      BY <1>1, <1>3, <1>8, OtherStructured DEF LayerInv, LayerTypes
    <2>4. Structured(t)'
      <3>1. phase'[t] = "left" /\ Spans(t)' = Spans(t)
        BY <1>8 DEF LayerInv, LayerTypes, Spans
      <3>2. Increasing(scope'[t]) /\ \A i \in DOMAIN scope'[t] : scope'[t][i] \in Created'
        BY <1>2, <1>3, <1>4 DEF Structured, Increasing
      <3>3. \A i \in DOMAIN scope'[t] : i \in DOMAIN Spans(t) => scope'[t][i] = Spans(t)[i]
        BY <1>2, <1>4 DEF Structured
      <3>. QED  BY <1>2, <1>4, <1>7, <1>8, <3>1, <3>2, <3>3 DEF Structured, Increasing
    <2>. QED  BY <1>3, <2>1, <2>2, <2>3, <2>4 DEF LayerInv
  <1>9. CASE Panic(t, inside) /\ UNCHANGED pending
    <2>1. PICK fate \in {"panicked", "unwinding"} : Settles(t, inside, fate)
      BY <1>2, <1>9, PanicSettles DEF LayerInv
    <2>2. LayerTypes'
      BY <1>1, <1>6, <1>9, <2>1 DEF LayerInv, LayerTypes, Settles
    <2>3. TaskSpans'
      BY <1>3, <2>1, SameSpans DEF Settles
    <2>4. \A u \in Threads \ {t} : Structured(u)'
      <3>1. \A u \in Threads \ {t} : scope'[u] = scope[u]
        BY <1>1 DEF LayerInv, LayerTypes
      <3>. QED  BY <1>3, <1>9, <2>1, <3>1, OtherStructured DEF Settles, Lands
    <2>5. Structured(t)'
      BY <1>2, <1>3, <1>4, <2>1, LandStructured DEF Endings
    <2>. QED  BY <1>3, <2>2, <2>3, <2>4, <2>5 DEF LayerInv
  <1>. QED  BY <1>1, <1>8, <1>9

LEMMA ExitCompleteLayer ==
    ASSUME LayerInv, NEW t \in Threads, ExitComplete(t)
    PROVE  LayerInv' /\ Created \subseteq Created'
  <1>1. /\ phase[t] = "left"
        /\ UNCHANGED <<owner, meant, stack, operation, pending, scope>>
        /\ Continue(t, scope[t], ending[t]) \/ Panic(t, scope[t])
    BY DEF ExitComplete
  <1>2. /\ Structured(t) /\ Polls(t) /\ run[t] \in Tasks /\ task[run[t]].status # "absent"
        /\ scope[t] \in Seq(Nat) /\ ending[t] \in Endings
    BY <1>1 DEF LayerInv, LayerTypes, Structured, Polls
  <1>3. Created' = Created
    BY <1>1 DEF Created
  <1>4. PICK fate \in Endings :
           /\ Settles(t, scope[t], fate)
           /\ fate = "resume" => Len(scope[t]) >= Len(Spans(t))
    <2>1. CASE Continue(t, scope[t], ending[t])
      BY <1>1, <1>2, <2>1, ContinueSettles DEF LayerInv, Structured
    <2>2. CASE Panic(t, scope[t])
      BY <1>2, <2>2, PanicSettles DEF LayerInv, Endings
    <2>. QED  BY <1>1, <2>1, <2>2
  <1>5. LayerTypes'
    BY <1>1, <1>4 DEF LayerInv, LayerTypes, Settles
  <1>6. TaskSpans'
    BY <1>3, <1>4, SameSpans DEF Settles
  <1>7. \A u \in Threads \ {t} : Structured(u)'
    BY <1>1, <1>3, <1>4, OtherStructured DEF Settles, Lands
  <1>8. Structured(t)'
    BY <1>1, <1>2, <1>3, <1>4, LandStructured
  <1>. QED  BY <1>3, <1>5, <1>6, <1>7, <1>8 DEF LayerInv

LEMMA StartLeavingLayer ==
    ASSUME LayerInv, NEW t \in Threads, NEW fate \in {"resume", "ready", "done"},
           StartLeaving(t, fate)
    PROVE  LayerInv' /\ Created \subseteq Created'
  <1>1. /\ phase[t] = "running"
        /\ fate = "resume" => Len(scope[t]) > Len(Spans(t))
        /\ ending' = [ending EXCEPT ![t] = fate]
        /\ phase' = [phase EXCEPT ![t] = "leaving"]
        /\ UNCHANGED <<owner, meant, stack, operation, pending, scope, run, task>>
    BY DEF StartLeaving
  <1>2. LayerTypes'
    BY <1>1 DEF LayerInv, LayerTypes, Phases, Endings
  <1>3. Created' = Created
    BY <1>1 DEF Created
  <1>4. TaskSpans'
    BY <1>1, <1>3, SameSpans
  <1>5. \A u \in Threads \ {t} : Structured(u)'
    BY <1>1, <1>3, OtherStructured DEF LayerInv, LayerTypes
  <1>6. Structured(t)'
    <2>1. /\ phase'[t] = "leaving" /\ ending'[t] = fate /\ Spans(t)' = Spans(t)
          /\ Structured(t)
      BY <1>1 DEF LayerInv, LayerTypes, Spans
    <2>. QED  BY <1>1, <1>3, <2>1 DEF Structured, Polls, Increasing
  <1>. QED  BY <1>2, <1>3, <1>4, <1>5, <1>6 DEF LayerInv

LEMMA WaitHoldingGuardLayer ==
    ASSUME LayerInv, NEW t \in Threads, WaitHoldingGuard(t)
    PROVE  LayerInv' /\ Created \subseteq Created'
  <1> DEFINE inside == SubSeq(scope[t], 1, Len(Spans(t)))
  <1>1. /\ phase[t] = "running" /\ Len(scope[t]) > Len(Spans(t))
        /\ scope' = [scope EXCEPT ![t] = inside]
        /\ task' = [task EXCEPT ![run[t]].holds = TRUE]
        /\ ending' = [ending EXCEPT ![t] = "ready"]
        /\ phase' = [phase EXCEPT ![t] = "leaving"]
        /\ UNCHANGED <<owner, meant, stack, operation, pending, run>>
    BY DEF WaitHoldingGuard
  <1>2. /\ Structured(t) /\ run[t] \in Tasks /\ task[run[t]].status # "absent"
        /\ scope[t] \in Seq(Nat) /\ Spans(t) \in Seq(Nat) /\ Spans(t) # <<>>
    BY <1>1 DEF LayerInv, LayerTypes, Structured, Polls, Spans, TaskSpans
  <1>3. /\ inside \in Seq(Nat) /\ inside # <<>>
        /\ \A i \in DOMAIN inside : i \in DOMAIN scope[t] /\ inside[i] = scope[t][i]
    <2>1. scope[t] \in Seq(Nat) /\ Len(Spans(t)) \in 0 .. Len(scope[t]) /\ Len(Spans(t)) > 0
      BY <1>1, <1>2
    <2>. QED  BY <2>1, PrefixNat
  <1> HIDE DEF inside
  <1>4. \A k \in Tasks : /\ task'[k].spans = task[k].spans
                         /\ task'[k].status = "absent" <=> task[k].status = "absent"
    BY <1>1 DEF LayerInv, LayerTypes
  <1>5. LayerTypes'
    BY <1>1, <1>2, <1>3 DEF LayerInv, LayerTypes, Phases, Endings
  <1>6. Created' = Created
    BY <1>1 DEF Created
  <1>7. TaskSpans'
    BY <1>4, <1>6, SameSpans
  <1>8. \A u \in Threads \ {t} : Structured(u)'
    BY <1>1, <1>4, <1>6, OtherStructured DEF LayerInv, LayerTypes
  <1>9. Structured(t)'
    <2>1. /\ phase'[t] = "leaving" /\ ending'[t] = "ready" /\ scope'[t] = inside
          /\ Spans(t)' = Spans(t) /\ task'[run'[t]].status # "absent"
      BY <1>1, <1>2, <1>4 DEF LayerInv, LayerTypes, Spans
    <2>2. Increasing(inside) /\ \A i \in DOMAIN inside : inside[i] \in Created
      BY <1>2, <1>3 DEF Structured, Increasing
    <2>3. \A i \in DOMAIN inside : i \in DOMAIN Spans(t) => inside[i] = Spans(t)[i]
      BY <1>1, <1>2, <1>3 DEF Structured, Polls
    <2>. QED  BY <1>1, <1>2, <1>3, <1>6, <2>1, <2>2, <2>3 DEF Structured, Increasing
  <1>. QED  BY <1>5, <1>6, <1>7, <1>8, <1>9 DEF LayerInv

LEMMA DoEffectLayer ==
    ASSUME LayerInv, NEW t \in Threads, DoEffect(t)
    PROVE  LayerInv' /\ Created \subseteq Created'
  BY DEF DoEffect, LayerInv, LayerTypes, TaskSpans, Structured, Created, Polls, Spans,
         Increasing

LEMMA LayerStep ==
    ASSUME LayerInv, LayerNext
    PROVE  LayerInv' /\ Created \subseteq Created'
  <1> PICK t \in Threads : ThreadStep(t)
    BY DEF LayerNext
  <1>1. ASSUME NEW k \in Tasks, Poll(t, k)
        PROVE  LayerInv' /\ Created \subseteq Created'
    BY <1>1, PollLayer
  <1>2. ASSUME NEW k \in Tasks, NEW field \in Requests \cup {0}, Spawn(t, k, field)
        PROVE  LayerInv' /\ Created \subseteq Created'
    BY <1>2, SpawnLayer
  <1>3. ASSUME NEW field \in Requests \cup {0}, NEW parent \in 0 .. Len(owner),
               OpenScope(t, field, parent)
        PROVE  LayerInv' /\ Created \subseteq Created'
    BY <1>3, OpenScopeLayer
  <1>4. ASSUME NEW fate \in {"resume", "ready", "done"}, StartLeaving(t, fate)
        PROVE  LayerInv' /\ Created \subseteq Created'
    BY <1>4, StartLeavingLayer
  <1>. QED  BY <1>1, <1>2, <1>3, <1>4, EnterNextLayer, EnterWorkLayer, ExitLeaveLayer,
               ExitCompleteLayer, WaitHoldingGuardLayer, DoEffectLayer DEF ThreadStep

-----------------------------------------------------------------------------
(* What a write of a marker leaves on the trace. *)
Markers(kind, t, frame, span) ==
    Delivered(SpanMarker(kind, t, frame, span))
        \cup Undelivered(SpanMarker(kind, t, frame, span))

LEMMA MarkerFacts ==
    ASSUME NEW kind, NEW t, NEW frame \in Frame, NEW span,
           NEW e \in Markers(kind, t, frame, span)
    PROVE  /\ e.kind = kind /\ e.tid = t /\ e.span = span /\ e.status = "ok"
           /\ e.request = frame.request /\ e.operation = frame.operation
           /\ e \in Delivered(SpanMarker(kind, t, frame, span)) => e.written = "whole"
           /\ e \in Undelivered(SpanMarker(kind, t, frame, span)) => e.written # "whole"
  <1> DEFINE marker == SpanMarker(kind, t, frame, span)
  <1>1. ASSUME e \in Delivered(marker)
        PROVE  /\ e.kind = kind /\ e.tid = t /\ e.span = span /\ e.status = "ok"
               /\ e.request = frame.request /\ e.operation = frame.operation
               /\ e.written = "whole"
    <2>1. \E c \in BOOLEAN : e = [marker EXCEPT !.captured = c]
      <3> HIDE DEF marker
      <3>. QED  BY <1>1 DEF Delivered
    <2>. QED  BY <2>1 DEF SpanMarker, Marker
  <1>2. ASSUME e \in Undelivered(marker)
        PROVE  /\ e.kind = kind /\ e.tid = t /\ e.span = span /\ e.status = "ok"
               /\ e.request = frame.request /\ e.operation = frame.operation
               /\ e.written # "whole"
    <2>1. PICK w \in {"partial", "failed"} : e \in Delivered([marker EXCEPT !.written = w])
      <3> HIDE DEF marker
      <3>. QED  BY <1>2 DEF Undelivered
    <2>2. \E c \in BOOLEAN : e = [[marker EXCEPT !.written = w] EXCEPT !.captured = c]
      <3> HIDE DEF marker
      <3>. QED  BY <2>1 DEF Delivered
    <2>. QED  BY <2>2 DEF SpanMarker, Marker
  <1>. QED  BY <1>1, <1>2 DEF Markers, marker

(* The event of a step, as the attributor may find it. *)
WellFormed(e) ==
    /\ e.kind \in {"NONE", "EFFECT", "SUBMIT", "WORK_ENTER", "WORK_LEAVE", "COMPLETE"}
    /\ e.tid \in Threads /\ e.request \in Nat /\ e.operation \in Nat
    /\ e.kind = "NONE" => ~Unusable(e)
    /\ e.kind = "SUBMIT" => e.operation = operation /\ operation' = operation + 1
    /\ e.kind # "SUBMIT" => operation' \in {operation, operation + 1}
    /\ e.kind = "COMPLETE" => e.status = "ok" /\ Open(e.operation)

LEMMA SubmitEvent ==
    ASSUME LayerInv, NEW t \in Threads, NEW span, NEW request \in Nat,
           Submit(t, span, request)
    PROVE  WellFormed(emitted')
  <1> DEFINE frame == [span |-> span, request |-> request, operation |-> operation]
             frame0 == [span |-> 0, request |-> request, operation |-> operation]
  <1>1. /\ emitted' \in Delivered(SpanMarker("SUBMIT", t, frame, span))
                     \cup Undelivered(SpanMarker("SUBMIT", t, frame, span))
        /\ operation' = operation + 1
    BY DEF Submit, Emits, EmitFails, NextOperation
  <1>2. SpanMarker("SUBMIT", t, frame, span) = SpanMarker("SUBMIT", t, frame0, span)
    BY DEF SpanMarker
  <1>3. frame0 \in Frame /\ operation \in Nat
    BY DEF Frame, LayerInv, LayerTypes
  <1> HIDE DEF frame, frame0
  <1>4. /\ emitted'.kind = "SUBMIT" /\ emitted'.tid = t
        /\ emitted'.request = frame0.request /\ emitted'.operation = frame0.operation
    BY <1>1, <1>2, <1>3, MarkerFacts DEF Markers
  <1>. QED  BY <1>1, <1>3, <1>4 DEF WellFormed, frame0

LEMMA LayerEvent ==
    ASSUME LayerInv, LayerNext
    PROVE  WellFormed(emitted')
  <1> PICK t \in Threads : ThreadStep(t)
    BY DEF LayerNext
  <1>0. operation \in Nat /\ pending[t] \in Frame /\ stack[t] \in Seq(Frame)
    BY DEF LayerInv, LayerTypes
  <1>1. ASSUME emitted' = Silence(t), operation' = operation
        PROVE  WellFormed(emitted')
    BY <1>0, <1>1 DEF WellFormed, Silence, Marker, Unusable
  <1>2. ASSUME NEW k \in Tasks, Poll(t, k) PROVE WellFormed(emitted')
    BY <1>1, <1>2 DEF Poll
  <1>3. ASSUME NEW k \in Tasks, NEW field \in Requests \cup {0}, Spawn(t, k, field)
        PROVE  WellFormed(emitted')
    BY <1>1, <1>3 DEF Spawn
  <1>4. ASSUME NEW field \in Requests \cup {0}, NEW parent \in 0 .. Len(owner),
               OpenScope(t, field, parent)
        PROVE  WellFormed(emitted')
    BY <1>4, OpenScopeFacts, SubmitEvent
  <1>5. ASSUME NEW fate \in {"resume", "ready", "done"}, StartLeaving(t, fate)
        PROVE  WellFormed(emitted')
    BY <1>1, <1>5 DEF StartLeaving
  <1>6. CASE EnterNext(t)
    <2> DEFINE span == Spans(t)[Len(scope[t]) + 1]
    <2>1. phase[t] = "entering" /\ Submit(t, span, owner[span])
      BY <1>6 DEF EnterNext
    <2>2. owner[span] \in Nat
      BY <2>1, EnteringFacts
    <2> HIDE DEF span
    <2>. QED  BY <2>1, <2>2, SubmitEvent
  <1>7. CASE EnterWork(t)
    <2>1. /\ emitted' \in Markers("WORK_ENTER", t, pending[t], pending[t].span)
          /\ operation' = operation
      BY <1>7 DEF EnterWork, Emits, EmitFails, Markers
    <2>2. /\ emitted'.kind = "WORK_ENTER" /\ emitted'.tid = t
          /\ emitted'.request = pending[t].request
          /\ emitted'.operation = pending[t].operation
      BY <1>0, <2>1, MarkerFacts
    <2>. QED  BY <1>0, <2>1, <2>2 DEF WellFormed, Frame
  <1>8. CASE ExitLeave(t)
    <2> DEFINE frame == Current(stack[t])
               back == RestoredFrame(stack[t])
    <2>1. /\ \/ emitted' \in Markers("WORK_LEAVE", t, back, frame.span)
             \/ emitted' = Silence(t)
          /\ operation' = operation
      BY <1>8 DEF ExitLeave, Emits, EmitFails, Markers
    <2>2. back \in Frame
      BY <1>0, FrontFacts, CurrentFrame DEF RestoredFrame, NoFrame, Frame
    <2> HIDE DEF back, frame
    <2>3. ASSUME emitted' \in Markers("WORK_LEAVE", t, back, frame.span)
          PROVE  WellFormed(emitted')
      <3>1. /\ emitted'.kind = "WORK_LEAVE" /\ emitted'.tid = t
            /\ emitted'.request = back.request /\ emitted'.operation = back.operation
        BY <2>2, <2>3, MarkerFacts
      <3>. QED  BY <1>0, <2>1, <2>2, <3>1 DEF WellFormed, Frame
    <2>. QED  BY <1>1, <2>1, <2>3
  <1>9. CASE ExitComplete(t)
    <2>1. /\ emitted' \in Markers("COMPLETE", t, pending[t], pending[t].span)
          /\ operation' = operation /\ phase[t] = "left"
      BY <1>9 DEF ExitComplete, Emits, EmitFails, Markers
    <2>2. /\ emitted'.kind = "COMPLETE" /\ emitted'.tid = t /\ emitted'.status = "ok"
          /\ emitted'.request = pending[t].request
          /\ emitted'.operation = pending[t].operation
      BY <1>0, <2>1, MarkerFacts
    <2>3. Open(emitted'.operation)
      BY <2>1, <2>2 DEF Open, Between
    <2>. QED  BY <1>0, <2>1, <2>2, <2>3 DEF WellFormed, Frame
  <1>10. CASE WaitHoldingGuard(t)
    BY <1>1, <1>10 DEF WaitHoldingGuard
  <1>11. CASE DoEffect(t)
    <2>1. /\ emitted' = Effect(t, Meant(t)) /\ operation' = operation
      BY <1>11 DEF DoEffect
    <2>2. Meant(t) \in Nat
      BY MeantNat
    <2>. QED  BY <1>0, <2>1, <2>2 DEF WellFormed, Effect, Marker
  <1>. QED  BY <1>2, <1>3, <1>4, <1>5, <1>6, <1>7, <1>8, <1>9, <1>10, <1>11 DEF ThreadStep

-----------------------------------------------------------------------------
(* What the attributor does with an event is a matter of the event's kind. *)
LEMMA ByKind ==
    ASSUME NEW e, Observe(e)
    PROVE  /\ errors \subseteq errors'
           /\ Unusable(e) /\ e.kind # "NONE" =>
                 /\ UNCHANGED <<state, operations, activeWork, runtimeSpans, ipcJobs,
                                ipcActive, bound>>
                 /\ errors' # {} \/ (~e.captured /\ e.written = "failed" /\ errors' = errors)
           /\ ~Unusable(e) =>
                 /\ e.kind = "NONE" => UNCHANGED attributorVars
                 /\ e.kind = "SUBMIT" => OnSubmit(e)
                 /\ e.kind = "WORK_ENTER" => OnWorkEnter(e)
                 /\ e.kind = "WORK_LEAVE" => OnWorkLeave(e)
                 /\ e.kind = "COMPLETE" => OnComplete(e)
                 /\ e.kind = "EFFECT" => OnEffect(e)
  <1> DEFINE Usual == \/ OnSubmit(e) \/ OnWorkEnter(e) \/ OnWorkLeave(e)
                      \/ OnComplete(e) \/ OnEffect(e)
             Other == \/ OnContext(e) \/ OnFailure(e) \/ OnIpcSend(e) \/ OnIpcCancel(e)
                      \/ OnIpcEnter(e) \/ OnIpcLeave(e)
  <1>1. CASE e.kind = "NONE" /\ UNCHANGED attributorVars
    BY <1>1 DEF attributorVars
  <1>2. CASE /\ Unusable(e)
             /\ errors' = errors \cup
                   Refusal(e.captured \/ e.written # "failed", "incomplete capture")
             /\ UNCHANGED <<state, operations, activeWork, runtimeSpans, ipcJobs,
                            ipcActive, bound>>
    BY <1>2 DEF Refusal
  <1>3. CASE ~Unusable(e) /\ Usual
    <2>1. /\ OnSubmit(e) => e.kind = "SUBMIT" /\ errors \subseteq errors'
          /\ OnWorkEnter(e) => e.kind = "WORK_ENTER" /\ errors \subseteq errors'
          /\ OnWorkLeave(e) => e.kind = "WORK_LEAVE" /\ errors \subseteq errors'
          /\ OnComplete(e) => e.kind = "COMPLETE" /\ errors \subseteq errors'
          /\ OnEffect(e) => e.kind = "EFFECT" /\ errors \subseteq errors'
      BY DEF OnSubmit, OnWorkEnter, OnWorkLeave, OnComplete, OnEffect, EnterContext
    <2>. QED  BY <1>3, <2>1
  <1>4. CASE ~Unusable(e) /\ Other
    <2>1. /\ OnContext(e) => e.kind \in {"JS_CONTEXT", "DONE_ENTER", "DONE_LEAVE"}
          /\ OnFailure(e) => e.kind \in {"INVARIANT_FAILURE", "DUPLICATE_WORK"}
          /\ OnIpcSend(e) => e.kind = "IPC_SEND"
          /\ OnIpcCancel(e) => e.kind = "IPC_CANCEL"
          /\ OnIpcEnter(e) => e.kind = "IPC_ENTER"
          /\ OnIpcLeave(e) => e.kind = "IPC_LEAVE"
      BY DEF OnContext, OnFailure, OnIpcSend, OnIpcCancel, OnIpcEnter, OnIpcLeave,
             TRANSITIONS
    <2>2. Other => errors \subseteq errors'
      BY DEF OnContext, OnFailure, OnIpcSend, OnIpcCancel, OnIpcEnter, OnIpcLeave,
             EnterContext
    <2>. QED  BY <1>4, <2>1, <2>2
  <1>. QED  BY <1>1, <1>2, <1>3, <1>4 DEF Observe

(* The tables keep their types; an operation that is listed stays listed, and *)
(* only one that is open is completed.                                        *)
Kept(o) == /\ o \in DOMAIN operations'
           /\ operations'[o].completed => operations[o].completed \/ Open(o)

LEMMA AttributorStep ==
    ASSUME LayerInv, AttributorTypes, WellFormed(emitted'), Observe(emitted')
    PROVE  AttributorTypes' /\ \A o \in DOMAIN operations : Kept(o)
  <1> DEFINE e == emitted'
  <1>0. /\ operation \in Nat /\ operation' \in {operation, operation + 1}
        /\ e.tid \in Tids /\ e.tid \in Threads /\ e.request \in Nat /\ e.operation \in Nat
        /\ operation' - 1 >= operation - 1
    BY AttributionAssumption DEF WellFormed, LayerInv, LayerTypes
  <1>a. 1 .. operation - 1 \subseteq 1 .. operation' - 1
    <2>1. CASE operation' = operation
      BY <2>1
    <2>2. CASE operation' = operation + 1
      BY <1>0, <2>2
    <2>. QED  BY <1>0, <2>1, <2>2
  <1>1. CASE UNCHANGED <<state, operations, activeWork, runtimeSpans, ipcJobs, ipcActive>>
    BY <1>1, <1>a DEF AttributorTypes, Kept
  <1>2. CASE OnSubmit(e)
    <2> DEFINE life == [request |-> e.request, started |-> FALSE, finished |-> FALSE,
                        completed |-> FALSE, status |-> "none"]
    <2>1. /\ operations' = Put(operations, e.operation, life)
          /\ UNCHANGED <<state, activeWork, ipcJobs, ipcActive>>
          /\ e.operation = operation /\ operation' = operation + 1
      BY <1>2 DEF OnSubmit, WellFormed
    <2>2. life \in Life /\ ~life.completed
      BY <1>0 DEF Life
    <2> HIDE DEF life, e
    <2>3. /\ DOMAIN operations' = DOMAIN operations \cup {e.operation}
          /\ operations'[e.operation] = life
          /\ \A o \in DOMAIN operations \ {e.operation} : operations'[o] = operations[o]
      BY <2>1 DEF Put
    <2>4. operations' \in [DOMAIN operations' -> Life]
      <3>1. \A o \in DOMAIN operations' : operations'[o] \in Life
        BY <2>2, <2>3 DEF AttributorTypes
      <3>2. operations' = [o \in DOMAIN operations' |-> operations'[o]]
        BY <2>1 DEF Put
      <3>. QED  BY <3>1, <3>2
    <2>5. DOMAIN operations' \subseteq 1 .. operation' - 1
      <3>1. operation \in 1 .. operation' - 1
        BY <1>0, <2>1 DEF LayerInv, LayerTypes
      <3>. QED  BY <1>a, <2>1, <2>3, <3>1 DEF AttributorTypes
    <2>6. \A o \in DOMAIN operations : Kept(o)
      BY <2>2, <2>3 DEF Kept
    <2>. QED  BY <2>1, <2>4, <2>5, <2>6 DEF AttributorTypes
  <1>3. ASSUME NEW context \in [request : Nat, operation : Nat, job : {NoJob},
                   origin : {"unobserved", "worker", "completion", "async_context"}],
               state' = [state EXCEPT ![e.tid] = context]
        PROVE  state' \in [Tids -> [request : Nat, operation : Nat, job : {NoJob},
                   origin : {"unobserved", "worker", "completion", "async_context"}]]
    <2> HIDE DEF e
    <2>. QED  BY <1>3 DEF AttributorTypes
  <1>4. ASSUME NEW refusals, EnterContext(e, refusals)
        PROVE  state' \in [Tids -> [request : Nat, operation : Nat, job : {NoJob},
                   origin : {"unobserved", "worker", "completion", "async_context"}]]
    <2> DEFINE context == [request |-> e.request, operation |-> e.operation, job |-> NoJob,
                   origin |-> CASE e.kind = "WORK_ENTER" -> "worker"
                                [] e.kind = "DONE_ENTER" -> "completion"
                                [] OTHER -> "async_context"]
    <2>1. state' = [state EXCEPT ![e.tid] = context]
      BY <1>4 DEF EnterContext
    <2>2. context \in [request : Nat, operation : Nat, job : {NoJob},
                   origin : {"unobserved", "worker", "completion", "async_context"}]
      BY <1>0
    <2> HIDE DEF context
    <2>. QED  BY <1>3, <2>1, <2>2
  <1>6. ASSUME NEW work \in Seq(Nat), activeWork' = [activeWork EXCEPT ![e.tid] = work]
        PROVE  /\ activeWork' \in [Tids -> Seq(Nat)]
               /\ \A t \in Tids \ Threads : activeWork'[t] = <<>>
    BY <1>0, <1>6 DEF AttributorTypes
  <1>7. CASE OnWorkEnter(e)
    <2> DEFINE op == e.operation
               invalid == \/ op \notin DOMAIN operations
                          \/ operations[op].request # e.request
                          \/ operations[op].started
    <2>1. /\ operations' = IF invalid THEN operations
                           ELSE [operations EXCEPT ![op].started = TRUE]
          /\ activeWork' = [activeWork EXCEPT ![e.tid] = Append(@, op)]
          /\ EnterContext(e, Refusal(invalid, "invalid work entry"))
          /\ UNCHANGED <<ipcJobs, ipcActive>>
      BY <1>7 DEF OnWorkEnter
    <2>2. /\ DOMAIN operations' = DOMAIN operations
          /\ operations' \in [DOMAIN operations' -> Life]
          /\ \A p \in DOMAIN operations : Kept(p)
      <3> HIDE DEF op
      <3>1. CASE invalid
        BY <2>1, <3>1 DEF AttributorTypes, Kept
      <3>2. CASE ~invalid
        <4>1. /\ op \in DOMAIN operations
              /\ operations' = [operations EXCEPT ![op].started = TRUE]
          BY <2>1, <3>2
        <4>. QED  BY <4>1 DEF AttributorTypes, Life, Kept
      <3>. QED  BY <3>1, <3>2
    <2>3. Append(activeWork[e.tid], op) \in Seq(Nat)
      BY <1>0 DEF AttributorTypes
    <2>4. activeWork' \in [Tids -> Seq(Nat)] /\ \A t \in Tids \ Threads : activeWork'[t] = <<>>
      BY <1>6, <2>1, <2>3
    <2>5. state' \in [Tids -> [request : Nat, operation : Nat, job : {NoJob},
                   origin : {"unobserved", "worker", "completion", "async_context"}]]
      BY <1>4, <2>1
    <2> HIDE DEF e
    <2>. QED  BY <1>a, <2>1, <2>2, <2>4, <2>5 DEF AttributorTypes
  <1>8. CASE OnWorkLeave(e)
    <2> DEFINE work == activeWork[e.tid]
               top == LastOf(work)
    <2>1. /\ activeWork' = IF work = <<>> THEN activeWork
                           ELSE [activeWork EXCEPT ![e.tid] = FrontOf(work)]
          /\ operations' = IF work = <<>> \/ top \notin DOMAIN operations
                           THEN operations
                           ELSE [operations EXCEPT ![top].finished = TRUE]
          /\ EnterContext(e, Refusal(work = <<>>, "leave without enter"))
          /\ UNCHANGED <<ipcJobs, ipcActive>>
      BY <1>8 DEF OnWorkLeave
    <2>2. /\ DOMAIN operations' = DOMAIN operations
          /\ operations' \in [DOMAIN operations' -> Life]
          /\ \A p \in DOMAIN operations : Kept(p)
      <3> HIDE DEF top
      <3>1. CASE operations' = operations
        BY <3>1 DEF AttributorTypes, Kept
      <3>2. CASE operations' # operations
        <4>1. /\ top \in DOMAIN operations
              /\ operations' = [operations EXCEPT ![top].finished = TRUE]
          BY <2>1, <3>2
        <4>. QED  BY <4>1 DEF AttributorTypes, Life, Kept
      <3>. QED  BY <3>1, <3>2
    <2>3. activeWork' \in [Tids -> Seq(Nat)] /\ \A t \in Tids \ Threads : activeWork'[t] = <<>>
      <3>1. CASE work = <<>>
        BY <2>1, <3>1 DEF AttributorTypes
      <3>2. CASE work # <<>>
        <4>1. FrontOf(work) \in Seq(Nat)
          BY <1>0, <3>2, FrontNat DEF AttributorTypes
        <4>. QED  BY <1>6, <2>1, <3>2, <4>1
      <3>. QED  BY <3>1, <3>2
    <2>4. state' \in [Tids -> [request : Nat, operation : Nat, job : {NoJob},
                   origin : {"unobserved", "worker", "completion", "async_context"}]]
      BY <1>4, <2>1
    <2> HIDE DEF e
    <2>. QED  BY <1>a, <2>1, <2>2, <2>3, <2>4 DEF AttributorTypes
  <1>9. CASE OnComplete(e)
    <2> DEFINE op == e.operation
               invalid == \/ op \notin DOMAIN operations
                          \/ operations[op].completed
                          \/ operations[op].request # e.request
    <2>1. /\ operations' = IF invalid THEN operations
                           ELSE [operations EXCEPT ![op].completed = TRUE,
                                                   ![op].status = e.status]
          /\ UNCHANGED <<state, activeWork, ipcJobs, ipcActive>>
          /\ e.status = "ok" /\ Open(op)
      BY <1>9 DEF OnComplete, WellFormed
    <2>2. /\ DOMAIN operations' = DOMAIN operations
          /\ operations' \in [DOMAIN operations' -> Life]
          /\ \A p \in DOMAIN operations : Kept(p)
      <3> HIDE DEF op
      <3>1. CASE invalid
        BY <2>1, <3>1 DEF AttributorTypes, Kept
      <3>2. CASE ~invalid
        <4>1. /\ op \in DOMAIN operations
              /\ operations' = [operations EXCEPT ![op].completed = TRUE,
                                                  ![op].status = "ok"]
          BY <2>1, <3>2
        <4>2. operations[op] \in Life
          BY <4>1 DEF AttributorTypes
        <4>3. /\ DOMAIN operations' = DOMAIN operations
              /\ operations'[op] \in Life
              /\ \A p \in DOMAIN operations \ {op} : operations'[p] = operations[p]
          BY <4>1, <4>2 DEF Life
        <4>4. operations' = [p \in DOMAIN operations' |-> operations'[p]]
          BY <4>1
        <4>5. \A p \in DOMAIN operations' : operations'[p] \in Life
          BY <4>3 DEF AttributorTypes
        <4>. QED  BY <2>1, <4>1, <4>3, <4>4, <4>5 DEF Kept
      <3>. QED  BY <3>1, <3>2
    <2> HIDE DEF e
    <2>. QED  BY <1>a, <2>1, <2>2 DEF AttributorTypes
  <1>10. CASE ~Unusable(e)
    <2>1. e.kind = "NONE" \/ e.kind = "EFFECT" =>
             UNCHANGED <<state, operations, activeWork, runtimeSpans, ipcJobs, ipcActive>>
      BY <1>10, ByKind DEF OnEffect, attributorVars
    <2>. QED  BY <1>1, <1>2, <1>7, <1>8, <1>9, <1>10, <2>1, ByKind DEF WellFormed
  <1>11. CASE Unusable(e) /\ e.kind # "NONE"
    BY <1>1, <1>11, ByKind
  <1>12. CASE Unusable(e) /\ e.kind = "NONE"
    <2>1. ~Unusable(e)
      BY <1>12 DEF WellFormed
    <2>. QED  BY <1>12, <2>1
  <1>. QED  BY <1>10, <1>11, <1>12

-----------------------------------------------------------------------------
(* An interval that is open was open, or is the one that the step submits. *)
LEMMA StaysOpen ==
    ASSUME \A u \in Threads : \A i \in DOMAIN stack'[u] : Open(stack'[u][i].operation),
           \A u \in Threads : Between(u)' =>
              Open(pending'[u].operation) \/ pending'[u].operation = operation,
           NEW o, Open(o)'
    PROVE  Open(o) \/ o = operation
  BY DEF Open, Stacked

(* After a panic, or at the end of an interval, a thread is between no markers. *)
LEMMA SettlesBetween ==
    ASSUME NEW t \in Threads, NEW inside, NEW fate, Settles(t, inside, fate)
    PROVE  /\ \A u \in Threads : phase'[u] = "aborted" \/ u = t \/ phase'[u] = phase[u]
           /\ phase'[t] \in {"running", "leaving", "entering", "idle", "aborted"}
           /\ phase'[t] = "idle" => inside = <<>>
           /\ ~Between(t)' /\ \A u \in Threads : Between(u)' => Between(u)
  BY DEF Settles, Lands, Between

LEMMA PanicBetween ==
    ASSUME LayerInv, NEW t \in Threads, Polls(t), NEW inside, Panic(t, inside)
    PROVE  /\ \A u \in Threads : phase'[u] = "aborted" \/ u = t \/ phase'[u] = phase[u]
           /\ phase'[t] \in {"running", "leaving", "entering", "idle", "aborted"}
           /\ phase'[t] = "idle" => inside = <<>>
           /\ ~Between(t)' /\ \A u \in Threads : Between(u)' => Between(u)
  <1>1. LayerTypes /\ run[t] \in Tasks /\ task[run[t]].status # "absent"
    BY DEF LayerInv, Structured
  <1>2. PICK fate \in {"panicked", "unwinding"} : Settles(t, inside, fate)
    BY <1>1, PanicSettles
  <1>. QED  BY <1>2, SettlesBetween

(* The innermost frame is there when its span is left in order. *)
LEMMA InOrderFrame ==
    ASSUME LayerInv, NEW t \in Threads, phase[t] = "leaving", InOrder(t)
    PROVE  /\ stack[t] # <<>> /\ Len(stack[t]) \in DOMAIN stack[t]
           /\ Current(stack[t]) = stack[t][Len(stack[t])]
  <1>1. scope[t] \in Seq(Nat) /\ scope[t] # <<>> /\ stack[t] \in Seq(Frame) /\ Structured(t)
    BY DEF LayerInv, LayerTypes, Structured
  <1>2. LastOf(scope[t]) \in Created
    BY <1>1, FrontNat DEF Structured
  <1>3. stack[t] # <<>>
    BY <1>1, <1>2, CurrentFrame DEF InOrder, NoFrame, Created
  <1>. QED  BY <1>1, <1>3, CurrentFrame

LEMMA OpenStep ==
    ASSUME LayerInv, LayerNext, NEW o, Open(o)'
    PROVE  Open(o) \/ o = operation
  <1> PICK t \in Threads : ThreadStep(t)
    BY DEF LayerNext
  <1>0. /\ stack \in [Threads -> Seq(Frame)] /\ pending \in [Threads -> Frame]
        /\ phase \in [Threads -> Phases]
        /\ \A u \in Threads : \A i \in DOMAIN stack[u] : Open(stack[u][i].operation)
        /\ \A u \in Threads : Between(u) => Open(pending[u].operation)
    BY DEF LayerInv, LayerTypes, Open, Stacked
  <1>1. ASSUME UNCHANGED <<stack, pending>>, \A u \in Threads : Between(u)' => Between(u)
        PROVE  Open(o) \/ o = operation
    BY <1>0, <1>1, StaysOpen
  <1>2. ASSUME NEW k \in Tasks, Poll(t, k) PROVE Open(o) \/ o = operation
    BY <1>0, <1>1, <1>2 DEF Poll, Between
  <1>3. ASSUME NEW k \in Tasks, NEW field \in Requests \cup {0}, Spawn(t, k, field)
        PROVE  Open(o) \/ o = operation
    BY <1>1, <1>3 DEF Spawn, Between
  <1>4. ASSUME NEW fate \in {"resume", "ready", "done"}, StartLeaving(t, fate)
        PROVE  Open(o) \/ o = operation
    BY <1>0, <1>1, <1>4 DEF StartLeaving, Between
  <1>5. CASE WaitHoldingGuard(t)
    BY <1>0, <1>1, <1>5 DEF WaitHoldingGuard, Between
  <1>6. CASE DoEffect(t)
    BY <1>1, <1>6 DEF DoEffect, Between
  <1>7. ASSUME NEW span, NEW request \in Nat, Polls(t), Submit(t, span, request)
        PROVE  Open(o) \/ o = operation
    <2> DEFINE frame == [span |-> span, request |-> request, operation |-> operation]
    <2>1. CASE /\ pending' = [pending EXCEPT ![t] = frame] /\ stack' = stack
               /\ phase' = [phase EXCEPT ![t] = "submitted"]
      <3>1. /\ pending'[t].operation = operation
            /\ \A u \in Threads \ {t} : pending'[u] = pending[u] /\ phase'[u] = phase[u]
        BY <1>0, <2>1
      <3>. QED  BY <1>0, <2>1, <3>1, StaysOpen DEF Between
    <2>2. CASE Panic(t, scope[t]) /\ UNCHANGED <<stack, pending>>
      BY <1>1, <1>7, <2>2, PanicBetween
    <2>. QED  BY <1>7, <2>1, <2>2 DEF Submit
  <1>8. ASSUME NEW field \in Requests \cup {0}, NEW parent \in 0 .. Len(owner),
               OpenScope(t, field, parent)
        PROVE  Open(o) \/ o = operation
    BY <1>7, <1>8, OpenScopeFacts
  <1>9. CASE EnterNext(t)
    <2> DEFINE span == Spans(t)[Len(scope[t]) + 1]
    <2>1. phase[t] = "entering" /\ Submit(t, span, owner[span])
      BY <1>9 DEF EnterNext
    <2>2. owner[span] \in Nat /\ Polls(t)
      BY <2>1, EnteringFacts
    <2> HIDE DEF span
    <2>. QED  BY <1>7, <2>1, <2>2
  <1>10. CASE EnterWork(t)
    <2>1. phase[t] = "submitted" /\ pending' = pending /\ Between(t) /\ Polls(t)
      BY <1>10 DEF EnterWork, Between, Polls
    <2>2. CASE Panic(t, scope[t]) /\ UNCHANGED stack
      BY <1>1, <2>1, <2>2, PanicBetween
    <2>3. CASE stack' = [stack EXCEPT ![t] = Append(stack[t], pending[t])] /\
               (Abort \/ \E p : phase' = [phase EXCEPT ![t] = p] /\
                                p \in {"entering", "leaving", "running"})
      <3>1. \A u \in Threads : Between(u)' => Between(u)
        BY <1>0, <2>1, <2>3 DEF Between, Abort
      <3>2. \A u \in Threads \ {t} : stack'[u] = stack[u]
        BY <1>0, <2>3
      <3>3. stack'[t] = Append(stack[t], pending[t])
        BY <1>0, <2>3
      <3>4. \A i \in DOMAIN stack'[t] :
               stack'[t][i] = pending[t] \/ (i \in DOMAIN stack[t] /\ stack'[t][i] = stack[t][i])
        BY <1>0, <3>3, AppendFacts
      <3>5. \A u \in Threads : \A i \in DOMAIN stack'[u] : Open(stack'[u][i].operation)
        BY <1>0, <2>1, <3>2, <3>4
      <3>. QED  BY <1>0, <2>1, <3>1, <3>5, StaysOpen
    <2>. QED  BY <1>10, <2>2, <2>3 DEF EnterWork
  <1>11. CASE ExitLeave(t)
    <2>1. /\ phase[t] = "leaving" /\ Polls(t)
          /\ stack' = [stack EXCEPT ![t] = IF @ = <<>> THEN @ ELSE FrontOf(@)]
          /\ \/ /\ InOrder(t) /\ pending' = [pending EXCEPT ![t] = Current(stack[t])]
                /\ phase' = [phase EXCEPT ![t] = "left"]
             \/ Panic(t, FrontOf(scope[t])) /\ UNCHANGED pending
      BY <1>11 DEF ExitLeave, Polls
    <2>2. \A u \in Threads \ {t} : stack'[u] = stack[u]
      BY <1>0, <2>1
    <2>3. \A i \in DOMAIN stack'[t] : i \in DOMAIN stack[t] /\ stack'[t][i] = stack[t][i]
      <3>1. stack'[t] = IF stack[t] = <<>> THEN stack[t] ELSE FrontOf(stack[t])
        BY <1>0, <2>1
      <3>2. stack[t] \in Seq(Frame)
        BY <1>0
      <3>. QED  BY <3>1, <3>2, FrontFacts
    <2>4. \A u \in Threads : \A i \in DOMAIN stack'[u] : Open(stack'[u][i].operation)
      BY <1>0, <2>2, <2>3
    <2>5. CASE /\ InOrder(t) /\ pending' = [pending EXCEPT ![t] = Current(stack[t])]
               /\ phase' = [phase EXCEPT ![t] = "left"]
      <3>1. Open(Current(stack[t]).operation)
        BY <1>0, <2>1, <2>5, InOrderFrame
      <3>2. \A u \in Threads : Between(u)' => Open(pending'[u].operation)
        BY <1>0, <2>5, <3>1 DEF Between
      <3>. QED  BY <2>4, <3>2, StaysOpen
    <2>6. CASE Panic(t, FrontOf(scope[t])) /\ UNCHANGED pending
      BY <1>0, <2>1, <2>4, <2>6, PanicBetween, StaysOpen
    <2>. QED  BY <2>1, <2>5, <2>6
  <1>12. CASE ExitComplete(t)
    <2>1. /\ LayerTypes /\ run[t] \in Tasks /\ task[run[t]].status # "absent"
          /\ ending[t] \in Endings /\ Polls(t) /\ UNCHANGED <<stack, pending>>
          /\ Continue(t, scope[t], ending[t]) \/ Panic(t, scope[t])
      BY <1>12 DEF ExitComplete, LayerInv, LayerTypes, Structured, Polls
    <2>2. \A u \in Threads : Between(u)' => Between(u)
      BY <2>1, ContinueSettles, SettlesBetween, PanicBetween
    <2>. QED  BY <1>1, <2>1, <2>2
  <1>. QED  BY <1>2, <1>3, <1>4, <1>5, <1>6, <1>8, <1>9, <1>10, <1>11, <1>12 DEF ThreadStep

(* What can no longer be completed stays so. *)
LEMMA DoomedStep ==
    ASSUME LayerInv, AttributorTypes, LayerNext, Observe(emitted'), Doomed
    PROVE  Doomed'
  <1>1. CASE errors # {}
    BY <1>1, ByKind DEF Doomed
  <1>2. ASSUME NEW o \in DOMAIN operations, ~operations[o].completed, ~Open(o)
        PROVE  Doomed'
    <2>1. o \in DOMAIN operations' /\ ~operations'[o].completed
      BY <1>2, LayerEvent, AttributorStep DEF Kept
    <2>2. o # operation
      BY DEF AttributorTypes, LayerInv, LayerTypes
    <2>. QED  BY <1>2, <2>1, <2>2, OpenStep DEF Doomed
  <1>. QED  BY <1>1, <1>2 DEF Doomed

-----------------------------------------------------------------------------
(* A marker arrives, or the capture is refused; one that was not written is  *)
(* seen to be missing, or it leaves no trace.                                *)
LEMMA Sent ==
    ASSUME NEW kind \in {"SUBMIT", "WORK_ENTER", "WORK_LEAVE", "COMPLETE"},
           NEW t, NEW frame \in Frame, NEW span,
           Emits(SpanMarker(kind, t, frame, span)), Observe(emitted')
    PROVE  /\ emitted'.kind = kind /\ emitted'.tid = t /\ emitted'.span = span
           /\ emitted'.status = "ok" /\ emitted'.request = frame.request
           /\ emitted'.operation = frame.operation
           /\ \/ errors' # {} /\ faults' # {}
              \/ ~Unusable(emitted') /\ faults' = faults
  <1>1. /\ emitted' \in Delivered(SpanMarker(kind, t, frame, span))
        /\ faults' = IF emitted'.captured THEN faults ELSE faults \cup {"capture"}
    BY DEF Emits
  <1>2. /\ emitted'.kind = kind /\ emitted'.tid = t /\ emitted'.span = span
        /\ emitted'.status = "ok" /\ emitted'.request = frame.request
        /\ emitted'.operation = frame.operation /\ emitted'.written = "whole"
    BY <1>1, MarkerFacts DEF Markers
  <1>3. CASE emitted'.captured
    BY <1>1, <1>2, <1>3 DEF Unusable
  <1>4. CASE ~emitted'.captured
    BY <1>1, <1>2, <1>4, ByKind DEF Unusable
  <1>. QED  BY <1>2, <1>3, <1>4

LEMMA NotSent ==
    ASSUME NEW kind \in {"SUBMIT", "WORK_ENTER", "WORK_LEAVE", "COMPLETE"},
           NEW t, NEW frame \in Frame, NEW span,
           EmitFails(SpanMarker(kind, t, frame, span)), Observe(emitted')
    PROVE  faults' # {} /\ (errors' # {} \/ UNCHANGED attributorVars)
  <1>1. /\ emitted' \in Undelivered(SpanMarker(kind, t, frame, span))
        /\ faults' = faults \cup {"marker"}
    BY DEF EmitFails
  <1>2. emitted'.kind = kind /\ emitted'.written # "whole"
    BY <1>1, MarkerFacts DEF Markers
  <1>3. Unusable(emitted') /\ emitted'.kind # "NONE"
    BY <1>2 DEF Unusable
  <1>. QED  BY <1>1, <1>3, ByKind DEF attributorVars

LEMMA Silent ==
    ASSUME NEW t, emitted' = Silence(t), Observe(emitted')
    PROVE  UNCHANGED attributorVars
  <1>1. emitted'.kind = "NONE" /\ ~Unusable(emitted')
    BY DEF Silence, Marker, Unusable
  <1>. QED  BY <1>1, ByKind

-----------------------------------------------------------------------------
(* What every step has to keep. *)
Follows ==
    /\ Mirrored' \/ Doomed'
    /\ faults' = {} /\ Clean => Clean'

Owned == \A s \in Created : owner[s] = meant[s] /\ owner[s] \in Requests \cup {0}
Grown == Created \subseteq Created' /\ \A s \in Created : owner'[s] = owner[s]

(* The frames of a thread whose stack the step leaves alone, if what the     *)
(* attributor learned is about another interval.                             *)
LEMMA SubmittedStays ==
    ASSUME Grown, NEW op, NEW frame, frame.operation # op, Submitted(frame),
           \A o \in DOMAIN operations \ {op} :
              o \in DOMAIN operations' /\ operations'[o] = operations[o]
    PROVE  /\ Submitted(frame)'
           /\ operations'[frame.operation] = operations[frame.operation]
  BY DEF Submitted, Grown

LEMMA FramedStays ==
    ASSUME NEW u \in Threads, Framed(u), Grown, stack'[u] = stack[u],
           state'[u] = state[u], activeWork'[u] = activeWork[u], NEW op,
           \A o \in DOMAIN operations \ {op} :
              o \in DOMAIN operations' /\ operations'[o] = operations[o],
           \A i \in DOMAIN stack[u] : stack[u][i].operation # op
    PROVE  Framed(u)'
  <1>1. ASSUME NEW frame, frame.operation # op, Running(frame)
        PROVE  Running(frame)'
    BY <1>1, SubmittedStays DEF Running
  <1>2. \A i \in DOMAIN stack[u] : Running(stack[u][i])'
    BY <1>1 DEF Framed, Running
  <1>. QED  BY <1>2 DEF Framed

LEMMA BoundedStays ==
    ASSUME NEW u \in Threads, Bounded(u), Grown, pending'[u] = pending[u],
           Between(u)' => phase'[u] = phase[u], NEW op,
           \A o \in DOMAIN operations \ {op} :
              o \in DOMAIN operations' /\ operations'[o] = operations[o],
           Between(u) => pending[u].operation # op
    PROVE  Bounded(u)'
  BY SubmittedStays DEF Bounded, Between

(* A step of which the attributor learns nothing. *)
LEMMA QuietMirrored ==
    ASSUME LayerInv, AttributorTypes, Mirrored, UNCHANGED attributorVars,
           UNCHANGED <<stack, pending>>, Grown, Owned', \A u \in Threads : Scoped(u)',
           \A u \in Threads : Between(u)' => phase'[u] = phase[u]
    PROVE  Mirrored'
  <1>1. \A u \in Threads : Framed(u)' /\ Scoped(u)' /\ Bounded(u)'
    <2> TAKE u \in Threads
    <2>1. /\ Framed(u) /\ Bounded(u)
          /\ state'[u] = state[u] /\ activeWork'[u] = activeWork[u]
          /\ operations' = operations
      BY DEF Mirrored, attributorVars
    <2>2. \A i \in DOMAIN stack[u] : stack[u][i].operation # 0
      BY <2>1 DEF Framed, Running, Submitted, AttributorTypes
    <2>3. Between(u) => pending[u].operation # 0
      BY <2>1 DEF Bounded, Submitted, Between, AttributorTypes
    <2>. QED  BY <2>1, <2>2, <2>3, FramedStays, BoundedStays
  <1>2. \A s \in DOMAIN runtimeSpans' : s \in Created' /\ runtimeSpans'[s] = owner'[s]
    BY DEF Mirrored, attributorVars, Grown
  <1>3. Apart'
    <2>1. \A u \in Threads : Between(u)' => Between(u)
      BY DEF Between
    <2>. QED  BY <2>1 DEF Mirrored, Apart
  <1>4. BoundToOwner'
    BY DEF Mirrored, BoundToOwner, attributorVars
  <1>. QED  BY <1>1, <1>2, <1>3, <1>4 DEF Mirrored, Owned

(* If moreover every thread stays at its boundary, a clean capture stays so. *)
LEMMA QuietClean ==
    ASSUME Clean, Mirrored', Unguarded', UNCHANGED attributorVars,
           UNCHANGED <<stack, pending>>,
           \A u \in Threads : Between(u) => Between(u)'
    PROVE  Clean'
  <1>1. \A o : Open(o) => Open(o)'
    BY DEF Open, Stacked
  <1>2. operations' = operations /\ errors' = {}
    BY DEF Clean, attributorVars
  <1>. QED  BY <1>1, <1>2 DEF Clean, Finished

LEMMA DoomedByError ==
    ASSUME errors' # {}, faults' # {}
    PROVE  Follows
  BY DEF Follows, Doomed

(* The request of the code on a thread, as the layer knows it. *)
LEMMA CurrentIsMeant ==
    ASSUME LayerInv, Mirrored, NEW t \in Threads, Len(scope[t]) = Len(stack[t])
    PROVE  Current(stack[t]).request = Meant(t) /\ Meant(t) \in Requests \cup {0}
  <1>1. scope[t] \in Seq(Nat) /\ stack[t] \in Seq(Frame)
    BY DEF LayerInv, LayerTypes
  <1>2. CASE scope[t] = <<>>
    <2>1. stack[t] = <<>>
      BY <1>1, <1>2
    <2>. QED  BY <1>2, <2>1 DEF Current, Meant, NoFrame
  <1>3. CASE scope[t] # <<>>
    <2> DEFINE n == Len(stack[t])
    <2>1. /\ stack[t] # <<>> /\ n \in DOMAIN scope[t] /\ n \in DOMAIN stack[t]
          /\ LastOf(scope[t]) = scope[t][n]
      BY <1>1, <1>3 DEF LastOf
    <2>2. Current(stack[t]) = stack[t][n]
      BY <1>1, <2>1, CurrentFrame
    <2>3. stack[t][n].span = scope[t][n] /\ Submitted(stack[t][n])
      BY <2>1 DEF Mirrored, Scoped, Framed, Running
    <2>. QED  BY <1>3, <2>1, <2>2, <2>3 DEF Meant, Submitted, Mirrored
  <1>. QED  BY <1>2, <1>3

-----------------------------------------------------------------------------
LEMMA PollFollows ==
    ASSUME LayerInv, AttributorTypes, Mirrored, Observe(emitted'),
           NEW t \in Threads, NEW k \in Tasks, Poll(t, k)
    PROVE  Follows
  <1>1. /\ UNCHANGED <<owner, meant, stack, pending, scope>>
        /\ phase[t] = "idle" /\ phase' = [phase EXCEPT ![t] = "entering"]
        /\ task' = [task EXCEPT ![k].status = "polled"]
        /\ UNCHANGED attributorVars
    BY Silent DEF Poll
  <1>2. /\ phase'[t] = "entering" /\ \A u \in Threads \ {t} : phase'[u] = phase[u]
        /\ \A j \in Tasks : task'[j].holds = task[j].holds
    BY <1>1 DEF LayerInv, LayerTypes
  <1>3. Grown /\ Owned'
    BY <1>1 DEF Mirrored, Grown, Owned, Created
  <1>4. \A u \in Threads : Scoped(u)'
    BY <1>1, <1>2 DEF Mirrored, Scoped
  <1>5. \A u \in Threads : Between(u)' <=> Between(u)
    BY <1>1, <1>2 DEF Between
  <1>6. Mirrored'
    BY <1>1, <1>2, <1>3, <1>4, QuietMirrored DEF Between
  <1>7. Clean => Unguarded'
    BY <1>1, <1>2 DEF Clean, Unguarded
  <1>. QED  BY <1>1, <1>5, <1>6, <1>7, QuietClean DEF Follows

LEMMA StartLeavingFollows ==
    ASSUME LayerInv, AttributorTypes, Mirrored, Observe(emitted'),
           NEW t \in Threads, NEW fate, StartLeaving(t, fate)
    PROVE  Follows
  <1>1. /\ UNCHANGED <<owner, meant, stack, pending, scope, task>>
        /\ phase[t] = "running" /\ phase' = [phase EXCEPT ![t] = "leaving"]
        /\ UNCHANGED attributorVars
    BY Silent DEF StartLeaving
  <1>2. phase'[t] = "leaving" /\ \A u \in Threads \ {t} : phase'[u] = phase[u]
    BY <1>1 DEF LayerInv, LayerTypes
  <1>3. Grown /\ Owned'
    BY <1>1 DEF Mirrored, Grown, Owned, Created
  <1>4. \A u \in Threads : Scoped(u)'
    BY <1>1, <1>2 DEF Mirrored, Scoped
  <1>5. \A u \in Threads : Between(u)' <=> Between(u)
    BY <1>1, <1>2 DEF Between
  <1>6. Mirrored'
    BY <1>1, <1>2, <1>3, <1>4, QuietMirrored DEF Between
  <1>7. Clean => Unguarded'
    BY <1>1 DEF Clean, Unguarded
  <1>. QED  BY <1>1, <1>5, <1>6, <1>7, QuietClean DEF Follows

LEMMA WaitHoldingGuardFollows ==
    ASSUME LayerInv, AttributorTypes, Mirrored, Observe(emitted'),
           NEW t \in Threads, WaitHoldingGuard(t)
    PROVE  Follows
  <1> DEFINE inside == SubSeq(scope[t], 1, Len(Spans(t)))
  <1>1. /\ UNCHANGED <<owner, meant, stack, pending>>
        /\ phase[t] = "running" /\ phase' = [phase EXCEPT ![t] = "leaving"]
        /\ Len(scope[t]) > Len(Spans(t))
        /\ scope' = [scope EXCEPT ![t] = inside]
        /\ faults' # {} /\ UNCHANGED attributorVars
    BY Silent DEF WaitHoldingGuard
  <1>2. /\ scope[t] \in Seq(Nat) /\ Spans(t) \in Seq(Nat)
    BY <1>1 DEF LayerInv, LayerTypes, Structured, Polls, Spans
  <1>3. /\ Len(inside) <= Len(scope[t])
        /\ \A i \in DOMAIN inside : i \in DOMAIN scope[t] /\ inside[i] = scope[t][i]
    <2>1. Len(Spans(t)) \in 0 .. Len(scope[t])
      BY <1>1, <1>2
    <2>. QED  BY <1>2, <2>1, PrefixNat
  <1> HIDE DEF inside
  <1>4. /\ phase'[t] = "leaving" /\ \A u \in Threads \ {t} : phase'[u] = phase[u]
        /\ scope'[t] = inside /\ \A u \in Threads \ {t} : scope'[u] = scope[u]
    BY <1>1 DEF LayerInv, LayerTypes
  <1>5. Grown /\ Owned'
    BY <1>1 DEF Mirrored, Grown, Owned, Created
  <1>6. \A u \in Threads : Scoped(u)'
    <2>1. \A u \in Threads \ {t} : Scoped(u)'
      BY <1>1, <1>4 DEF Mirrored, Scoped
    <2>2. Scoped(t) /\ stack' = stack
      BY <1>1 DEF Mirrored
    <2>3. Len(inside) <= Len(stack[t])
      <3>1. Len(stack[t]) \in Nat /\ Len(scope[t]) \in Nat /\ Len(inside) \in Nat
        BY <1>2, <1>1, PrefixNat DEF LayerInv, LayerTypes, inside
      <3>. QED  BY <1>3, <2>2, <3>1 DEF Scoped
    <2>4. Scoped(t)'
      BY <1>3, <1>4, <2>2, <2>3 DEF Scoped
    <2>. QED  BY <2>1, <2>4
  <1>7. Mirrored'
    BY <1>1, <1>4, <1>5, <1>6, QuietMirrored DEF Between
  <1>. QED  BY <1>1, <1>7 DEF Follows

LEMMA SpawnFollows ==
    ASSUME LayerInv, AttributorTypes, Mirrored, Observe(emitted'),
           NEW t \in Threads, NEW k \in Tasks, NEW field \in Requests \cup {0},
           Spawn(t, k, field)
    PROVE  Follows
  <1>1. /\ UNCHANGED <<stack, pending, phase, scope>>
        /\ phase[t] \in {"idle", "running"} /\ UNCHANGED attributorVars
    BY Silent DEF Spawn
  <1>2. PICK n \in {1, 2} : \E new \in [1 .. n -> Requests \cup {0}] :
              /\ owner' \in Seq(Nat) /\ Len(owner') = Len(owner) + n
              /\ meant' \in Seq(Nat) /\ Len(meant') = Len(meant) + n
              /\ \A i \in 1 .. Len(owner) : owner'[i] = owner[i] /\ meant'[i] = meant[i]
              /\ \A i \in 1 .. n : /\ owner'[Len(owner) + i] = OwnerOfNew(t, new[i], 0)
                                   /\ meant'[Len(owner) + i] = MeantOfNew(t, new[i], 0)
              /\ task' = [task EXCEPT ![k] = [status |-> "ready", holds |-> FALSE,
                                   spans |-> [i \in 1 .. n |-> Len(owner) + i]]]
    BY SpawnFacts, Zenon
  <1>3. PICK new \in [1 .. n -> Requests \cup {0}] :
              /\ Len(owner') = Len(owner) + n
              /\ \A i \in 1 .. Len(owner) : owner'[i] = owner[i] /\ meant'[i] = meant[i]
              /\ \A i \in 1 .. n : /\ owner'[Len(owner) + i] = OwnerOfNew(t, new[i], 0)
                                   /\ meant'[Len(owner) + i] = MeantOfNew(t, new[i], 0)
              /\ task' = [task EXCEPT ![k] = [status |-> "ready", holds |-> FALSE,
                                   spans |-> [i \in 1 .. n |-> Len(owner) + i]]]
    BY <1>2
  <1>4. Len(owner) \in Nat
    BY DEF LayerInv, LayerTypes
  <1>5. Grown
    BY <1>3, <1>4 DEF Grown, Created
  <1>6. Owned'
    <2>1. Current(stack[t]).request = Meant(t) /\ Meant(t) \in Requests \cup {0}
      BY <1>1, CurrentIsMeant DEF Mirrored, Scoped
    <2>2. \A i \in 1 .. n : /\ owner'[Len(owner) + i] = meant'[Len(owner) + i]
                            /\ owner'[Len(owner) + i] \in Requests \cup {0}
      BY <1>3, <2>1 DEF OwnerOfNew, MeantOfNew
    <2>3. \A s \in Created' : s \in Created \/ \E i \in 1 .. n : s = Len(owner) + i
      <3> TAKE s \in Created'
      <3>1. s \in Nat /\ s >= 1 /\ s <= Len(owner) + n
        BY <1>3, <1>4 DEF Created
      <3>2. CASE s <= Len(owner)
        BY <1>4, <3>1, <3>2 DEF Created
      <3>3. CASE s > Len(owner)
        <4>1. s - Len(owner) \in 1 .. n /\ s = Len(owner) + (s - Len(owner))
          BY <1>4, <3>1, <3>3
        <4>. QED  BY <4>1
      <3>. QED  BY <1>4, <3>1, <3>2, <3>3
    <2>4. \A s \in Created : owner'[s] = meant'[s] /\ owner'[s] \in Requests \cup {0}
      BY <1>3 DEF Mirrored, Created
    <2>. QED  BY <2>2, <2>3, <2>4 DEF Owned
  <1>7. \A u \in Threads : Scoped(u)'
    BY <1>1 DEF Mirrored, Scoped
  <1>8. Mirrored'
    BY <1>1, <1>5, <1>6, <1>7, QuietMirrored
  <1>9. Clean => Unguarded'
    <2>1. \A j \in Tasks : task'[j].holds = task[j].holds \/ task'[j].holds = FALSE
      BY <1>3 DEF LayerInv, LayerTypes
    <2>. QED  BY <1>1, <2>1 DEF Clean, Unguarded
  <1>. QED  BY <1>1, <1>8, <1>9, QuietClean DEF Follows, Between

LEMMA DoEffectFollows ==
    ASSUME LayerInv, AttributorTypes, Mirrored, Observe(emitted'),
           NEW t \in Threads, DoEffect(t)
    PROVE  Follows
  <1>1. /\ emitted' = Effect(t, Meant(t)) /\ phase[t] \in {"idle", "running"}
        /\ UNCHANGED <<owner, meant, stack, operation, pending, phase, scope, run,
                       ending, task, faults>>
    BY DEF DoEffect
  <1>2. /\ emitted'.kind = "EFFECT" /\ ~Unusable(emitted')
        /\ emitted'.tid = t /\ emitted'.request = Meant(t)
    BY <1>1 DEF Effect, Marker, Unusable
  <1>3. /\ bound' = bound \cup {<<Meant(t), state[t].request>>}
        /\ UNCHANGED <<state, operations, activeWork, runtimeSpans, errors>>
    BY <1>2, ByKind DEF OnEffect
  <1>4. state[t].request = Meant(t)
    BY <1>1, CurrentIsMeant DEF Mirrored, Framed, Scoped
  <1>5. BoundToOwner'
    BY <1>3, <1>4 DEF Mirrored, BoundToOwner
  <1>6. \A u \in Threads : (Framed(u) <=> Framed(u)') /\ (Scoped(u) <=> Scoped(u)')
                           /\ (Bounded(u) <=> Bounded(u)')
    BY <1>1, <1>3 DEF Framed, Scoped, Bounded, Running, Submitted, Created
  <1>7. Mirrored'
    BY <1>1, <1>3, <1>5, <1>6 DEF Mirrored, Apart, Between, Created
  <1>8. Clean => Clean'
    BY <1>1, <1>3, <1>7 DEF Clean, Finished, Unguarded, Open, Stacked, Between
  <1>. QED  BY <1>7, <1>8 DEF Follows

-----------------------------------------------------------------------------
(* After the panic of a marker that was not written and whose loss nobody     *)
(* saw, while the interval it was about is not on any stack.                  *)
LEMMA PanicQuiet ==
    ASSUME LayerInv, AttributorTypes, Mirrored, UNCHANGED attributorVars,
           UNCHANGED <<stack, pending, scope>>, Grown, Owned',
           NEW t \in Threads, phase[t] \in {"entering", "running"}, Panic(t, scope[t])
    PROVE  Mirrored'
  <1>1. Polls(t)
    BY DEF Polls
  <1>2. /\ \A u \in Threads : phase'[u] = "aborted" \/ u = t \/ phase'[u] = phase[u]
        /\ ~Between(t)'
    BY <1>1, PanicBetween
  <1>3. \A u \in Threads : Scoped(u)'
    BY <1>2 DEF Mirrored, Scoped
  <1>4. \A u \in Threads : Between(u)' => phase'[u] = phase[u]
    BY <1>2 DEF Between
  <1>. QED  BY <1>3, <1>4, QuietMirrored

(* The attributor learns of an interval that is new to it. *)
LEMMA SubmitMirrored ==
    ASSUME LayerInv, AttributorTypes, Mirrored, Grown, Owned',
           NEW t \in Threads, phase[t] \in {"entering", "running"},
           NEW span \in Created', NEW request \in Nat, owner'[span] = request,
           NEW e, e.tid = t, e.span = span, e.request = request,
           e.operation = operation, OnSubmit(e),
           phase' = [phase EXCEPT ![t] = "submitted"],
           pending' = [pending EXCEPT ![t] =
              [span |-> span, request |-> request, operation |-> operation]],
           UNCHANGED <<stack, scope, task>>
    PROVE  Mirrored' /\ (Clean => Clean')
  <1>0. PICK frame : frame = [span |-> span, request |-> request, operation |-> operation]
    OBVIOUS
  <1> DEFINE life == [request |-> request, started |-> FALSE, finished |-> FALSE,
                      completed |-> FALSE, status |-> "none"]
  <1>1. /\ operations' = Put(operations, operation, life)
        /\ runtimeSpans' = IF span = 0 \/ span \in DOMAIN runtimeSpans
                           THEN runtimeSpans ELSE Put(runtimeSpans, span, request)
        /\ errors' = errors \cup UnknownRequest(e)
              \cup Refusal(operation \in DOMAIN operations, "duplicate operation")
              \cup Refusal(span # 0 /\ runtimeSpans'[span] # request,
                           "span changed identity")
        /\ UNCHANGED <<state, activeWork, bound>>
    BY DEF OnSubmit
  <1>2. operation \notin DOMAIN operations /\ span # 0
    BY DEF AttributorTypes, LayerInv, LayerTypes, Created
  <1>3. /\ DOMAIN operations' = DOMAIN operations \cup {operation}
        /\ operations'[operation] = life
        /\ \A o \in DOMAIN operations : operations'[o] = operations[o]
    <2> HIDE DEF life
    <2>. QED  BY <1>1, <1>2 DEF Put
  <1>4. /\ pending'[t] = frame /\ phase'[t] = "submitted"
        /\ \A u \in Threads \ {t} : pending'[u] = pending[u] /\ phase'[u] = phase[u]
    BY <1>0 DEF LayerInv, LayerTypes
  <1>5. \A u \in Threads : \A i \in DOMAIN stack[u] :
           stack[u][i].operation \in DOMAIN operations
    BY DEF Mirrored, Framed, Running, Submitted
  <1>6. \A u \in Threads : Between(u) => pending[u].operation \in DOMAIN operations
    BY DEF Mirrored, Bounded, Between, Submitted
  <1>7. \A u \in Threads : Framed(u)'
    BY <1>1, <1>2, <1>3, <1>5, FramedStays DEF Mirrored
  <1>8. \A u \in Threads : Scoped(u)'
    BY <1>4 DEF Mirrored, Scoped
  <1>9. \A u \in Threads \ {t} : Bounded(u)'
    <2> TAKE u \in Threads \ {t}
    <2>1. /\ Bounded(u) /\ pending'[u] = pending[u] /\ phase'[u] = phase[u]
          /\ Between(u) => pending[u].operation # operation
      BY <1>2, <1>4, <1>6 DEF Mirrored
    <2>2. Between(u)' => phase'[u] = phase[u]
      BY <2>1
    <2>. QED  BY <1>3, <2>1, <2>2, BoundedStays
  <1>10. Bounded(t)'
    <2>1. Submitted(frame)'
      BY <1>0, <1>3 DEF Submitted
    <2>. QED  BY <1>0, <1>3, <1>4, <2>1 DEF Bounded
  <1>11. \A s \in DOMAIN runtimeSpans' : s \in Created' /\ runtimeSpans'[s] = owner'[s]
    <2>1. \A s \in DOMAIN runtimeSpans : s \in Created' /\ runtimeSpans[s] = owner'[s]
      BY DEF Mirrored, Grown
    <2>2. CASE span \in DOMAIN runtimeSpans
      BY <1>1, <2>1, <2>2
    <2>3. CASE span \notin DOMAIN runtimeSpans
      BY <1>1, <1>2, <2>1, <2>3 DEF Put
    <2>. QED  BY <2>2, <2>3
  <1>12. Apart'
    <2>1. Between(t)' /\ \A u \in Threads \ {t} : Between(u)' <=> Between(u)
      BY <1>4 DEF Between
    <2>2. ~Between(t)
      BY DEF Between
    <2>3. frame.operation = operation
      BY <1>0
    <2>. QED  BY <1>2, <1>4, <1>5, <1>6, <2>1, <2>2, <2>3 DEF Mirrored, Apart
  <1>13. Mirrored'
    BY <1>1, <1>7, <1>8, <1>9, <1>10, <1>11, <1>12 DEF Mirrored, Owned, BoundToOwner
  <1>14. ASSUME Clean PROVE Clean'
    <2>1. errors' = {}
      <3>1. request \in Mapped \/ request = 0
        BY AttributionAssumption DEF Owned
      <3>2. runtimeSpans'[span] = request
        <4>1. span \in DOMAIN runtimeSpans'
          BY <1>1, <1>2 DEF Put
        <4>. QED  BY <1>11, <4>1
      <3>. QED  BY <1>1, <1>2, <1>14, <3>1, <3>2 DEF Clean, UnknownRequest, Refusal
    <2>2. Finished'
      <3>1. \A o \in DOMAIN operations : Open(o) => Open(o)'
        <4>1. \A u \in Threads : Between(u) => Between(u)' /\ u # t
          BY <1>4 DEF Between
        <4>. QED  BY <1>4, <4>1 DEF Open, Stacked
      <3>2. Open(frame.operation)' /\ frame.operation = operation
        BY <1>0, <1>4 DEF Open, Between
      <3>. QED  BY <1>3, <1>14, <3>1, <3>2 DEF Clean, Finished
    <2>3. Unguarded'
      BY <1>14 DEF Clean, Unguarded
    <2>. QED  BY <1>13, <2>1, <2>2, <2>3 DEF Clean
  <1>. QED  BY <1>13, <1>14

LEMMA SubmitFollows ==
    ASSUME LayerInv, AttributorTypes, Mirrored, Observe(emitted'), Grown, Owned',
           NEW t \in Threads, phase[t] \in {"entering", "running"},
           NEW span \in Created', NEW request \in Nat, owner'[span] = request,
           Submit(t, span, request)
    PROVE  Follows
  <1> DEFINE frame == [span |-> span, request |-> request, operation |-> operation]
  <1>1. frame \in Frame
    BY DEF Frame, Created, LayerInv, LayerTypes
  <1>2. CASE /\ Emits(SpanMarker("SUBMIT", t, frame, span))
             /\ pending' = [pending EXCEPT ![t] = frame]
             /\ phase' = [phase EXCEPT ![t] = "submitted"]
             /\ UNCHANGED <<stack, scope, task>>
    <2>1. /\ emitted'.kind = "SUBMIT" /\ emitted'.tid = t /\ emitted'.span = span
          /\ emitted'.request = frame.request /\ emitted'.operation = frame.operation
          /\ \/ errors' # {} /\ faults' # {}
             \/ ~Unusable(emitted') /\ faults' = faults
      <3> HIDE DEF frame
      <3>. QED  BY <1>1, <1>2, Sent
    <2>2. CASE errors' # {} /\ faults' # {}
      BY <2>2, DoomedByError
    <2>3. CASE ~Unusable(emitted')
      <3>1. OnSubmit(emitted')
        BY <2>1, <2>3, ByKind
      <3>2. emitted'.request = request /\ emitted'.operation = operation
        BY <2>1
      <3>3. Mirrored' /\ (Clean => Clean')
        BY <1>2, <2>1, <3>1, <3>2, SubmitMirrored
      <3>. QED  BY <3>3 DEF Follows
    <2>. QED  BY <2>1, <2>2, <2>3
  <1>3. CASE /\ EmitFails(SpanMarker("SUBMIT", t, frame, span))
             /\ Panic(t, scope[t])
             /\ UNCHANGED <<stack, scope, pending>>
    <2>1. faults' # {} /\ (errors' # {} \/ UNCHANGED attributorVars)
      <3> HIDE DEF frame
      <3>. QED  BY <1>1, <1>3, NotSent
    <2>2. CASE errors' # {}
      BY <2>1, <2>2, DoomedByError
    <2>3. CASE UNCHANGED attributorVars
      BY <1>3, <2>1, <2>3, PanicQuiet DEF Follows
    <2>. QED  BY <2>1, <2>2, <2>3
  <1>. QED  BY <1>2, <1>3 DEF Submit

LEMMA EnterNextFollows ==
    ASSUME LayerInv, AttributorTypes, Mirrored, Observe(emitted'),
           NEW t \in Threads, EnterNext(t)
    PROVE  Follows
  <1> DEFINE span == Spans(t)[Len(scope[t]) + 1]
  <1>1. phase[t] = "entering" /\ Submit(t, span, owner[span]) /\ UNCHANGED <<owner, meant>>
    BY DEF EnterNext
  <1>2. span \in Created /\ owner[span] \in Nat
    BY <1>1, EnteringFacts
  <1>3. Grown /\ Owned' /\ Created' = Created
    BY <1>1 DEF Mirrored, Grown, Owned, Created
  <1> HIDE DEF span
  <1>. QED  BY <1>1, <1>2, <1>3, SubmitFollows

LEMMA OpenScopeFollows ==
    ASSUME LayerInv, AttributorTypes, Mirrored, Observe(emitted'),
           NEW t \in Threads, NEW field \in Requests \cup {0},
           NEW parent \in 0 .. Len(owner), OpenScope(t, field, parent)
    PROVE  Follows
  <1> DEFINE request == OwnerOfNew(t, field, parent)
             span == Len(owner) + 1
  <1>1. /\ phase[t] = "running" /\ request \in Nat /\ Submit(t, span, request)
        /\ \A s \in Created : owner'[s] = owner[s] /\ meant'[s] = meant[s]
        /\ owner'[span] = request /\ meant'[span] = MeantOfNew(t, field, parent)
        /\ Created' = Created \cup {span}
    BY OpenScopeFacts
  <1>2. Current(stack[t]).request = Meant(t) /\ Meant(t) \in Requests \cup {0}
    BY <1>1, CurrentIsMeant DEF Mirrored, Scoped
  <1>3. request = MeantOfNew(t, field, parent) /\ request \in Requests \cup {0}
    <2>1. parent # 0 => parent \in Created
      BY DEF Created, LayerInv, LayerTypes
    <2>. QED  BY <1>2, <2>1 DEF OwnerOfNew, MeantOfNew, Mirrored
  <1> HIDE DEF request, span
  <1>4. Grown /\ Owned'
    BY <1>1, <1>3 DEF Grown, Owned, Mirrored
  <1>. QED  BY <1>1, <1>4, SubmitFollows

-----------------------------------------------------------------------------
(* An interval whose frame or marker is gone, unseen, is never completed.    *)
LEMMA LostIsDoomed ==
    ASSUME UNCHANGED attributorVars, NEW op \in DOMAIN operations,
           ~operations[op].completed, ~Open(op)', faults' # {} \/ ~Clean
    PROVE  Follows
  BY DEF Follows, Doomed, attributorVars

(* What a transition of a thread leaves behind. *)
LEMMA Transition ==
    ASSUME AttributorTypes, NEW t \in Threads, NEW e, e.tid = t,
           NEW refusals, EnterContext(e, refusals)
    PROVE  /\ state'[t].request = e.request /\ state'[t].operation = e.operation
           /\ \A u \in Threads \ {t} : state'[u] = state[u]
           /\ errors = {} /\ refusals = {} /\ e.request \in Requests \cup {0} => errors' = {}
  <1> DEFINE context == [request |-> e.request, operation |-> e.operation, job |-> NoJob,
                   origin |-> CASE e.kind = "WORK_ENTER" -> "worker"
                                [] e.kind = "DONE_ENTER" -> "completion"
                                [] OTHER -> "async_context"]
  <1>1. /\ state' = [state EXCEPT ![t] = context]
        /\ errors' = errors \cup refusals \cup UnknownRequest(e)
              \cup Refusal(ipcActive[t] # NoJob, "transition inside IPC job")
    BY DEF EnterContext
  <1>2. context.request = e.request /\ context.operation = e.operation
    OBVIOUS
  <1> HIDE DEF context
  <1>3. t \in Tids /\ ipcActive[t] = NoJob
    BY AttributionAssumption DEF AttributorTypes
  <1>4. state'[t] = context /\ \A u \in Threads \ {t} : state'[u] = state[u]
    BY <1>1, <1>3, AttributionAssumption DEF AttributorTypes
  <1>5. errors = {} /\ refusals = {} /\ e.request \in Requests \cup {0} => errors' = {}
    BY <1>1, <1>3, AttributionAssumption DEF UnknownRequest, Refusal
  <1>. QED  BY <1>2, <1>4, <1>5

-----------------------------------------------------------------------------
(* An interval starts on a thread. *)
LEMMA EnterWorkMirrored ==
    ASSUME LayerInv, AttributorTypes, Mirrored, NEW t \in Threads, phase[t] = "submitted",
           NEW frame, frame = pending[t], NEW e, e.tid = t,
           e.request = frame.request, e.operation = frame.operation, OnWorkEnter(e),
           stack' = [stack EXCEPT ![t] = Append(stack[t], frame)],
           scope' = [scope EXCEPT ![t] = Append(scope[t], frame.span)],
           UNCHANGED <<owner, meant, pending, task>>,
           \A u \in Threads : phase'[u] = "aborted" \/ u = t \/ phase'[u] = phase[u],
           phase'[t] \in {"entering", "running", "leaving", "aborted"}
    PROVE  /\ Mirrored'
           /\ Clean /\ (\A u \in Threads \ {t} : phase'[u] = phase[u]) => Clean'
  <1> DEFINE op == frame.operation
             life == [operations[op] EXCEPT !.started = TRUE]
  <1>1. /\ Submitted(frame) /\ op \in DOMAIN operations
        /\ ~operations[op].started /\ ~operations[op].finished
        /\ Framed(t) /\ Scoped(t) /\ Len(scope[t]) = Len(stack[t])
    BY DEF Mirrored, Bounded, Submitted, Scoped
  <1>2. /\ operations' = [operations EXCEPT ![op].started = TRUE]
        /\ activeWork' = [activeWork EXCEPT ![t] = Append(activeWork[t], op)]
        /\ UNCHANGED <<runtimeSpans, bound>>
    BY <1>1 DEF OnWorkEnter, Submitted
  <1>3. /\ DOMAIN operations' = DOMAIN operations
        /\ operations'[op] = [operations[op] EXCEPT !.started = TRUE]
        /\ \A o \in DOMAIN operations \ {op} :
              o \in DOMAIN operations' /\ operations'[o] = operations[o]
    <2> HIDE DEF op
    <2>. QED  BY <1>1, <1>2 DEF AttributorTypes
  <1>4. /\ operations'[op].request = operations[op].request /\ operations'[op].started
        /\ operations'[op].completed = operations[op].completed
        /\ operations'[op].finished = operations[op].finished
    <2>1. operations[op] \in Life
      BY <1>1 DEF AttributorTypes
    <2>. QED  BY <1>3, <2>1 DEF Life
  <1>5. /\ state'[t].request = frame.request /\ state'[t].operation = op
        /\ \A u \in Threads \ {t} : state'[u] = state[u]
        /\ errors = {} /\ frame.request \in Requests \cup {0} => errors' = {}
    <2>1. EnterContext(e, {})
      BY <1>1 DEF OnWorkEnter, Submitted, Refusal
    <2>. QED  BY <2>1, Transition
  <1>6. /\ stack[t] \in Seq(Frame) /\ scope[t] \in Seq(Nat) /\ activeWork[t] \in Seq(Nat)
        /\ frame \in Frame /\ frame.span \in Nat /\ op \in Nat
        /\ stack'[t] = Append(stack[t], frame) /\ scope'[t] = Append(scope[t], frame.span)
        /\ activeWork'[t] = Append(activeWork[t], op)
    BY <1>2, AttributionAssumption DEF LayerInv, LayerTypes, AttributorTypes, Frame
  <1>others. \A u \in Threads \ {t} : /\ stack'[u] = stack[u] /\ scope'[u] = scope[u]
                                      /\ activeWork'[u] = activeWork[u]
    BY <1>2, AttributionAssumption DEF LayerInv, LayerTypes, AttributorTypes
  <1> DEFINE n == Len(stack[t])
  <1>7. /\ n \in Nat /\ Len(stack'[t]) = n + 1 /\ DOMAIN stack'[t] = 1 .. n + 1
        /\ DOMAIN stack[t] = 1 .. n /\ stack'[t] \in Seq(Frame) /\ stack'[t] # <<>>
        /\ stack'[t][n + 1] = frame
        /\ \A i \in 1 .. n : stack'[t][i] = stack[t][i]
    <2>1. stack[t] \in Seq(Frame) /\ frame \in Frame /\ stack'[t] = Append(stack[t], frame)
      BY <1>6
    <2>. QED  BY <2>1, AppendFacts
  <1>8. /\ Len(scope'[t]) = n + 1 /\ DOMAIN scope'[t] = 1 .. n + 1
        /\ DOMAIN scope[t] = 1 .. n
        /\ scope'[t][n + 1] = frame.span
        /\ \A i \in 1 .. n : scope'[t][i] = scope[t][i]
    <2>1. scope[t] \in Seq(Nat) /\ scope'[t] = Append(scope[t], frame.span) /\ Len(scope[t]) = n
      BY <1>1, <1>6
    <2> HIDE DEF n
    <2>. QED  BY <1>6, <2>1, AppendNat
  <1>9. /\ Len(activeWork'[t]) = n + 1
        /\ activeWork'[t][n + 1] = op
        /\ \A i \in 1 .. n : activeWork'[t][i] = activeWork[t][i]
    <2>1. /\ activeWork[t] \in Seq(Nat) /\ activeWork'[t] = Append(activeWork[t], op)
          /\ Len(activeWork[t]) = n
      BY <1>1, <1>6 DEF Framed
    <2> HIDE DEF n, op
    <2>. QED  BY <1>6, <2>1, AppendNat
  <1> HIDE DEF n, op
  <1>10. Between(t) /\ ~Between(t)'
    BY DEF Between
  <1>11. /\ \A u \in Threads : \A i \in DOMAIN stack[u] : stack[u][i].operation # op
         /\ \A u \in Threads \ {t} : Between(u) => pending[u].operation # op
    BY <1>10 DEF Mirrored, Apart, op
  <1>12. Grown /\ Created' = Created
    BY DEF Grown, Created
  <1>13. \A u \in Threads \ {t} : Framed(u)' /\ Scoped(u)' /\ Bounded(u)'
    <2> TAKE u \in Threads \ {t}
    <2>0. /\ Framed(u) /\ Scoped(u) /\ Grown
          /\ stack'[u] = stack[u] /\ scope'[u] = scope[u] /\ state'[u] = state[u]
          /\ activeWork'[u] = activeWork[u]
          /\ \A i \in DOMAIN stack[u] : stack[u][i].operation # op
      BY <1>5, <1>others, <1>11, <1>12 DEF Mirrored
    <2>1. Framed(u)'
      BY <1>3, <2>0, FramedStays
    <2>2. Bounded(u)'
      BY <1>3, <1>11, <1>12, BoundedStays DEF Mirrored, Between
    <2>3. Scoped(u)'
      BY <2>0 DEF Scoped
    <2>. QED  BY <2>1, <2>2, <2>3
  <1>14. Framed(t)'
    <2>1. Running(frame)'
      BY <1>1, <1>3, <1>4, <1>12 DEF Running, Submitted, op
    <2>2. \A i \in DOMAIN stack[t] : Running(stack[t][i])
      BY <1>1 DEF Framed
    <2>3. ASSUME NEW f, f.operation # op, Running(f) PROVE Running(f)'
      <3>1. Grown /\ Submitted(f)
        BY <1>12, <2>3 DEF Running
      <3>2. Submitted(f)' /\ operations'[f.operation] = operations[f.operation]
        BY <1>3, <2>3, <3>1 DEF Submitted, Grown
      <3>. QED  BY <2>3, <3>2 DEF Running
    <2>4. \A i \in DOMAIN stack'[t] : \/ i \in 1 .. n /\ stack'[t][i] = stack[t][i]
                                      \/ i = n + 1 /\ stack'[t][i] = frame
      BY <1>7
    <2>5. \A i \in DOMAIN stack'[t] : Running(stack[t][i])'
      <3>1. ASSUME NEW i \in DOMAIN stack'[t], NEW f, f = stack'[t][i] PROVE Running(f)'
        BY <1>7, <1>11, <2>1, <2>2, <2>3, <2>4, <3>1
      <3>. QED  BY <3>1 DEF Running
    <2>6. \A i \in DOMAIN stack'[t] : activeWork'[t][i] = stack'[t][i].operation
      BY <1>1, <1>7, <1>9, <2>4 DEF Framed, op
    <2>7. Current(stack'[t]) = frame
      BY <1>7, CurrentFrame
    <2>. QED  BY <1>5, <1>7, <1>9, <2>5, <2>6, <2>7 DEF Framed, op
  <1>15. Scoped(t)'
    <2>1. \A i \in DOMAIN stack[t] : stack[t][i].span < frame.span
      BY <1>1, <1>7, <1>8 DEF Scoped, LayerInv, Structured
    <2>2. \A i, j \in DOMAIN stack'[t] : i < j => stack'[t][i].span < stack'[t][j].span
      <3> SUFFICES ASSUME NEW i \in 1 .. n + 1, NEW j \in 1 .. n + 1, i < j
                   PROVE  stack'[t][i].span < stack'[t][j].span
        BY <1>7
      <3>1. i \in 1 .. n /\ (j \in 1 .. n \/ j = n + 1)
        BY <1>7
      <3>. QED  BY <1>1, <1>7, <2>1, <3>1 DEF Scoped
    <2>3. \A i \in DOMAIN scope'[t] : stack'[t][i].span = scope'[t][i]
      <3>1. \A i \in 1 .. n + 1 : i \in 1 .. n \/ i = n + 1
        BY <1>7
      <3>2. \A i \in 1 .. n : stack[t][i].span = scope[t][i]
        BY <1>1, <1>8 DEF Scoped
      <3>. QED  BY <1>7, <1>8, <3>1, <3>2
    <2>. QED  BY <1>7, <1>8, <2>2, <2>3 DEF Scoped
  <1>16. Bounded(t)'
    BY <1>10 DEF Bounded, Between
  <1>17. Apart'
    <2>1. ASSUME NEW u \in Threads, NEW i \in DOMAIN stack'[u]
          PROVE  \/ u = t /\ i = n + 1 /\ stack'[u][i].operation = op
                 \/ i \in DOMAIN stack[u] /\ stack'[u][i] = stack[u][i]
      BY <1>others, <1>7, <2>1 DEF op
    <2>2. ASSUME NEW u \in Threads, NEW v \in Threads, NEW i \in DOMAIN stack'[u],
                 NEW j \in DOMAIN stack'[v],
                 stack'[u][i].operation = stack'[v][j].operation
          PROVE  u = v /\ i = j
      BY <1>11, <2>1, <2>2 DEF Mirrored, Apart
    <2>3. ASSUME NEW u \in Threads, NEW v \in Threads, NEW i \in DOMAIN stack'[u], Between(v)'
          PROVE  pending'[v].operation # stack'[u][i].operation
      <3>1. v # t /\ Between(v) /\ pending'[v] = pending[v]
        BY <1>10, <2>3 DEF Between
      <3>. QED  BY <1>11, <2>1, <3>1 DEF Mirrored, Apart
    <2>4. \A u \in Threads : Between(u)' => Between(u)
      BY <1>10 DEF Between
    <2>. QED  BY <2>2, <2>3, <2>4 DEF Mirrored, Apart
  <1>18. Mirrored'
    BY <1>2, <1>12, <1>13, <1>14, <1>15, <1>16, <1>17 DEF Mirrored, BoundToOwner
  <1>19. ASSUME Clean, \A u \in Threads \ {t} : phase'[u] = phase[u] PROVE Clean'
    <2>1. errors' = {}
      <3>1. frame.request \in Requests \cup {0}
        BY <1>1 DEF Submitted, Mirrored
      <3>. QED  BY <1>5, <1>19, <3>1 DEF Clean
    <2>2. \A o : Open(o) => Open(o)'
      <3> TAKE o
      <3>1. CASE Stacked(o)
        <4>0. PICK u \in Threads : \E i \in DOMAIN stack[u] : stack[u][i].operation = o
          BY <3>1 DEF Stacked
        <4>1. PICK i \in DOMAIN stack[u] : stack[u][i].operation = o
          BY <4>0
        <4>2. i \in DOMAIN stack'[u] /\ stack'[u][i] = stack[u][i]
          BY <1>others, <1>7
        <4>. QED  BY <4>1, <4>2 DEF Open, Stacked
      <3>2. CASE o = op
        <4>1. n + 1 \in DOMAIN stack'[t] /\ stack'[t][n + 1].operation = o
          BY <1>7, <3>2 DEF op
        <4>. QED  BY <4>1 DEF Open, Stacked
      <3>3. ASSUME NEW u \in Threads \ {t}, Between(u), pending[u].operation = o
            PROVE  Open(o)'
        BY <1>19, <3>3 DEF Open, Between
      <3>. QED  BY <3>1, <3>2, <3>3 DEF Open, op
    <2>3. Finished'
      <3>1. \A o \in DOMAIN operations' : ~Open(o)' => o # op
        <4>1. n + 1 \in DOMAIN stack'[t] /\ stack'[t][n + 1].operation = op
          BY <1>7 DEF op
        <4>. QED  BY <4>1 DEF Open, Stacked
      <3>. QED  BY <1>3, <1>19, <2>2, <3>1 DEF Clean, Finished
    <2>4. Unguarded'
      BY <1>others, <1>7, <1>8, <1>19 DEF Clean, Unguarded
    <2>. QED  BY <1>18, <2>1, <2>3, <2>4 DEF Clean
  <1>. QED  BY <1>18, <1>19

LEMMA EnterWorkFollows ==
    ASSUME LayerInv, AttributorTypes, Mirrored, Observe(emitted'),
           NEW t \in Threads, EnterWork(t)
    PROVE  Follows
  <1> PICK frame : frame = pending[t]
    OBVIOUS
  <1>1. /\ phase[t] = "submitted" /\ Polls(t) /\ frame \in Frame /\ Between(t)
        /\ UNCHANGED <<owner, meant, operation, pending>>
    BY DEF EnterWork, LayerInv, LayerTypes, Polls, Between
  <1>2. CASE /\ Emits(SpanMarker("WORK_ENTER", t, frame, frame.span))
             /\ stack' = [stack EXCEPT ![t] = Append(stack[t], frame)]
             /\ scope' = [scope EXCEPT ![t] = Append(scope[t], frame.span)]
             /\ IF DropsGuard(t, scope'[t]) THEN Abort
                ELSE /\ \E p \in {"entering", "leaving", "running"} :
                           phase' = [phase EXCEPT ![t] = p]
                     /\ UNCHANGED <<run, task, ending>>
    <2>1. /\ emitted'.kind = "WORK_ENTER" /\ emitted'.tid = t
          /\ emitted'.request = frame.request /\ emitted'.operation = frame.operation
          /\ \/ errors' # {} /\ faults' # {}
             \/ ~Unusable(emitted') /\ faults' = faults
      BY <1>1, <1>2, Sent
    <2>2. CASE errors' # {} /\ faults' # {}
      BY <2>2, DoomedByError
    <2>3. CASE ~Unusable(emitted')
      <3>1. OnWorkEnter(emitted')
        BY <2>1, <2>3, ByKind
      <3>2. /\ \A u \in Threads : phase'[u] = "aborted" \/ u = t \/ phase'[u] = phase[u]
            /\ phase'[t] \in {"entering", "running", "leaving", "aborted"}
            /\ UNCHANGED task
        BY <1>2 DEF Abort, LayerInv, LayerTypes
      <3>3. Clean => \A u \in Threads \ {t} : phase'[u] = phase[u]
        <4>1. run[t] \in Tasks
          BY <1>1 DEF LayerInv, Structured
        <4>. QED  BY <1>2, <4>1 DEF Clean, Unguarded, DropsGuard, LayerInv, LayerTypes
      <3>4. Mirrored' /\ (Clean => Clean')
        <4>1. /\ phase[t] = "submitted" /\ UNCHANGED <<owner, meant, pending, task>>
              /\ stack' = [stack EXCEPT ![t] = Append(stack[t], frame)]
              /\ scope' = [scope EXCEPT ![t] = Append(scope[t], frame.span)]
          BY <1>1, <1>2, <3>2
        <4>. QED  BY <2>1, <3>1, <3>2, <3>3, <4>1, EnterWorkMirrored
      <3>. QED  BY <3>4 DEF Follows
    <2>. QED  BY <2>1, <2>2, <2>3
  <1>3. CASE /\ EmitFails(SpanMarker("WORK_ENTER", t, frame, frame.span))
             /\ Panic(t, scope[t]) /\ UNCHANGED <<stack, scope>>
    <2>1. faults' # {} /\ (errors' # {} \/ UNCHANGED attributorVars)
      BY <1>1, <1>3, NotSent
    <2>2. CASE errors' # {}
      BY <2>1, <2>2, DoomedByError
    <2>3. CASE UNCHANGED attributorVars
      <3>1. ~Between(t)' /\ \A u \in Threads : Between(u)' => Between(u)
        BY <1>1, <1>3, PanicBetween
      <3>2. ~Open(frame.operation)'
        BY <1>1, <1>3, <3>1 DEF Open, Stacked, Mirrored, Apart
      <3>3. frame.operation \in DOMAIN operations /\ ~operations[frame.operation].completed
        BY <1>1 DEF Mirrored, Bounded, Submitted
      <3>. QED  BY <2>1, <2>3, <3>2, <3>3, LostIsDoomed
    <2>. QED  BY <2>1, <2>2, <2>3
  <1>. QED  BY <1>2, <1>3 DEF EnterWork

-----------------------------------------------------------------------------
(* The frame that on_exit pops is the innermost one of both sides. *)
LEMMA PoppedFrame ==
    ASSUME LayerInv, AttributorTypes, Mirrored, NEW t \in Threads, phase[t] = "leaving"
    PROVE  LET n == Len(stack[t])
           IN  /\ n \in Nat /\ n > 0 /\ n \in DOMAIN stack[t] /\ stack[t] # <<>>
               /\ DOMAIN stack[t] = 1 .. n
               /\ Current(stack[t]) = stack[t][n]
               /\ Running(stack[t][n])
               /\ Len(activeWork[t]) = n /\ activeWork[t] # <<>>
               /\ LastOf(activeWork[t]) = stack[t][n].operation
               /\ InOrder(t) <=> Len(scope[t]) = n
  <1> DEFINE n == Len(stack[t])
             m == Len(scope[t])
  <1>1. /\ scope[t] \in Seq(Nat) /\ scope[t] # <<>> /\ stack[t] \in Seq(Frame)
        /\ activeWork[t] \in Seq(Nat) /\ Framed(t) /\ Scoped(t)
    BY AttributionAssumption
       DEF LayerInv, LayerTypes, Structured, AttributorTypes, Mirrored
  <1>2. m \in Nat /\ m > 0 /\ m \in DOMAIN scope[t] /\ LastOf(scope[t]) = scope[t][m]
    BY <1>1, FrontNat
  <1>3. n \in Nat /\ n >= m /\ DOMAIN stack[t] = 1 .. n /\ m \in 1 .. n
    BY <1>1, <1>2 DEF Scoped
  <1>4. n > 0 /\ n \in DOMAIN stack[t] /\ stack[t] # <<>>
    BY <1>1, <1>2, <1>3
  <1>5. Current(stack[t]) = stack[t][n]
    BY <1>1, <1>4, CurrentFrame
  <1>6. /\ Running(stack[t][n]) /\ Len(activeWork[t]) = n
        /\ activeWork[t][n] = stack[t][n].operation
    BY <1>1, <1>4 DEF Framed
  <1>7. activeWork[t] # <<>> /\ LastOf(activeWork[t]) = activeWork[t][n]
    BY <1>1, <1>4, <1>6 DEF LastOf
  <1>8. stack[t][m].span = LastOf(scope[t])
    BY <1>1, <1>2 DEF Scoped
  <1> HIDE DEF n, m
  <1>9. m # n => stack[t][m].span < stack[t][n].span
    <2>1. m \in DOMAIN stack[t] /\ n \in DOMAIN stack[t] /\ (m # n => m < n)
      BY <1>3, <1>4
    <2>. QED  BY <1>1, <2>1 DEF Scoped
  <1>10. stack[t][m].span \in Nat /\ stack[t][n].span \in Nat
    <2>1. stack[t][m] \in Frame /\ stack[t][n] \in Frame
      BY <1>1, <1>3, <1>4
    <2>. QED  BY <2>1 DEF Frame
  <1>11. InOrder(t) <=> m = n
    BY <1>5, <1>8, <1>9, <1>10 DEF InOrder
  <1>. QED  BY <1>3, <1>4, <1>5, <1>6, <1>7, <1>11 DEF n, m

(* An interval leaves its thread. *)
LEMMA ExitLeaveMirrored ==
    ASSUME LayerInv, AttributorTypes, Mirrored, NEW t \in Threads, phase[t] = "leaving",
           InOrder(t), NEW frame, frame = Current(stack[t]),
           NEW back, back = RestoredFrame(stack[t]), NEW e, e.tid = t,
           e.request = back.request, e.operation = back.operation, OnWorkLeave(e),
           stack' = [stack EXCEPT ![t] = FrontOf(stack[t])],
           scope' = [scope EXCEPT ![t] = FrontOf(scope[t])],
           pending' = [pending EXCEPT ![t] = frame],
           phase' = [phase EXCEPT ![t] = "left"],
           UNCHANGED <<owner, meant, task>>
    PROVE  Mirrored' /\ (Clean => Clean')
  <1> DEFINE n == Len(stack[t])
             op == frame.operation
  <1>1. /\ n \in Nat /\ n > 0 /\ n \in DOMAIN stack[t] /\ stack[t] # <<>>
        /\ DOMAIN stack[t] = 1 .. n /\ frame = stack[t][n] /\ Running(frame)
        /\ Len(activeWork[t]) = n /\ activeWork[t] # <<>> /\ LastOf(activeWork[t]) = op
        /\ Len(scope[t]) = n
    BY PoppedFrame
  <1>2. op \in DOMAIN operations /\ operations[op] \in Life
    BY <1>1 DEF Running, Submitted, AttributorTypes
  <1>3. /\ operations' = [operations EXCEPT ![op].finished = TRUE]
        /\ activeWork' = [activeWork EXCEPT ![t] = FrontOf(activeWork[t])]
        /\ EnterContext(e, {})
        /\ UNCHANGED <<runtimeSpans, bound>>
    BY <1>1, <1>2 DEF OnWorkLeave, Refusal
  <1>4. /\ DOMAIN operations' = DOMAIN operations
        /\ operations'[op] = [operations[op] EXCEPT !.finished = TRUE]
        /\ \A o \in DOMAIN operations \ {op} :
              o \in DOMAIN operations' /\ operations'[o] = operations[o]
    <2> HIDE DEF op
    <2>. QED  BY <1>2, <1>3 DEF AttributorTypes
  <1>5. /\ operations'[op].request = operations[op].request
        /\ operations'[op].started = operations[op].started
        /\ operations'[op].completed = operations[op].completed
        /\ operations'[op].finished
    BY <1>2, <1>4 DEF Life
  <1>6. /\ state'[t].request = back.request /\ state'[t].operation = back.operation
        /\ \A u \in Threads \ {t} : state'[u] = state[u]
        /\ errors = {} /\ back.request \in Requests \cup {0} => errors' = {}
    BY <1>3, Transition
  <1>7. \A u \in Threads \ {t} : /\ stack'[u] = stack[u] /\ scope'[u] = scope[u]
                                 /\ activeWork'[u] = activeWork[u]
                                 /\ pending'[u] = pending[u] /\ phase'[u] = phase[u]
    BY <1>3, AttributionAssumption DEF LayerInv, LayerTypes, AttributorTypes
  <1>8. /\ stack[t] \in Seq(Frame) /\ scope[t] \in Seq(Nat) /\ activeWork[t] \in Seq(Nat)
        /\ stack'[t] = FrontOf(stack[t]) /\ scope'[t] = FrontOf(scope[t])
        /\ activeWork'[t] = FrontOf(activeWork[t])
        /\ pending'[t] = frame /\ phase'[t] = "left"
    BY <1>3, AttributionAssumption DEF LayerInv, LayerTypes, AttributorTypes
  <1>9. /\ Len(stack'[t]) = n - 1 /\ DOMAIN stack'[t] = 1 .. n - 1 /\ stack'[t] \in Seq(Frame)
        /\ \A i \in DOMAIN stack'[t] : i \in DOMAIN stack[t] /\ stack'[t][i] = stack[t][i]
    <2>1. stack[t] \in Seq(Frame) /\ stack[t] # <<>> /\ stack'[t] = FrontOf(stack[t])
      BY <1>1, <1>8
    <2>2. \A s \in Seq(Frame) : s # <<>> =>
             /\ FrontOf(s) \in Seq(Frame) /\ Len(FrontOf(s)) = Len(s) - 1
             /\ DOMAIN FrontOf(s) = 1 .. Len(s) - 1
             /\ \A i \in DOMAIN FrontOf(s) : i \in DOMAIN s /\ FrontOf(s)[i] = s[i]
      BY FrontFacts
    <2>. QED  BY <2>1, <2>2
  <1>10. /\ Len(scope'[t]) = n - 1 /\ DOMAIN scope'[t] = 1 .. n - 1
         /\ \A i \in DOMAIN scope'[t] : i \in DOMAIN scope[t] /\ scope'[t][i] = scope[t][i]
    <2>1. scope[t] \in Seq(Nat) /\ scope[t] # <<>> /\ scope'[t] = FrontOf(scope[t])
      BY <1>1, <1>8
    <2>2. scope'[t] \in Seq(Nat) /\ Len(scope'[t]) = n - 1
      BY <1>1, <2>1, FrontNat
    <2>. QED  BY <1>1, <2>1, <2>2, FrontNat
  <1>11. /\ Len(activeWork'[t]) = n - 1 /\ DOMAIN activeWork'[t] = 1 .. n - 1
         /\ \A i \in DOMAIN activeWork'[t] :
               i \in DOMAIN activeWork[t] /\ activeWork'[t][i] = activeWork[t][i]
    <2>1. /\ activeWork[t] \in Seq(Nat) /\ activeWork[t] # <<>>
          /\ activeWork'[t] = FrontOf(activeWork[t])
      BY <1>1, <1>8
    <2>2. activeWork'[t] \in Seq(Nat) /\ Len(activeWork'[t]) = n - 1
      BY <1>1, <2>1, FrontNat
    <2>. QED  BY <1>1, <2>1, <2>2, FrontNat
  <1>12. Current(stack'[t]) = back
    BY <1>1, <1>8 DEF RestoredFrame
  <1> HIDE DEF n
  <1>13. ~Between(t) /\ Between(t)' /\ \A u \in Threads \ {t} : Between(u)' <=> Between(u)
    BY <1>7, <1>8 DEF Between
  <1>14. /\ \A u \in Threads \ {t} : \A i \in DOMAIN stack[u] : stack[u][i].operation # op
         /\ \A i \in DOMAIN stack'[t] : stack'[t][i].operation # op
         /\ \A u \in Threads \ {t} : Between(u) => pending[u].operation # op
    <2>1. \A i \in DOMAIN stack'[t] : i # n /\ i \in DOMAIN stack[t] /\ stack'[t][i] = stack[t][i]
      BY <1>1, <1>9
    <2>. QED  BY <1>1, <2>1 DEF Mirrored, Apart
  <1> HIDE DEF op
  <1>15. Grown /\ Created' = Created
    BY DEF Grown, Created
  <1>16. \A u \in Threads \ {t} : Framed(u)' /\ Scoped(u)' /\ Bounded(u)'
    <2> TAKE u \in Threads \ {t}
    <2>0. /\ Framed(u) /\ Scoped(u) /\ Bounded(u) /\ Grown
          /\ stack'[u] = stack[u] /\ scope'[u] = scope[u] /\ state'[u] = state[u]
          /\ activeWork'[u] = activeWork[u] /\ pending'[u] = pending[u]
          /\ phase'[u] = phase[u]
          /\ \A i \in DOMAIN stack[u] : stack[u][i].operation # op
          /\ Between(u) => pending[u].operation # op
      BY <1>6, <1>7, <1>14, <1>15 DEF Mirrored
    <2>1. Framed(u)'
      BY <1>4, <2>0, FramedStays
    <2>2. Bounded(u)'
      BY <1>4, <2>0, BoundedStays
    <2>3. Scoped(u)'
      BY <2>0 DEF Scoped
    <2>. QED  BY <2>1, <2>2, <2>3
  <1>17. Framed(t)'
    <2>1. Framed(t)
      BY DEF Mirrored
    <2>2. ASSUME NEW f, f.operation # op, Running(f) PROVE Running(f)'
      <3>1. Submitted(f)' /\ operations'[f.operation] = operations[f.operation]
        BY <1>4, <1>15, <2>2 DEF Running, Submitted, Grown
      <3>. QED  BY <2>2, <3>1 DEF Running
    <2>3. \A i \in DOMAIN stack'[t] : Running(stack[t][i])'
      <3>1. ASSUME NEW i \in DOMAIN stack'[t], NEW f, f = stack'[t][i] PROVE Running(f)'
        BY <1>9, <1>14, <2>1, <2>2, <3>1 DEF Framed
      <3>. QED  BY <3>1 DEF Running
    <2>4. \A i \in DOMAIN stack'[t] : activeWork'[t][i] = stack'[t][i].operation
      BY <1>9, <1>11, <2>1 DEF Framed
    <2>. QED  BY <1>6, <1>9, <1>11, <1>12, <2>3, <2>4 DEF Framed
  <1>18. Scoped(t)'
    <2>1. Scoped(t)
      BY DEF Mirrored
    <2>2. \A i \in DOMAIN scope'[t] : i \in DOMAIN stack'[t] /\ stack'[t][i].span = scope'[t][i]
      BY <1>9, <1>10, <2>1 DEF Scoped
    <2>3. \A i, j \in DOMAIN stack'[t] : i < j => stack'[t][i].span < stack'[t][j].span
      BY <1>9, <2>1 DEF Scoped
    <2>. QED  BY <1>1, <1>9, <1>10, <2>2, <2>3 DEF Scoped
  <1>19. Bounded(t)'
    <2>1. Submitted(frame)' /\ operations'[frame.operation].started
      BY <1>1, <1>4, <1>5, <1>15 DEF Running, Submitted, op
    <2>. QED  BY <1>5, <1>8, <2>1 DEF Bounded, op
  <1>20. Apart'
    <2>1. ASSUME NEW u \in Threads, NEW i \in DOMAIN stack'[u]
          PROVE  /\ i \in DOMAIN stack[u] /\ stack'[u][i] = stack[u][i]
                 /\ stack'[u][i].operation # op
      BY <1>7, <1>9, <1>14, <2>1
    <2>2. ASSUME NEW u \in Threads, NEW v \in Threads, NEW i \in DOMAIN stack'[u],
                 NEW j \in DOMAIN stack'[v],
                 stack'[u][i].operation = stack'[v][j].operation
          PROVE  u = v /\ i = j
      BY <2>1, <2>2 DEF Mirrored, Apart
    <2>3. ASSUME NEW u \in Threads, NEW v \in Threads, NEW i \in DOMAIN stack'[u], Between(v)'
          PROVE  pending'[v].operation # stack'[u][i].operation
      <3>1. CASE v = t
        BY <1>8, <2>1, <3>1 DEF op
      <3>2. CASE v # t
        <4>1. Between(v) /\ pending'[v] = pending[v]
          BY <1>7, <1>13, <2>3, <3>2
        <4>. QED  BY <2>1, <4>1 DEF Mirrored, Apart
      <3>. QED  BY <3>1, <3>2
    <2>4. ASSUME NEW u \in Threads, NEW v \in Threads, Between(u)', Between(v)',
                 pending'[u].operation = pending'[v].operation
          PROVE  u = v
      <3>1. \A w \in Threads \ {t} : Between(w)' =>
               Between(w) /\ pending'[w] = pending[w] /\ pending[w].operation # op
        BY <1>7, <1>13, <1>14
      <3>2. pending'[t].operation = op
        BY <1>8 DEF op
      <3>. QED  BY <2>4, <3>1, <3>2 DEF Mirrored, Apart
    <2>. QED  BY <2>2, <2>3, <2>4 DEF Apart
  <1>21. Mirrored'
    BY <1>3, <1>15, <1>16, <1>17, <1>18, <1>19, <1>20 DEF Mirrored, BoundToOwner
  <1>22. ASSUME Clean PROVE Clean'
    <2>1. errors' = {}
      <3>1. back.request \in Requests \cup {0}
        <4>1. CASE stack'[t] = <<>>
          BY <1>12, <4>1 DEF Current, NoFrame
        <4>2. CASE stack'[t] # <<>>
          <5>1. /\ Len(stack'[t]) \in DOMAIN stack'[t] /\ back = stack'[t][Len(stack'[t])]
            BY <1>9, <1>12, <4>2, CurrentFrame
          <5>2. Submitted(back)
            BY <1>9, <5>1 DEF Mirrored, Framed, Running
          <5>. QED  BY <5>2 DEF Submitted, Mirrored
        <4>. QED  BY <4>1, <4>2
      <3>. QED  BY <1>6, <1>22, <3>1 DEF Clean
    <2>2. \A o : Open(o) => Open(o)'
      <3> TAKE o
      <3>1. Open(op)'
        BY <1>8, <1>13 DEF Open, op
      <3>2. ASSUME NEW u \in Threads, NEW i \in DOMAIN stack[u], stack[u][i].operation = o,
                   o # op
            PROVE  Open(o)'
        <4>1. i \in DOMAIN stack'[u] /\ stack'[u][i] = stack[u][i]
          <5>1. CASE u # t
            BY <1>7, <5>1
          <5>2. CASE u = t
            <6>1. i \in 1 .. n /\ i # n
              BY <1>1, <3>2, <5>2 DEF op
            <6>2. i \in 1 .. n - 1
              BY <1>1, <6>1
            <6>. QED  BY <1>9, <5>2, <6>2
          <5>. QED  BY <5>1, <5>2
        <4>. QED  BY <3>2, <4>1 DEF Open, Stacked
      <3>3. ASSUME NEW u \in Threads, Between(u), pending[u].operation = o
            PROVE  Open(o)'
        BY <1>7, <1>13, <3>3 DEF Open
      <3>. QED  BY <3>1, <3>2, <3>3 DEF Open, Stacked
    <2>3. Finished'
      <3>1. Open(op)'
        BY <1>8, <1>13 DEF Open, op
      <3>. QED  BY <1>4, <1>22, <2>2, <3>1 DEF Clean, Finished
    <2>4. Unguarded'
      BY <1>7, <1>9, <1>10, <1>22 DEF Clean, Unguarded
    <2>. QED  BY <1>21, <2>1, <2>3, <2>4 DEF Clean
  <1>. QED  BY <1>21, <1>22

LEMMA ExitLeaveFollows ==
    ASSUME LayerInv, AttributorTypes, Mirrored, Observe(emitted'),
           NEW t \in Threads, ExitLeave(t)
    PROVE  Follows
  <1>0. PICK frame : frame = Current(stack[t])
    OBVIOUS
  <1>a. PICK back : back = RestoredFrame(stack[t])
    OBVIOUS
  <1> DEFINE n == Len(stack[t])
             marker == SpanMarker("WORK_LEAVE", t, back, frame.span)
  <1>1. /\ phase[t] = "leaving" /\ Polls(t) /\ UNCHANGED <<owner, meant, operation>>
        /\ stack[t] # <<>> /\ n \in Nat /\ n > 0 /\ n \in DOMAIN stack[t]
        /\ frame = stack[t][n] /\ Running(frame)
        /\ InOrder(t) <=> Len(scope[t]) = n
    BY <1>0, PoppedFrame DEF ExitLeave, Polls
  <1>2. /\ stack' = [stack EXCEPT ![t] = FrontOf(stack[t])]
        /\ scope' = [scope EXCEPT ![t] = FrontOf(scope[t])]
        /\ \/ /\ InOrder(t) /\ Emits(marker)
              /\ pending' = [pending EXCEPT ![t] = frame]
              /\ phase' = [phase EXCEPT ![t] = "left"]
              /\ UNCHANGED <<run, task, ending>>
           \/ /\ InOrder(t) /\ EmitFails(marker)
              /\ Panic(t, FrontOf(scope[t])) /\ UNCHANGED pending
           \/ /\ ~InOrder(t) /\ emitted' = Silence(t)
              /\ Panic(t, FrontOf(scope[t])) /\ UNCHANGED <<pending, faults>>
    <2>1. stack[t] # <<>> => (IF stack[t] = <<>> THEN stack[t] ELSE FrontOf(stack[t]))
                                = FrontOf(stack[t])
      OBVIOUS
    <2>. QED  BY <1>0, <1>a, <1>1, <2>1 DEF ExitLeave
  <1>3. back \in Frame
    <2>1. stack[t] \in Seq(Frame)
      BY DEF LayerInv, LayerTypes
    <2>. QED  BY <1>1, <1>a, <2>1, FrontFacts, CurrentFrame DEF RestoredFrame
  <1>4. ASSUME Panic(t, FrontOf(scope[t])), UNCHANGED pending
        PROVE  ~Open(frame.operation)'
    <2>1. ~Between(t)' /\ \A u \in Threads : Between(u)' => Between(u)
      BY <1>1, <1>4, PanicBetween
    <2>2. ~Stacked(frame.operation)'
      <3>1. \A u \in Threads \ {t} : stack'[u] = stack[u]
        BY <1>2 DEF LayerInv, LayerTypes
      <3>2. \A i \in DOMAIN stack'[t] : i \in DOMAIN stack[t] /\ i # n /\ stack'[t][i] = stack[t][i]
        <4>1. stack[t] \in Seq(Frame) /\ stack'[t] = FrontOf(stack[t])
          BY <1>2 DEF LayerInv, LayerTypes
        <4>2. /\ DOMAIN FrontOf(stack[t]) = 1 .. n - 1
              /\ \A i \in DOMAIN FrontOf(stack[t]) :
                    i \in DOMAIN stack[t] /\ FrontOf(stack[t])[i] = stack[t][i]
          BY <1>1, <4>1, FrontFacts
        <4>3. \A i \in 1 .. n - 1 : i # n
          BY <1>1
        <4>. QED  BY <4>1, <4>2, <4>3
      <3>. HIDE DEF n
      <3>. QED  BY <1>1, <3>1, <3>2 DEF Stacked, Mirrored, Apart
    <2>3. \A u \in Threads : Between(u) => pending[u].operation # frame.operation
      BY <1>1 DEF Mirrored, Apart
    <2>. QED  BY <1>4, <2>1, <2>2, <2>3 DEF Open
  <1>5. frame.operation \in DOMAIN operations /\ ~operations[frame.operation].completed
    BY <1>1 DEF Running, Submitted
  <1>6. CASE /\ InOrder(t) /\ Emits(marker)
             /\ pending' = [pending EXCEPT ![t] = frame]
             /\ phase' = [phase EXCEPT ![t] = "left"]
             /\ UNCHANGED <<run, task, ending>>
    <2>1. /\ emitted'.kind = "WORK_LEAVE" /\ emitted'.tid = t
          /\ emitted'.request = back.request /\ emitted'.operation = back.operation
          /\ \/ errors' # {} /\ faults' # {}
             \/ ~Unusable(emitted') /\ faults' = faults
      BY <1>3, <1>6, Sent
    <2>2. CASE errors' # {} /\ faults' # {}
      BY <2>2, DoomedByError
    <2>3. CASE ~Unusable(emitted')
      <3>1. OnWorkLeave(emitted')
        BY <2>1, <2>3, ByKind
      <3>2. Mirrored' /\ (Clean => Clean')
        <4>1. /\ phase[t] = "leaving" /\ InOrder(t) /\ UNCHANGED <<owner, meant, task>>
              /\ stack' = [stack EXCEPT ![t] = FrontOf(stack[t])]
              /\ scope' = [scope EXCEPT ![t] = FrontOf(scope[t])]
              /\ pending' = [pending EXCEPT ![t] = frame]
              /\ phase' = [phase EXCEPT ![t] = "left"]
          BY <1>1, <1>2, <1>6
        <4> HIDE DEF n, marker
        <4>. QED  BY <1>0, <1>a, <2>1, <3>1, <4>1, ExitLeaveMirrored
      <3>. QED  BY <3>2 DEF Follows
    <2>. QED  BY <2>1, <2>2, <2>3
  <1>7. CASE /\ InOrder(t) /\ EmitFails(marker)
             /\ Panic(t, FrontOf(scope[t])) /\ UNCHANGED pending
    <2>1. faults' # {} /\ (errors' # {} \/ UNCHANGED attributorVars)
      BY <1>3, <1>7, NotSent
    <2>2. CASE errors' # {}
      BY <2>1, <2>2, DoomedByError
    <2>3. CASE UNCHANGED attributorVars
      BY <1>4, <1>5, <1>7, <2>1, <2>3, LostIsDoomed
    <2>. QED  BY <2>1, <2>2, <2>3
  <1>8. CASE /\ ~InOrder(t) /\ emitted' = Silence(t)
             /\ Panic(t, FrontOf(scope[t])) /\ UNCHANGED <<pending, faults>>
    <2>1. UNCHANGED attributorVars
      BY <1>8, Silent
    <2>2. ~Clean
      BY <1>1, <1>8 DEF Clean, Unguarded
    <2>. QED  BY <1>4, <1>5, <1>8, <2>1, <2>2, LostIsDoomed
  <1>. QED  BY <1>2, <1>6, <1>7, <1>8

-----------------------------------------------------------------------------
(* An interval ends. *)
LEMMA ExitCompleteMirrored ==
    ASSUME LayerInv, AttributorTypes, Mirrored, NEW t \in Threads, phase[t] = "left",
           NEW frame, frame = pending[t], NEW e,
           e.request = frame.request, e.operation = frame.operation, e.status = "ok",
           OnComplete(e), UNCHANGED <<owner, meant, stack, pending, scope>>,
           ~Between(t)', phase'[t] # "submitted",
           \A u \in Threads : phase'[u] = "aborted" \/ u = t \/ phase'[u] = phase[u]
    PROVE  /\ Mirrored'
           /\ /\ Clean /\ \A u \in Threads \ {t} : phase'[u] = phase[u]
              /\ \A k \in Tasks : ~task'[k].holds
              => Clean'
  <1> DEFINE op == frame.operation
  <1>1. /\ Submitted(frame) /\ op \in DOMAIN operations /\ operations[op] \in Life
        /\ operations[op].started /\ operations[op].finished /\ Between(t)
    BY DEF Mirrored, Bounded, Submitted, AttributorTypes, Between
  <1>2. /\ operations' = [operations EXCEPT ![op].completed = TRUE, ![op].status = "ok"]
        /\ errors' = errors \cup UnknownRequest(e)
        /\ UNCHANGED <<state, activeWork, runtimeSpans, bound>>
    <2>1. ~(\/ op \notin DOMAIN operations \/ operations[op].completed
            \/ operations[op].request # e.request)
      BY <1>1 DEF Submitted
    <2>2. errors' = errors \cup Refusal(FALSE, "invalid completion") \cup UnknownRequest(e)
      BY <2>1 DEF OnComplete
    <2>. QED  BY <2>1, <2>2 DEF OnComplete, Refusal
  <1> HIDE DEF op
  <1>3. /\ DOMAIN operations' = DOMAIN operations
        /\ operations'[op].completed /\ operations'[op].status = "ok"
        /\ operations'[op].started /\ operations'[op].finished
        /\ \A o \in DOMAIN operations \ {op} :
              o \in DOMAIN operations' /\ operations'[o] = operations[o]
    BY <1>1, <1>2 DEF AttributorTypes, Life
  <1>4. /\ \A u \in Threads : \A i \in DOMAIN stack[u] : stack[u][i].operation # op
        /\ \A u \in Threads \ {t} : Between(u) => pending[u].operation # op
    BY <1>1 DEF Mirrored, Apart, op
  <1>5. Grown /\ Created' = Created
    BY DEF Grown, Created
  <1>6. \A u \in Threads : Framed(u)'
    BY <1>2, <1>3, <1>4, <1>5, FramedStays DEF Mirrored
  <1>7. \A u \in Threads : Scoped(u)'
    BY <1>1 DEF Mirrored, Scoped, Between
  <1>8. \A u \in Threads : Bounded(u)'
    <2>1. Bounded(t)'
      BY DEF Bounded, Between
    <2>2. ASSUME NEW u \in Threads \ {t} PROVE Bounded(u)'
      BY <1>3, <1>4, <1>5, BoundedStays DEF Mirrored, Between
    <2>. QED  BY <2>1, <2>2
  <1>9. \A u \in Threads : Between(u)' => Between(u) /\ u # t
    BY DEF Between
  <1>10. Apart'
    BY <1>9 DEF Mirrored, Apart
  <1>11. Mirrored'
    BY <1>2, <1>5, <1>6, <1>7, <1>8, <1>10 DEF Mirrored, BoundToOwner
  <1>12. ASSUME Clean, \A u \in Threads \ {t} : phase'[u] = phase[u],
                \A k \in Tasks : ~task'[k].holds
         PROVE  Clean'
    <2>1. errors' = {}
      <3>1. frame.request \in Requests \cup {0}
        BY <1>1 DEF Submitted, Mirrored
      <3>. QED  BY <1>2, <1>12, <3>1, AttributionAssumption DEF Clean, UnknownRequest, Refusal
    <2>2. \A o : Open(o) => Open(o)' \/ o = op
      BY <1>12 DEF Open, Stacked, Between, op
    <2>3. Finished'
      BY <1>3, <1>12, <2>2 DEF Clean, Finished
    <2>4. Unguarded'
      BY <1>12 DEF Clean, Unguarded
    <2>. QED  BY <1>11, <2>1, <2>3, <2>4 DEF Clean
  <1>. QED  BY <1>11, <1>12

LEMMA ExitCompleteFollows ==
    ASSUME LayerInv, AttributorTypes, Mirrored, Observe(emitted'),
           NEW t \in Threads, ExitComplete(t)
    PROVE  Follows
  <1>0. PICK frame : frame = pending[t]
    OBVIOUS
  <1>1. /\ phase[t] = "left" /\ Polls(t) /\ frame \in Frame /\ Between(t)
        /\ UNCHANGED <<owner, meant, stack, operation, pending, scope>>
    BY <1>0 DEF ExitComplete, LayerInv, LayerTypes, Polls, Between
  <1>2. CASE /\ Emits(SpanMarker("COMPLETE", t, frame, frame.span))
             /\ Continue(t, scope[t], ending[t])
    <2>1. /\ emitted'.kind = "COMPLETE" /\ emitted'.tid = t /\ emitted'.status = "ok"
          /\ emitted'.request = frame.request /\ emitted'.operation = frame.operation
          /\ \/ errors' # {} /\ faults' # {}
             \/ ~Unusable(emitted') /\ faults' = faults
      BY <1>1, <1>2, Sent
    <2>2. CASE errors' # {} /\ faults' # {}
      BY <2>2, DoomedByError
    <2>3. CASE ~Unusable(emitted')
      <3>1. OnComplete(emitted')
        BY <2>1, <2>3, ByKind
      <3>2. /\ LayerTypes /\ run[t] \in Tasks /\ task[run[t]].status # "absent"
            /\ ending[t] \in Endings
        BY <1>1 DEF LayerInv, LayerTypes, Structured
      <3>3. Settles(t, scope[t], ending[t])
        BY <1>2, <3>2, ContinueSettles
      <3>4. /\ ~Between(t)' /\ phase'[t] # "submitted"
            /\ \A u \in Threads : phase'[u] = "aborted" \/ u = t \/ phase'[u] = phase[u]
        BY <3>3, SettlesBetween
      <3>5. /\ \A u \in Threads \ {t} : phase'[u] = phase[u]
            /\ \A k \in Tasks : task'[k].holds = task[k].holds
        <4>1. /\ \E p : phase' = [phase EXCEPT ![t] = p]
              /\ task' = task \/ \E s : task' = [task EXCEPT ![run[t]].status = s]
          BY <1>2 DEF Continue, ReturnToScheduler
        <4>2. \A u \in Threads \ {t} : phase'[u] = phase[u]
          BY <4>1 DEF LayerInv, LayerTypes
        <4>3. \A k \in Tasks : task'[k].holds = task[k].holds
          <5>1. CASE task' = task
            BY <5>1
          <5>2. ASSUME NEW s, task' = [task EXCEPT ![run[t]].status = s]
                PROVE  \A k \in Tasks : task'[k].holds = task[k].holds
            BY <5>2 DEF LayerInv, LayerTypes
          <5>. QED  BY <4>1, <5>1, <5>2
        <4>. QED  BY <4>2, <4>3
      <3>6. Mirrored' /\ (Clean => Clean')
        <4>1. Clean => \A k \in Tasks : ~task'[k].holds
          BY <3>5 DEF Clean, Unguarded
        <4>2. UNCHANGED <<owner, meant, stack, pending, scope>>
          BY <1>1
        <4>. QED  BY <1>0, <1>1, <2>1, <3>1, <3>4, <3>5, <4>1, <4>2, ExitCompleteMirrored
      <3>. QED  BY <3>6 DEF Follows
    <2>. QED  BY <2>1, <2>2, <2>3
  <1>3. CASE /\ EmitFails(SpanMarker("COMPLETE", t, frame, frame.span))
             /\ Panic(t, scope[t])
    <2>1. faults' # {} /\ (errors' # {} \/ UNCHANGED attributorVars)
      BY <1>1, <1>3, NotSent
    <2>2. CASE errors' # {}
      BY <2>1, <2>2, DoomedByError
    <2>3. CASE UNCHANGED attributorVars
      <3>1. ~Between(t)' /\ \A u \in Threads : Between(u)' => Between(u)
        BY <1>1, <1>3, PanicBetween
      <3>2. ~Open(frame.operation)'
        BY <1>0, <1>1, <3>1 DEF Open, Stacked, Mirrored, Apart
      <3>3. frame.operation \in DOMAIN operations /\ ~operations[frame.operation].completed
        BY <1>0, <1>1 DEF Mirrored, Bounded, Submitted
      <3>. QED  BY <2>1, <2>3, <3>2, <3>3, LostIsDoomed
    <2>. QED  BY <2>1, <2>2, <2>3
  <1>. QED  BY <1>0, <1>2, <1>3 DEF ExitComplete

-----------------------------------------------------------------------------
LEMMA NextFollows ==
    ASSUME LayerInv, AttributorTypes, Mirrored, Next
    PROVE  Follows
  <1>1. Observe(emitted') /\ \E t \in Threads : ThreadStep(t)
    BY DEF Next, LayerNext
  <1> PICK t \in Threads : ThreadStep(t)
    BY <1>1
  <1>2. ASSUME NEW k \in Tasks, Poll(t, k) PROVE Follows
    BY <1>1, <1>2, PollFollows
  <1>3. ASSUME NEW k \in Tasks, NEW field \in Requests \cup {0}, Spawn(t, k, field)
        PROVE  Follows
    BY <1>1, <1>3, SpawnFollows
  <1>4. ASSUME NEW field \in Requests \cup {0}, NEW parent \in 0 .. Len(owner),
               OpenScope(t, field, parent)
        PROVE  Follows
    BY <1>1, <1>4, OpenScopeFollows
  <1>5. ASSUME NEW fate \in {"resume", "ready", "done"}, StartLeaving(t, fate)
        PROVE  Follows
    BY <1>1, <1>5, StartLeavingFollows
  <1>. QED  BY <1>1, <1>2, <1>3, <1>4, <1>5, EnterNextFollows, EnterWorkFollows,
               ExitLeaveFollows, ExitCompleteFollows, WaitHoldingGuardFollows,
               DoEffectFollows DEF ThreadStep

(* What went wrong stays known. *)
LEMMA FaultsGrow ==
    ASSUME LayerNext, faults' = {}
    PROVE  faults = {}
  <1> PICK t \in Threads : ThreadStep(t)
    BY DEF LayerNext
  <1>1. ASSUME NEW m, Emits(m) \/ EmitFails(m) PROVE faults = {}
    BY <1>1 DEF Emits, EmitFails
  <1>. QED  BY <1>1 DEF ThreadStep, Poll, Spawn, OpenScope, StartLeaving, EnterNext,
               Submit, EnterWork, ExitLeave, ExitComplete, WaitHoldingGuard, DoEffect

LEMMA InitAttribution == Init => AttributionInv
  <1> SUFFICES ASSUME Init PROVE AttributionInv
    OBVIOUS
  <1> USE DEF Init, LayerInit, AttributorInit
  <1>1. LayerTypes
    BY DEF LayerTypes, NoFrame, Frame, Phases, Endings
  <1>2. TaskSpans /\ \A t \in Threads : Structured(t)
    BY DEF TaskSpans, Structured, Polls, Increasing
  <1>3. DOMAIN operations = {} /\ DOMAIN runtimeSpans = {} /\ DOMAIN ipcJobs = {}
    OBVIOUS
  <1>4. AttributorTypes
    <2>1. operations \in [DOMAIN operations -> Life]
      BY <1>3
    <2>2. state \in [Tids -> [request : Nat, operation : Nat, job : {NoJob},
                       origin : {"unobserved", "worker", "completion", "async_context"}]]
      BY DEF NoContext
    <2>3. /\ activeWork \in [Tids -> Seq(Nat)]
          /\ \A t \in Tids \ Threads : activeWork[t] = <<>>
      OBVIOUS
    <2>. QED  BY <1>3, <2>1, <2>2, <2>3 DEF AttributorTypes
  <1>5. Created = {} /\ \A t \in Threads : /\ stack[t] = <<>> /\ DOMAIN stack[t] = {}
                                           /\ scope[t] = <<>> /\ activeWork[t] = <<>>
                                           /\ ~Between(t)
    BY AttributionAssumption DEF Created, Between
  <1>6. \A t \in Threads : Framed(t) /\ Scoped(t) /\ Bounded(t)
    BY <1>5, AttributionAssumption
       DEF Framed, Scoped, Bounded, Between, Current, NoFrame, NoContext
  <1>7. Mirrored
    BY <1>3, <1>5, <1>6 DEF Mirrored, Apart, BoundToOwner
  <1>8. Clean
    BY <1>3, <1>5, <1>7 DEF Clean, Finished, Unguarded
  <1>. QED  BY <1>1, <1>2, <1>4, <1>7, <1>8 DEF AttributionInv, LayerInv

LEMMA NextAttribution == AttributionInv /\ [Next]_vars => AttributionInv'
  <1>1. ASSUME AttributionInv, Next PROVE AttributionInv'
    <2>1. /\ LayerInv /\ AttributorTypes /\ (Mirrored \/ Doomed)
          /\ faults = {} => Clean
          /\ LayerNext /\ Observe(emitted')
      BY <1>1 DEF AttributionInv, Next
    <2>2. LayerInv'
      BY <2>1, LayerStep
    <2>3. AttributorTypes'
      BY <2>1, LayerEvent, AttributorStep
    <2>4. Mirrored => Follows
      BY <1>1, <2>1, NextFollows
    <2>5. Doomed => Doomed'
      BY <2>1, DoomedStep
    <2>6. Mirrored' \/ Doomed'
      BY <2>1, <2>4, <2>5 DEF Follows
    <2>7. faults' = {} => Clean'
      BY <2>1, <2>4, FaultsGrow DEF Follows, Clean
    <2>. QED  BY <2>2, <2>3, <2>6, <2>7 DEF AttributionInv
  <1>2. ASSUME AttributionInv, UNCHANGED vars PROVE AttributionInv'
    <2> USE <1>2 DEF vars, layerVars, attributorVars
    <2>1. LayerInv' /\ AttributorTypes'
      BY DEF AttributionInv, LayerInv, LayerTypes, TaskSpans, Structured, Polls, Spans,
             Created, Increasing, AttributorTypes
    <2>2. \A o : Open(o)' <=> Open(o)
      BY DEF Open, Stacked, Between
    <2>3. Doomed => Doomed'
      BY <2>2 DEF Doomed
    <2>4. Mirrored => Mirrored'
      BY DEF Mirrored, Framed, Scoped, Bounded, Apart, Running, Submitted, Between,
             Created, BoundToOwner
    <2>5. Clean => Clean'
      BY <2>2, <2>4 DEF Clean, Finished, Unguarded
    <2>. QED  BY <2>1, <2>3, <2>4, <2>5 DEF AttributionInv
  <1>. QED  BY <1>1, <1>2

(* The layer and the attributor keep their invariant: the tables mirror the *)
(* stacks or the capture is refused for good, and nothing is left behind     *)
(* while nothing went wrong (lib.rs on_enter, on_exit; attribute.py).        *)
THEOREM AttributionInvariant == Spec => []AttributionInv
  BY InitAttribution, NextAttribution, PTL DEF Spec

-----------------------------------------------------------------------------
(* An accepted capture has no error and no operation left open: it is not    *)
(* doomed, so the attributor's tables mirror the layer, and with them every  *)
(* row it wrote is bound to the request the program meant.  This is for any  *)
(* set of lost, torn and unseen markers, panics, migrations and guards that  *)
(* are held across a wait (attribute.py _validate_invariants, lib.rs).       *)
THEOREM AcceptedCapturesAreRight == Spec => []AcceptedIsRight
  <1>1. AttributionInv => AcceptedIsRight
    BY DEF AttributionInv, AcceptedIsRight, Accepted, CompleteLifeCycles, Doomed, Mirrored
  <1>. QED  BY <1>1, AttributionInvariant, PTL

(* When nothing went wrong and no thread is inside a poll, no interval is    *)
(* open, and an interval that is not open has been entered, left and         *)
(* completed: nothing is left for _validate_invariants to refuse.            *)
THEOREM CleanCapturesAreAccepted == Spec => []CleanIsAccepted
  <1>1. AttributionInv => CleanIsAccepted
    <2> SUFFICES ASSUME AttributionInv, faults = {}, \A t \in Threads : phase[t] = "idle"
                 PROVE  Accepted
      BY DEF CleanIsAccepted
    <2>1. Clean /\ Mirrored /\ LayerInv /\ AttributorTypes
      BY DEF AttributionInv, Clean
    <2>2. \A t \in Threads : stack[t] = <<>> /\ activeWork[t] = <<>>
      <3> TAKE t \in Threads
      <3>1. scope[t] = <<>> /\ stack[t] \in Seq(Frame) /\ activeWork[t] \in Seq(Nat)
        BY <2>1, AttributionAssumption
           DEF LayerInv, LayerTypes, Structured, AttributorTypes
      <3>2. Len(stack[t]) = 0 /\ Len(activeWork[t]) = 0
        BY <2>1, <3>1 DEF Clean, Unguarded, Mirrored, Framed
      <3>. QED  BY <3>1, <3>2
    <2>3. \A o : ~Open(o)
      BY <2>2 DEF Open, Stacked, Between
    <2>4. CompleteLifeCycles
      BY <2>1, <2>2, <2>3 DEF CompleteLifeCycles, JobsClosed, Clean, Finished, AttributorTypes
    <2>. QED  BY <2>1, <2>4 DEF Accepted, Clean
  <1>. QED  BY <1>1, AttributionInvariant, PTL

(* As long as nothing went wrong, the attributor's context of a thread is    *)
(* the frame on top of the layer's stack, which is that of the span the code *)
(* on the thread is inside of.                                               *)
THEOREM AttributorFollowsLayer == Spec => []AttributorFollows
  <1>1. AttributionInv => AttributorFollows
    <2> SUFFICES ASSUME AttributionInv, faults = {}, NEW t \in Threads
                 PROVE  /\ state[t].request = Current(stack[t]).request
                        /\ state[t].operation = Current(stack[t]).operation
                        /\ phase[t] \in {"idle", "running"} =>
                               Current(stack[t]).request = Meant(t)
      BY DEF AttributorFollows
    <2>1. LayerInv /\ Mirrored /\ Framed(t) /\ Len(scope[t]) = Len(stack[t])
      BY DEF AttributionInv, Clean, Unguarded, Mirrored
    <2>. QED  BY <2>1, CurrentIsMeant DEF Framed
  <1>. QED  BY <1>1, AttributionInvariant, PTL
=============================================================================
