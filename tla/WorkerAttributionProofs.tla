----------------------- MODULE WorkerAttributionProofs -----------------------
(***************************************************************************)
(* The jobs of a persistent worker, for any number of slots, calls and     *)
(* threads, whatever marker is lost and whatever kills the worker.         *)
(*                                                                         *)
(* A job is in one place at a time on its way through the two processes    *)
(* (OncePlaced), which makes its answers true and its slot its own.  As    *)
(* long as no error has been found, the attributor's table of jobs mirrors *)
(* those places (Mirrored); what would break the mirror leaves an error.   *)
(***************************************************************************)
EXTENDS WorkerAttribution, FiniteSetTheorems, SequenceTheorems, TLAPS

Working == {"job", "entered", "crashing", "performed", "left", "background",
            "answering", "unanswered", "raised"}
Done == {"performed", "left", "background", "answering"}
Answers == {"ok", "error", "expected failure", "cancelled"}

DispatcherTypes ==
    /\ scenario \in Scenarios
    /\ DOMAIN calls \subseteq Jobs
    /\ calls \in [DOMAIN calls -> [slot : Slots, context : 1 .. Cardinality(Jobs),
                                   ended : {"no", "resolved", "rejected"}]]
    /\ workerWaiters \subseteq DOMAIN calls
    /\ turn.at \in {"loop", "waiter set", "marked", "written"}
    /\ turn = [at |-> turn.at, job |-> turn.job]
    /\ turn.at # "loop" => turn.job \in DOMAIN calls
    /\ stdinEnded => turn.at = "loop"

Items == [kind : {"gate", "job"}, job : Jobs]
Responses == [job : Jobs \cup {UnknownJob}, slot : Slots, answer : Answers]
Threads == [at : Working \cup {"idle", "gate"}, job : Jobs \cup {NoJob}, answer : Answers]

WorkerTypes ==
    /\ stdin \in Seq(Jobs) /\ queue \in Seq(Items) /\ stdout \in Seq(Responses)
    /\ reader.at \in {"reading", "cancelling", "cancelled", "cancellation lost",
                      "releasing", "raised"}
    /\ reader = [at |-> reader.at, job |-> reader.job]
    /\ reader.at \in {"cancelling", "cancelled"} => reader.job \in DOMAIN calls
    /\ reader.at = "cancelled" => reader.job \in cancelled
    /\ pool \in [Workers -> Threads]
    /\ \A t \in Workers :
          /\ pool[t].at \in Working => pool[t].job \in Jobs
          /\ pool[t].at \in {"job", "entered"} => pool[t].answer = "ok"
    /\ cancelled \subseteq Jobs /\ written \subseteq Jobs

-----------------------------------------------------------------------------
(* Where a job is on its way. *)
Sending(j) == turn.at \in {"waiter set", "marked"} /\ turn.job = j
Piped(j) == \E i \in DOMAIN stdin : stdin[i] = j
Queued(j) == \E i \in DOMAIN queue : queue[i] = Item("job", j)
Held(j) == \E t \in Workers : pool[t].at \in Working /\ pool[t].job = j
Answered(j) == \E i \in DOMAIN stdout : stdout[i].job = j
Underway(j) == Sending(j) \/ Piped(j) \/ Queued(j) \/ Held(j)

Single ==
    /\ \A i, k \in DOMAIN stdin : stdin[i] = stdin[k] => i = k
    /\ \A i, k \in DOMAIN queue : queue[i] = queue[k] /\ queue[i].kind = "job" => i = k
    /\ \A t, u \in Workers :
          /\ pool[t].at \in Working /\ pool[u].at \in Working
          /\ pool[t].job = pool[u].job
          => t = u

(* A job under way has no end yet: its waiter is there, or has been failed.  *)
OnItsWay(j) ==
    /\ Sending(j) => ~Piped(j) /\ ~Queued(j) /\ ~Held(j)
    /\ Piped(j) => ~Queued(j) /\ ~Held(j)
    /\ Queued(j) => ~Held(j)
    /\ Underway(j) => /\ j \in DOMAIN calls /\ j \notin cancelled /\ ~Answered(j)
                      /\ j \in workerWaiters \/ workerFailure
    /\ Sending(j) \/ Piped(j) \/ Queued(j) => j \notin written
    /\ Answered(j) \/ j \in cancelled \/ j \in written => j \in DOMAIN calls

SlotsApart == \A j, k \in Jobs :
    Underway(j) /\ Underway(k) /\ calls[j].slot = calls[k].slot => j = k

OncePlaced == Single /\ (\A j \in Jobs : OnItsWay(j)) /\ SlotsApart

(* What an answer stands for. *)
Stands(job, answer) ==
    /\ answer = "ok" => job \in written
    /\ answer = "expected failure" => FailsOnPurpose(job)
    /\ answer = "cancelled" => job \in cancelled
AnswersTrue ==
    /\ \A t \in Workers : pool[t].at \in Done => Stands(pool[t].job, pool[t].answer)
    /\ \A i \in DOMAIN stdout :
          stdout[i].job \in Jobs => Stands(stdout[i].job, stdout[i].answer)

(* How the worker can have come to its end. *)
ExitTrue ==
    /\ exit \in {"running", "0", "1", "23", "24"}
    /\ exit = "0" => /\ stdinEnded /\ stdin = <<>> /\ queue = <<>>
                     /\ reader.at = "reading" /\ \A t \in Workers : pool[t].at = "idle"
    /\ exit = "23" => \E t \in Workers : pool[t].at = "crashing"
    /\ exit = "24" => \E t \in Workers : pool[t].at \in {"raised", "unanswered"}

IpcInv == /\ DispatcherTypes /\ WorkerTypes /\ OncePlaced
          /\ AnswersTrue /\ ResolvedIsDone /\ ExitTrue

-----------------------------------------------------------------------------
AttributorTypes ==
    /\ state = [t \in Tids |-> state[t]]
    /\ DOMAIN operations = {}
    /\ activeWork = [t \in Tids |-> <<>>]
    /\ DOMAIN ipcJobs \subseteq DOMAIN calls
    /\ ipcJobs \in [DOMAIN ipcJobs ->
                       [request : Nat, started : BOOLEAN, finished : BOOLEAN]]
    /\ ipcActive \in [Tids -> Jobs \cup {NoJob}]
    /\ \A t \in Tids \ Workers : ipcActive[t] = NoJob

(* A job that has been sent and may yet be entered, or be cancelled.         *)
Expected(j) ==
    \/ turn.at = "marked" /\ turn.job = j
    \/ Piped(j) \/ Queued(j)
    \/ reader.at = "cancelled" /\ reader.job = j
    \/ \E t \in Workers : pool[t].at = "job" /\ pool[t].job = j
Fresh(j) == j \in DOMAIN ipcJobs /\ ~ipcJobs[j].started /\ ~ipcJobs[j].finished

Followed(t) ==
    /\ pool[t].at \in {"entered", "crashing", "performed"} =>
          /\ ipcActive[t] = pool[t].job /\ pool[t].job \in DOMAIN ipcJobs
          /\ state[t].request = calls[pool[t].job].context
    /\ pool[t].at \in {"left", "background", "answering", "unanswered"} =>
          pool[t].job \in DOMAIN ipcJobs /\ ipcJobs[pool[t].job].finished
    /\ pool[t].at = "background" => state[t].request = 0
    /\ pool[t].at \in {"idle", "gate", "job", "left", "background", "answering",
                       "unanswered"} =>
          ipcActive[t] = NoJob
    /\ pool[t].at = "raised" => "unseen" \in faults \/ ipcActive[t] # NoJob

Mirrored ==
    /\ \A j \in DOMAIN ipcJobs : ipcJobs[j].request = calls[j].context
    /\ turn.at # "loop" => state[Main].request = calls[turn.job].context
    /\ turn.at = "waiter set" => turn.job \notin DOMAIN ipcJobs
    /\ \A j \in Jobs : Expected(j) => Fresh(j)
    /\ \A t \in Workers : Followed(t)
    /\ BoundToOwner

(* While nothing went wrong, a job is finished or on its way. *)
Going(j) == Underway(j) \/ (reader.at = "cancelled" /\ reader.job = j)
Clean ==
    /\ Mirrored /\ errors = {}
    /\ exit \in {"running", "0"} =>
          \A j \in DOMAIN ipcJobs : ipcJobs[j].finished \/ Going(j)

AttributionInv ==
    /\ IpcInv /\ AttributorTypes
    /\ Mirrored \/ errors # {}
    /\ faults = {} => Clean

-----------------------------------------------------------------------------
(* Sequences with one element more, or one less. *)
LEMMA Appended ==
    ASSUME NEW S, NEW s \in Seq(S), NEW e \in S
    PROVE  /\ Append(s, e) \in Seq(S) /\ DOMAIN s = 1 .. Len(s) /\ Len(s) \in Nat
           /\ DOMAIN Append(s, e) = 1 .. Len(s) + 1 /\ Append(s, e)[Len(s) + 1] = e
           /\ \A i \in DOMAIN s : i \in DOMAIN Append(s, e) /\ Append(s, e)[i] = s[i]
           /\ \A i \in DOMAIN Append(s, e) : i \in DOMAIN s \/ i = Len(s) + 1
           /\ Len(s) + 1 \notin DOMAIN s
  OBVIOUS

LEMMA Behead ==
    ASSUME NEW S, NEW s \in Seq(S), s # <<>>
    PROVE  /\ Tail(s) \in Seq(S) /\ Head(s) = s[1] /\ s[1] \in S /\ 1 \in DOMAIN s
           /\ \A i \in DOMAIN Tail(s) : /\ i \in Nat \ {0} /\ i + 1 \in DOMAIN s
                                        /\ i + 1 # 1 /\ Tail(s)[i] = s[i + 1]
  OBVIOUS

LEMMA Concatenated ==
    ASSUME NEW S, NEW s \in Seq(S), NEW u \in Seq(S)
    PROVE  /\ s \o u \in Seq(S) /\ DOMAIN s = 1 .. Len(s) /\ Len(s) \in Nat
           /\ \A i \in DOMAIN s : i \in DOMAIN (s \o u) /\ (s \o u)[i] = s[i]
           /\ \A i \in DOMAIN (s \o u) \ DOMAIN s :
                 /\ i \in Nat /\ i > Len(s) /\ i - Len(s) \in DOMAIN u
                 /\ (s \o u)[i] = u[i - Len(s)]
  OBVIOUS

LEMMA OneOrTwo ==
    ASSUME NEW S, NEW a \in S, NEW b \in S
    PROVE  /\ <<a>> \in Seq(S) /\ DOMAIN <<a>> = {1} /\ <<a>>[1] = a
           /\ <<a, b>> \in Seq(S) /\ DOMAIN <<a, b>> = {1, 2}
           /\ <<a, b>>[1] = a /\ <<a, b>>[2] = b
  OBVIOUS

LEMMA Shifted ==
    ASSUME NEW i \in Int, NEW k \in Int, NEW n \in Int, k >= i, k <= n - 1
    PROVE  /\ ~(k <= i - 1) /\ k - (i - 1) \in 1 .. n - i
           /\ i + (k - (i - 1)) = k + 1
  OBVIOUS

(* What is left of a sequence when its i-th element is taken out. *)
Cut(s, i) == SubSeq(s, 1, i - 1) \o SubSeq(s, i + 1, Len(s))

LEMMA Without ==
    ASSUME NEW S, NEW s \in Seq(S), NEW i \in DOMAIN s
    PROVE  /\ Cut(s, i) \in Seq(S) /\ Len(Cut(s, i)) = Len(s) - 1
           /\ \A k \in DOMAIN Cut(s, i) :
                 \E n \in DOMAIN s : /\ n = (IF k < i THEN k ELSE k + 1)
                                    /\ k \in Nat /\ n # i /\ Cut(s, i)[k] = s[n]
           /\ \A n \in DOMAIN s \ {i} :
                 \E k \in DOMAIN Cut(s, i) : Cut(s, i)[k] = s[n]
  <1> DEFINE u == SubSeq(s, 1, i - 1)
             v == SubSeq(s, i + 1, Len(s))
  <1>1. i \in 1 .. Len(s) /\ Len(s) \in Nat /\ DOMAIN s = 1 .. Len(s)
    OBVIOUS
  <1>2. /\ u \in Seq(S) /\ Len(u) = i - 1
        /\ \A k \in 1 .. i - 1 : u[k] = s[k]
    BY <1>1
  <1>3. /\ v \in Seq(S) /\ Len(v) = Len(s) - i
        /\ \A k \in 1 .. Len(s) - i : v[k] = s[i + k]
    BY <1>1
  <1> HIDE DEF u, v
  <1> DEFINE n == Len(s)
  <1>4. /\ u \o v \in Seq(S) /\ Len(u \o v) = Len(u) + Len(v)
        /\ \A k \in 1 .. Len(u) + Len(v) :
              (u \o v)[k] = IF k <= Len(u) THEN u[k] ELSE v[k - Len(u)]
    <2>1. u \in Seq(S) /\ v \in Seq(S)
      BY <1>2, <1>3
    <2>. QED  BY <2>1, ConcatProperties
  <1>a. DOMAIN (u \o v) = 1 .. Len(u) + Len(v)
    BY <1>4, LenProperties
  <1>5. n \in Nat /\ i \in 1 .. n /\ Len(u) = i - 1 /\ Len(v) = n - i
    BY <1>1, <1>2, <1>3
  <1> HIDE DEF n
  <1>6. Len(u) + Len(v) = n - 1
    BY <1>5
  <1>7. \A k \in 1 .. n - 1 : (u \o v)[k] = s[IF k < i THEN k ELSE k + 1]
    <2> TAKE k \in 1 .. n - 1
    <2>1. CASE k < i
      <3>1. k <= Len(u) /\ k \in 1 .. i - 1
        BY <1>5, <2>1
      <3>. QED  BY <1>2, <1>4, <1>6, <2>1, <3>1
    <2>2. CASE ~(k < i)
      <3>1. /\ ~(k <= i - 1) /\ k - (i - 1) \in 1 .. n - i
            /\ i + (k - (i - 1)) = k + 1
        <4>1. i \in Int /\ n \in Int /\ k \in Int /\ k >= i /\ k <= n - 1
          BY <1>5, <2>2
        <4>. QED  BY <4>1, Shifted
      <3>2. (u \o v)[k] = s[i + (k - Len(u))]
        BY <1>3, <1>4, <1>5, <1>6, <3>1 DEF n
      <3>. QED  BY <1>5, <2>2, <3>1, <3>2
    <2>. QED  BY <2>1, <2>2
  <1>8. \A k \in 1 .. n - 1 :
           LET m == IF k < i THEN k ELSE k + 1
           IN  k \in Nat /\ m \in 1 .. n /\ m # i
    BY <1>5
  <1>9. DOMAIN s = 1 .. n /\ Len(s) = n
    BY <1>1 DEF u, v, n
  <1>10. Cut(s, i) = u \o v
    BY DEF Cut, u, v
  <1>11. \A k \in DOMAIN (u \o v) :
            \E m \in DOMAIN s : /\ m = (IF k < i THEN k ELSE k + 1)
                               /\ k \in Nat /\ m # i /\ (u \o v)[k] = s[m]
    BY <1>a, <1>6, <1>7, <1>8, <1>9
  <1>12. ASSUME NEW m \in DOMAIN s \ {i}
         PROVE  \E k \in DOMAIN (u \o v) : (u \o v)[k] = s[m]
    <2>1. CASE m < i
      <3>1. m \in 1 .. n - 1
        BY <1>5, <1>9, <2>1
      <3>. QED  BY <1>a, <1>6, <1>7, <2>1, <3>1
    <2>2. CASE ~(m < i)
      <3>1. m - 1 \in 1 .. n - 1 /\ ~(m - 1 < i) /\ (m - 1) + 1 = m
        BY <1>5, <1>9, <1>12, <2>2
      <3>. QED  BY <1>a, <1>6, <1>7, <3>1
    <2>. QED  BY <2>1, <2>2
  <1>. QED  BY <1>4, <1>6, <1>9, <1>10, <1>11, <1>12

-----------------------------------------------------------------------------
(* What the jobs other than the one a step moves may do: leave their place.  *)
Steady(j) ==
    /\ Sending(j)' => Sending(j)
    /\ Piped(j)' => Piped(j)
    /\ Queued(j)' => Queued(j)
    /\ Held(j)' => Held(j)
    /\ Answered(j)' => Answered(j)
    /\ j \in cancelled' => j \in cancelled
    /\ j \in written' => j \in written \/ (Held(j) /\ Held(j)')
SameCalls ==
    /\ DOMAIN calls' = DOMAIN calls
    /\ \A j \in DOMAIN calls : /\ calls'[j].slot = calls[j].slot
                               /\ calls'[j].context = calls[j].context
Waited(j) == j \in workerWaiters \/ workerFailure
(* ... while one may go on to its next place. *)
MovesOn(j) == OnItsWay(j)' /\ (Underway(j)' => Underway(j))

LEMMA SteadyOnItsWay ==
    ASSUME NEW j \in Jobs, OnItsWay(j), Steady(j), SameCalls,
           Underway(j)' /\ Waited(j) => Waited(j)'
    PROVE  MovesOn(j)
  BY DEF OnItsWay, Steady, SameCalls, Waited, MovesOn, Underway

LEMMA OncePlacedStep ==
    ASSUME OncePlaced, Single', SameCalls, \A j \in Jobs : MovesOn(j)
    PROVE  OncePlaced'
  <1>1. \A j \in Jobs : OnItsWay(j)' /\ (Underway(j)' => Underway(j))
    BY DEF MovesOn
  <1>2. \A j \in Jobs : Underway(j) => calls'[j].slot = calls[j].slot
    BY DEF OncePlaced, OnItsWay, SameCalls
  <1>3. SlotsApart'
    BY <1>1, <1>2 DEF OncePlaced, SlotsApart
  <1>. QED  BY <1>1, <1>3 DEF OncePlaced

(* What was answered stays so. *)
Grown == /\ UNCHANGED scenario /\ SameCalls
         /\ written \subseteq written' /\ cancelled \subseteq cancelled'

LEMMA StandsStill ==
    ASSUME Grown, NEW j \in DOMAIN calls, NEW answer, Stands(j, answer)
    PROVE  Stands(j, answer)'
  BY DEF Grown, Stands, SameCalls, FailsOnPurpose, Odd

LEMMA AnswersStay ==
    ASSUME IpcInv, Grown,
           \A t \in Workers : pool'[t].at \in Done =>
              \/ pool[t].at \in Done /\ pool'[t].job = pool[t].job
                                     /\ pool'[t].answer = pool[t].answer
              \/ Stands(pool[t].job, pool[t].answer)',
           \A i \in DOMAIN stdout' : stdout'[i].job \in Jobs =>
              \/ \E k \in DOMAIN stdout : stdout[k] = stdout'[i]
              \/ Stands(stdout[i].job, stdout[i].answer)'
    PROVE  AnswersTrue'
  <1>1. ASSUME NEW t \in Workers, pool'[t].at \in Done
        PROVE  Stands(pool[t].job, pool[t].answer)'
    <2>1. CASE pool[t].at \in Done /\ pool'[t].job = pool[t].job
                                   /\ pool'[t].answer = pool[t].answer
      <3>1. PICK j, a : j = pool[t].job /\ a = pool[t].answer
        OBVIOUS
      <3>2. Stands(j, a)
        BY <2>1, <3>1 DEF IpcInv, AnswersTrue
      <3>3. pool[t].at \in Working /\ pool[t].job \in Jobs
        BY <2>1 DEF Done, Working, IpcInv, WorkerTypes
      <3>4. j \in DOMAIN calls
        BY <3>1, <3>3 DEF IpcInv, OncePlaced, OnItsWay, Underway, Held
      <3>5. Stands(j, a)'
        BY <3>2, <3>4, StandsStill
      <3>. QED  BY <2>1, <3>1, <3>5 DEF Stands, FailsOnPurpose, Odd
    <2>. QED  BY <1>1, <2>1
  <1>2. ASSUME NEW i \in DOMAIN stdout', stdout'[i].job \in Jobs
        PROVE  Stands(stdout[i].job, stdout[i].answer)'
    <2>1. ASSUME NEW k \in DOMAIN stdout, stdout[k] = stdout'[i]
          PROVE  Stands(stdout[i].job, stdout[i].answer)'
      <3>1. PICK j, a : j = stdout[k].job /\ a = stdout[k].answer
        OBVIOUS
      <3>2. Stands(j, a) /\ j \in Jobs
        BY <1>2, <2>1, <3>1 DEF IpcInv, AnswersTrue
      <3>3. j \in DOMAIN calls
        BY <3>1, <3>2 DEF IpcInv, OncePlaced, OnItsWay, Answered
      <3>4. Stands(j, a)'
        BY <3>2, <3>3, StandsStill
      <3>. QED  BY <2>1, <3>1, <3>4 DEF Stands, FailsOnPurpose, Odd
    <2>. QED  BY <1>2, <2>1
  <1>. QED  BY <1>1, <1>2 DEF AnswersTrue

LEMMA ResolvedStays ==
    ASSUME ResolvedIsDone, Grown, cancelled' \cap written' = {},
           \A j \in DOMAIN calls : calls'[j].ended = "resolved" =>
              calls[j].ended = "resolved" \/ j \in written' \cup cancelled'
                 \/ FailsOnPurpose(j)'
    PROVE  ResolvedIsDone'
  BY DEF ResolvedIsDone, Grown, SameCalls, FailsOnPurpose, Odd

(* How the call of a job ends. *)
LEMMA EndingCalls ==
    ASSUME DispatcherTypes, NEW job \in DOMAIN calls,
           NEW ending \in {"resolved", "rejected"},
           calls' = [calls EXCEPT ![job].ended = ending]
    PROVE  /\ SameCalls /\ DOMAIN calls' \subseteq Jobs
           /\ calls' \in [DOMAIN calls' -> [slot : Slots, context : 1 .. Cardinality(Jobs),
                                   ended : {"no", "resolved", "rejected"}]]
           /\ \A j \in DOMAIN calls :
                 calls'[j].ended = IF j = job THEN ending ELSE calls[j].ended
  <1> DEFINE Calls == [slot : Slots, context : 1 .. Cardinality(Jobs),
                       ended : {"no", "resolved", "rejected"}]
  <1>1. calls \in [DOMAIN calls -> Calls] /\ calls[job] \in Calls
    BY DEF DispatcherTypes
  <1>2. [calls[job] EXCEPT !.ended = ending] \in Calls
    BY <1>1
  <1>3. /\ DOMAIN calls' = DOMAIN calls
        /\ \A j \in DOMAIN calls : calls'[j] =
              IF j = job THEN [calls[job] EXCEPT !.ended = ending] ELSE calls[j]
    OBVIOUS
  <1>4. SameCalls
    BY <1>1, <1>3 DEF SameCalls
  <1>5. calls' \in [DOMAIN calls' -> Calls]
    <2> HIDE DEF Calls
    <2>. QED  BY <1>1, <1>2
  <1>. QED  BY <1>1, <1>3, <1>4, <1>5 DEF DispatcherTypes

LEMMA FailedCalls ==
    ASSUME DispatcherTypes, Fail
    PROVE  /\ SameCalls /\ DOMAIN calls' \subseteq Jobs
           /\ calls' \in [DOMAIN calls' -> [slot : Slots, context : 1 .. Cardinality(Jobs),
                                   ended : {"no", "resolved", "rejected"}]]
           /\ \A j \in DOMAIN calls : calls'[j].ended \in {calls[j].ended, "rejected"}
           /\ workerWaiters' = {} /\ workerFailure' = TRUE
  <1> DEFINE Calls == [slot : Slots, context : 1 .. Cardinality(Jobs),
                       ended : {"no", "resolved", "rejected"}]
  <1>1. /\ DOMAIN calls' = DOMAIN calls
        /\ calls' = [j \in DOMAIN calls' |-> calls'[j]]
        /\ \A j \in DOMAIN calls :
              calls'[j] = calls[j] \/ calls'[j] = [calls[j] EXCEPT !.ended = "rejected"]
    BY DEF Fail
  <1>2. \A j \in DOMAIN calls : calls[j] \in Calls
    BY DEF DispatcherTypes
  <1>3. ASSUME NEW c \in Calls
        PROVE  /\ [c EXCEPT !.ended = "rejected"] \in Calls
               /\ [c EXCEPT !.ended = "rejected"].slot = c.slot
               /\ [c EXCEPT !.ended = "rejected"].context = c.context
               /\ [c EXCEPT !.ended = "rejected"].ended = "rejected"
    OBVIOUS
  <1> HIDE DEF Calls
  <1>4. \A j \in DOMAIN calls : /\ calls'[j] \in Calls /\ calls'[j].slot = calls[j].slot
                                /\ calls'[j].context = calls[j].context
                                /\ calls'[j].ended \in {calls[j].ended, "rejected"}
    <2> TAKE j \in DOMAIN calls
    <2>1. CASE calls'[j] = calls[j]
      BY <1>2, <2>1
    <2>2. CASE calls'[j] = [calls[j] EXCEPT !.ended = "rejected"]
      <3>1. PICK c \in Calls : c = calls[j]
        BY <1>2
      <3>. QED  BY <1>3, <2>2, <3>1
    <2>. QED  BY <1>1, <2>1, <2>2
  <1>. QED  BY <1>1, <1>4 DEF SameCalls, Fail, DispatcherTypes, Calls

-----------------------------------------------------------------------------
(* The dispatcher. *)
LEMMA CallIpc ==
    ASSUME IpcInv, NEW slot \in Slots, Call(slot)
    PROVE  IpcInv'
  <1> DEFINE job == CHOOSE j \in Jobs \ DOMAIN calls : TRUE
             context == Cardinality(DOMAIN calls) + 1
             call == [slot |-> slot, context |-> context, ended |-> "no"]
             Calls == [slot : Slots, context : 1 .. Cardinality(Jobs),
                       ended : {"no", "resolved", "rejected"}]
  <1>1. /\ turn.at = "loop" /\ ~stdinEnded /\ Jobs # DOMAIN calls /\ ~workerFailure
        /\ \A j \in workerWaiters : calls[j].slot # slot
        /\ calls' = [j \in DOMAIN calls \cup {job} |->
              IF j = job THEN call ELSE calls[j]]
        /\ workerWaiters' = workerWaiters \cup {job}
        /\ turn' = [at |-> "waiter set", job |-> job]
        /\ UNCHANGED <<scenario, workerVars, workerFailure, stdin, stdinEnded, stdout>>
    BY DEF Call, ActiveSlot
  <1>2. job \in Jobs /\ job \notin DOMAIN calls
    <2>1. \E j : j \in Jobs \ DOMAIN calls
      BY <1>1 DEF IpcInv, DispatcherTypes
    <2>. QED  BY <2>1
  <1>3. call \in Calls
    <2>1. /\ IsFiniteSet(Jobs) /\ DOMAIN calls \subseteq Jobs
      BY IpcAssumption DEF IpcInv, DispatcherTypes
    <2>2. /\ Cardinality(DOMAIN calls) \in Nat /\ Cardinality(Jobs) \in Nat
          /\ Cardinality(DOMAIN calls) <= Cardinality(Jobs)
          /\ Cardinality(DOMAIN calls) # Cardinality(Jobs)
      BY <1>1, <2>1, FS_Subset, FS_CardinalityType
    <2>. QED  BY <2>2
  <1> HIDE DEF call, job
  <1>4. /\ DOMAIN calls' = DOMAIN calls \cup {job} /\ calls'[job] = call
        /\ \A j \in DOMAIN calls : calls'[j] = calls[j]
    BY <1>1, <1>2
  <1>5. DispatcherTypes'
    <2>1. calls' \in [DOMAIN calls' -> Calls]
      BY <1>1, <1>2, <1>3, <1>4 DEF IpcInv, DispatcherTypes
    <2>. QED  BY <1>1, <1>2, <1>4, <2>1 DEF IpcInv, DispatcherTypes
  <1>6. WorkerTypes'
    BY <1>1, <1>4 DEF IpcInv, WorkerTypes, workerVars
  <1>7. \A j \in Jobs : /\ (Piped(j)' <=> Piped(j)) /\ (Queued(j)' <=> Queued(j))
                        /\ (Held(j)' <=> Held(j)) /\ (Answered(j)' <=> Answered(j))
                        /\ (Sending(j)' <=> j = job)
                        /\ ~Sending(j)
    BY <1>1 DEF Piped, Queued, Held, Answered, Sending, workerVars
  <1>8. \A j \in Jobs : OnItsWay(j)'
    <2> TAKE j \in Jobs
    <2>1. OnItsWay(j)
      BY DEF IpcInv, OncePlaced
    <2>2. (j \in cancelled' <=> j \in cancelled) /\ (j \in written' <=> j \in written)
      BY <1>1 DEF workerVars
    <2>3. CASE j = job
      <3>1. /\ ~Piped(j) /\ ~Queued(j) /\ ~Held(j) /\ ~Answered(j)
            /\ j \notin cancelled /\ j \notin written
        BY <1>2, <2>1, <2>3 DEF OnItsWay, Underway
      <3>. QED  BY <1>1, <1>4, <1>7, <2>2, <2>3, <3>1 DEF OnItsWay, Underway
    <2>4. CASE j # job
      BY <1>1, <1>4, <1>7, <2>1, <2>2, <2>4 DEF OnItsWay, Underway
    <2>. QED  BY <2>3, <2>4
  <1>9. SlotsApart'
    <2>1. \A j \in Jobs : Underway(j)' => Underway(j) \/ j = job
      BY <1>7 DEF Underway
    <2>2. \A j \in Jobs : Underway(j) =>
             j \in DOMAIN calls /\ calls'[j].slot = calls[j].slot /\ calls[j].slot # slot
      BY <1>1, <1>4 DEF IpcInv, OncePlaced, OnItsWay
    <2>3. calls'[job].slot = slot
      BY <1>4 DEF call
    <2>. QED  BY <2>1, <2>2, <2>3 DEF IpcInv, OncePlaced, SlotsApart
  <1>10. Single'
    BY <1>1 DEF IpcInv, OncePlaced, Single, workerVars
  <1>11. AnswersTrue'
    <2>1. \A j \in DOMAIN calls : FailsOnPurpose(j)' <=> FailsOnPurpose(j)
      BY <1>1, <1>4 DEF FailsOnPurpose, Odd
    <2>2. ASSUME NEW j \in DOMAIN calls, NEW answer, Stands(j, answer)
          PROVE  Stands(j, answer)'
      BY <1>1, <2>1, <2>2 DEF Stands, workerVars
    <2>3. ASSUME NEW t \in Workers, pool'[t].at \in Done
          PROVE  Stands(pool[t].job, pool[t].answer)'
      <3>1. PICK j, a : j = pool[t].job /\ a = pool[t].answer
        OBVIOUS
      <3>2. pool' = pool
        BY <1>1 DEF workerVars
      <3>3. Stands(j, a) /\ j \in Jobs /\ Held(j)
        BY <2>3, <3>1, <3>2 DEF IpcInv, AnswersTrue, WorkerTypes, Held, Done, Working
      <3>4. Stands(j, a)'
        BY <2>2, <3>3 DEF IpcInv, OncePlaced, OnItsWay, Underway
      <3>. QED  BY <3>1, <3>2, <3>4 DEF Stands, FailsOnPurpose, Odd
    <2>4. ASSUME NEW i \in DOMAIN stdout, stdout'[i].job \in Jobs
          PROVE  Stands(stdout[i].job, stdout[i].answer)'
      <3>1. PICK j, a : j = stdout[i].job /\ a = stdout[i].answer
        OBVIOUS
      <3>2. stdout' = stdout
        BY <1>1
      <3>3. Stands(j, a) /\ j \in Jobs /\ Answered(j)
        BY <2>4, <3>1, <3>2 DEF IpcInv, AnswersTrue, Answered
      <3>4. Stands(j, a)'
        BY <2>2, <3>3 DEF IpcInv, OncePlaced, OnItsWay
      <3>. QED  BY <3>1, <3>2, <3>4 DEF Stands, FailsOnPurpose, Odd
    <2>. QED  BY <1>1, <2>3, <2>4 DEF AnswersTrue
  <1>12. ResolvedIsDone'
    <2>1. calls'[job].ended # "resolved"
      BY <1>4 DEF call
    <2>. QED  BY <1>1, <1>4, <2>1 DEF IpcInv, ResolvedIsDone, FailsOnPurpose, Odd, workerVars
  <1>13. ExitTrue'
    BY <1>1 DEF IpcInv, ExitTrue, workerVars
  <1>. QED  BY <1>5, <1>6, <1>8, <1>9, <1>10, <1>11, <1>12, <1>13 DEF IpcInv, OncePlaced

(* A step of the dispatcher that only ends calls and moves its own turn on.  *)
LEMMA DispatcherIpc ==
    ASSUME IpcInv, DispatcherTypes', SameCalls,
           UNCHANGED <<scenario, workerVars, stdin, stdout>>,
           stdinEnded => stdinEnded',
           \A j \in Jobs : (Sending(j)' => Sending(j)) /\ (Waited(j) => Waited(j)'),
           \A j \in DOMAIN calls : calls'[j].ended \in {calls[j].ended, "rejected"}
    PROVE  IpcInv'
  <1>1. WorkerTypes' /\ ExitTrue' /\ Single'
    BY DEF IpcInv, WorkerTypes, ExitTrue, OncePlaced, Single, workerVars, SameCalls
  <1>2. \A j \in Jobs : MovesOn(j)
    <2> TAKE j \in Jobs
    <2>1. Steady(j)
      BY DEF Steady, Piped, Queued, Held, Answered, workerVars
    <2>. QED  BY <2>1, SteadyOnItsWay DEF IpcInv, OncePlaced
  <1>3. Grown
    BY DEF Grown, workerVars
  <1>4. AnswersTrue'
    BY <1>3, AnswersStay DEF workerVars
  <1>5. ResolvedIsDone'
    <2>1. cancelled' \cap written' = {}
      BY DEF IpcInv, ResolvedIsDone, workerVars
    <2>. QED  BY <1>3, <2>1, ResolvedStays DEF IpcInv
  <1>. QED  BY <1>1, <1>2, <1>4, <1>5, OncePlacedStep DEF IpcInv

LEMMA MarkSendIpc ==
    ASSUME IpcInv, MarkSend
    PROVE  IpcInv'
  <1>1. /\ turn.at = "waiter set"
        /\ UNCHANGED <<scenario, workerVars, workerWaiters, workerFailure, stdin,
                       stdinEnded, stdout>>
        /\ \/ turn' = [turn EXCEPT !.at = "marked"] /\ UNCHANGED calls
           \/ /\ calls' = [calls EXCEPT ![turn.job].ended = "rejected"]
              /\ turn' = [turn EXCEPT !.at = "written"]
    BY DEF MarkSend
  <1>2. turn = [at |-> turn.at, job |-> turn.job] /\ turn.job \in DOMAIN calls
    BY <1>1 DEF IpcInv, DispatcherTypes
  <1>3. /\ turn'.at \in {"marked", "written"} /\ turn'.job = turn.job
        /\ turn' = [at |-> turn'.at, job |-> turn'.job]
    BY <1>1, <1>2
  <1>4. /\ SameCalls /\ DOMAIN calls' \subseteq Jobs
        /\ calls' \in [DOMAIN calls' -> [slot : Slots, context : 1 .. Cardinality(Jobs),
                                   ended : {"no", "resolved", "rejected"}]]
        /\ \A j \in DOMAIN calls : calls'[j].ended \in {calls[j].ended, "rejected"}
    <2>1. CASE calls' = calls
      BY <2>1 DEF IpcInv, DispatcherTypes, SameCalls
    <2>2. CASE calls' = [calls EXCEPT ![turn.job].ended = "rejected"]
      <3> DEFINE ending == "rejected"
      <3>1. ending \in {"resolved", "rejected"}
        OBVIOUS
      <3>. QED  BY <1>2, <2>2, <3>1, EndingCalls DEF IpcInv
    <2>. QED  BY <1>1, <2>1, <2>2
  <1>5. DispatcherTypes'
    BY <1>1, <1>2, <1>3, <1>4 DEF IpcInv, DispatcherTypes, SameCalls
  <1>6. \A j \in Jobs : (Sending(j)' => Sending(j)) /\ (Waited(j) => Waited(j)')
    BY <1>1, <1>3 DEF Sending, Waited
  <1>. QED  BY <1>1, <1>4, <1>5, <1>6, DispatcherIpc

LEMMA WriteJobIpc ==
    ASSUME IpcInv, WriteJob
    PROVE  IpcInv'
  <1> DEFINE job == turn.job
  <1>1. /\ turn.at = "marked" /\ turn' = [turn EXCEPT !.at = "written"]
        /\ UNCHANGED <<scenario, workerVars, calls, workerWaiters, workerFailure,
                       stdinEnded, stdout>>
        /\ stdin' = IF exit = "running" THEN Append(stdin, job) ELSE stdin
    BY DEF WriteJob
  <1>2. turn = [at |-> turn.at, job |-> turn.job] /\ turn.job \in DOMAIN calls
    BY <1>1 DEF IpcInv, DispatcherTypes
  <1>3. /\ turn'.at = "written" /\ turn'.job = turn.job
        /\ turn' = [at |-> turn'.at, job |-> turn'.job]
    BY <1>1, <1>2
  <1>4. /\ SameCalls /\ DispatcherTypes' /\ job \in Jobs
    BY <1>1, <1>2, <1>3 DEF IpcInv, DispatcherTypes, SameCalls
  <1>5. CASE stdin' = stdin
    <2>1. \A j \in Jobs : (Sending(j)' => Sending(j)) /\ (Waited(j) => Waited(j)')
      BY <1>1, <1>3 DEF Sending, Waited
    <2>. QED  BY <1>1, <1>4, <1>5, <2>1, DispatcherIpc
  <1>6. CASE stdin' = Append(stdin, job) /\ exit = "running"
    <2>1. Sending(job) /\ OnItsWay(job) /\ ~Piped(job)
      BY <1>1, <1>4 DEF Sending, IpcInv, OncePlaced, OnItsWay
    <2>2. stdin \in Seq(Jobs)
      BY DEF IpcInv, WorkerTypes
    <2>3. /\ stdin' \in Seq(Jobs)
          /\ \A i \in DOMAIN stdin' : \/ i \in DOMAIN stdin /\ stdin'[i] = stdin[i]
                                      \/ i = Len(stdin) + 1 /\ stdin'[i] = job
      BY <1>4, <1>6, <2>2, Appended
    <2>4. \A j \in Jobs \ {job} : Steady(j)
      BY <1>1, <1>3, <2>3 DEF Steady, Sending, Piped, Queued, Held, Answered, workerVars
    <2>5. MovesOn(job)
      <3>1. ~Sending(job)' /\ Waited(job)' = Waited(job)
        BY <1>1, <1>3 DEF Sending, Waited
      <3>2. ~Queued(job)' /\ ~Held(job)' /\ ~Answered(job)'
        BY <1>1, <2>1 DEF OnItsWay, Underway, Queued, Held, Answered, workerVars
      <3>. QED  BY <1>1, <2>1, <3>1, <3>2 DEF MovesOn, OnItsWay, Underway, Waited, workerVars
    <2>6. \A j \in Jobs : MovesOn(j)
      <3> TAKE j \in Jobs
      <3>1. Waited(j)' = Waited(j)
        BY <1>1 DEF Waited
      <3>. QED  BY <1>4, <2>4, <2>5, <3>1, SteadyOnItsWay DEF IpcInv, OncePlaced
    <2>7. Single'
      <3>1. \A i, k \in DOMAIN stdin' : stdin'[i] = stdin'[k] => i = k
        BY <2>1, <2>3 DEF IpcInv, OncePlaced, Single, Piped
      <3>. QED  BY <1>1, <3>1 DEF IpcInv, OncePlaced, Single, workerVars
    <2>8. WorkerTypes' /\ ExitTrue'
      BY <1>1, <1>6, <2>3 DEF IpcInv, WorkerTypes, ExitTrue, workerVars
    <2>9. Grown
      BY <1>1, <1>4 DEF Grown, workerVars
    <2>10. AnswersTrue'
      BY <1>1, <2>9, AnswersStay DEF workerVars
    <2>11. ResolvedIsDone'
      <3>1. cancelled' \cap written' = {}
        BY <1>1 DEF IpcInv, ResolvedIsDone, workerVars
      <3>. QED  BY <1>1, <2>9, <3>1, ResolvedStays DEF IpcInv
    <2>. QED  BY <1>4, <2>6, <2>7, <2>8, <2>10, <2>11, OncePlacedStep DEF IpcInv
  <1>. QED  BY <1>1, <1>5, <1>6

LEMMA EndTurnIpc ==
    ASSUME IpcInv, EndTurn \/ ClientLeaves
    PROVE  IpcInv'
  <1>1. /\ UNCHANGED <<scenario, workerVars, calls, workerWaiters, workerFailure,
                       stdin, stdout>>
        /\ turn'.at = "loop" /\ turn' = [at |-> turn'.at, job |-> turn'.job]
        /\ stdinEnded => stdinEnded'
    <2>1. turn = [at |-> turn.at, job |-> turn.job]
      BY DEF IpcInv, DispatcherTypes
    <2>. QED  BY <2>1 DEF EndTurn, ClientLeaves
  <1>2. DispatcherTypes' /\ SameCalls
    BY <1>1 DEF IpcInv, DispatcherTypes, SameCalls
  <1>3. \A j \in Jobs : (Sending(j)' => Sending(j)) /\ (Waited(j) => Waited(j)')
    BY <1>1 DEF Sending, Waited
  <1>4. \A j \in DOMAIN calls : calls'[j].ended \in {calls[j].ended, "rejected"}
    BY <1>1
  <1>. QED  BY <1>1, <1>2, <1>3, <1>4, DispatcherIpc

LEMMA OnFailureIpc ==
    ASSUME IpcInv, OnStdinError \/ OnClose
    PROVE  IpcInv'
  <1>1. /\ UNCHANGED <<scenario, workerVars, turn, stdin, stdinEnded, stdout>> /\ Fail
    BY DEF OnStdinError, OnClose
  <1>2. /\ SameCalls /\ DOMAIN calls' \subseteq Jobs
        /\ calls' \in [DOMAIN calls' -> [slot : Slots, context : 1 .. Cardinality(Jobs),
                                ended : {"no", "resolved", "rejected"}]]
        /\ \A j \in DOMAIN calls : calls'[j].ended \in {calls[j].ended, "rejected"}
        /\ workerWaiters' = {} /\ workerFailure' = TRUE
    BY <1>1, FailedCalls DEF IpcInv
  <1>3. DispatcherTypes'
    BY <1>1, <1>2 DEF IpcInv, DispatcherTypes, SameCalls
  <1>4. \A j \in Jobs : (Sending(j)' => Sending(j)) /\ (Waited(j) => Waited(j)')
    BY <1>1, <1>2 DEF Sending, Waited
  <1>. QED  BY <1>1, <1>2, <1>3, <1>4, DispatcherIpc

LEMMA OnResponseIpc ==
    ASSUME IpcInv, OnResponse
    PROVE  IpcInv'
  <1> DEFINE response == Head(stdout)
             job == response.job
             outcome == Outcome(job, response.answer)
  <1>1. /\ turn.at = "loop" /\ stdout # <<>> /\ stdout' = Tail(stdout)
        /\ UNCHANGED <<scenario, workerVars, turn, stdin, stdinEnded>>
    BY DEF OnResponse
  <1>2. /\ stdout' \in Seq(Responses) /\ 1 \in DOMAIN stdout /\ response = stdout[1]
        /\ response \in Responses
        /\ \A i \in DOMAIN stdout' : i + 1 \in DOMAIN stdout /\ stdout'[i] = stdout[i + 1]
    <2>1. stdout \in Seq(Responses)
      BY DEF IpcInv, WorkerTypes
    <2>. QED  BY <1>1, <2>1, Behead
  <1>3. \/ /\ job \in workerWaiters /\ workerWaiters' = workerWaiters \ {job}
           /\ calls' = [calls EXCEPT ![job].ended = outcome]
           /\ workerFailure' = workerFailure
        \/ Fail
    BY DEF OnResponse
  <1>4. /\ SameCalls /\ DOMAIN calls' \subseteq Jobs
        /\ calls' \in [DOMAIN calls' -> [slot : Slots, context : 1 .. Cardinality(Jobs),
                                ended : {"no", "resolved", "rejected"}]]
        /\ \A j \in DOMAIN calls :
              \/ calls'[j].ended \in {calls[j].ended, "rejected"}
              \/ j = job /\ outcome = "resolved"
        /\ workerWaiters' \subseteq DOMAIN calls
        /\ \A j \in Jobs \ {job} : Waited(j) => Waited(j)'
    <2>1. CASE Fail
      BY <2>1, FailedCalls DEF IpcInv, Waited
    <2>2. CASE /\ job \in workerWaiters /\ workerWaiters' = workerWaiters \ {job}
               /\ calls' = [calls EXCEPT ![job].ended = outcome]
               /\ workerFailure' = workerFailure
      <3>1. job \in DOMAIN calls /\ outcome \in {"resolved", "rejected"}
        BY <2>2 DEF IpcInv, DispatcherTypes, Outcome
      <3> HIDE DEF job, outcome
      <3>2. /\ SameCalls /\ DOMAIN calls' \subseteq Jobs
            /\ calls' \in [DOMAIN calls' -> [slot : Slots, context : 1 .. Cardinality(Jobs),
                                ended : {"no", "resolved", "rejected"}]]
            /\ \A j \in DOMAIN calls :
                  calls'[j].ended = IF j = job THEN outcome ELSE calls[j].ended
        BY <2>2, <3>1, EndingCalls DEF IpcInv
      <3>. QED  BY <2>2, <3>1, <3>2 DEF IpcInv, DispatcherTypes, Waited
    <2>. QED  BY <1>3, <2>1, <2>2
  <1>5. DispatcherTypes'
    BY <1>1, <1>4 DEF IpcInv, DispatcherTypes, SameCalls
  <1>6. WorkerTypes' /\ ExitTrue' /\ Single'
    BY <1>1, <1>2, <1>4
       DEF IpcInv, WorkerTypes, ExitTrue, OncePlaced, Single, workerVars, SameCalls
  <1>7. \A j \in Jobs : MovesOn(j)
    <2> TAKE j \in Jobs
    <2>1. Steady(j) /\ (Underway(j)' => Underway(j))
      BY <1>1, <1>2 DEF Steady, Sending, Piped, Queued, Held, Answered, Underway, workerVars
    <2>2. Underway(j) => j # job
      BY <1>2 DEF IpcInv, OncePlaced, OnItsWay, Answered
    <2>. QED  BY <1>4, <2>1, <2>2, SteadyOnItsWay DEF IpcInv, OncePlaced
  <1>8. Grown
    BY <1>1, <1>4 DEF Grown, workerVars
  <1>9. AnswersTrue'
    <2>1. \A i \in DOMAIN stdout' : \E k \in DOMAIN stdout : stdout[k] = stdout'[i]
      BY <1>2
    <2>. QED  BY <1>1, <1>8, <2>1, AnswersStay DEF workerVars
  <1>10. ResolvedIsDone'
    <2>1. cancelled' \cap written' = {}
      BY <1>1 DEF IpcInv, ResolvedIsDone, workerVars
    <2>2. ASSUME job \in DOMAIN calls, outcome = "resolved"
          PROVE  job \in written' \cup cancelled' \/ FailsOnPurpose(job)
      <3>1. response \in Responses /\ Stands(job, response.answer)
        <4>1. job \in Jobs
          BY <2>2 DEF IpcInv, DispatcherTypes
        <4>. QED  BY <1>2, <4>1 DEF IpcInv, AnswersTrue
      <3>2. response.answer \in {"ok", "expected failure", "cancelled"}
        BY <2>2, <3>1 DEF Outcome, Responses, Answers
      <3>. QED  BY <1>1, <3>1, <3>2 DEF Stands, workerVars
    <2>3. PICK k : k = job
      OBVIOUS
    <2>4. k \in DOMAIN calls /\ outcome = "resolved" =>
             k \in written' \cup cancelled' \/ FailsOnPurpose(k)'
      BY <1>1, <1>4, <2>2, <2>3 DEF FailsOnPurpose, Odd, SameCalls
    <2>5. \A j \in DOMAIN calls : calls'[j].ended = "resolved" =>
             calls[j].ended = "resolved" \/ (j = k /\ outcome = "resolved")
      BY <1>4, <2>3
    <2> HIDE DEF outcome, job
    <2>. QED  BY <1>8, <2>1, <2>4, <2>5, ResolvedStays DEF IpcInv
  <1>. QED  BY <1>5, <1>6, <1>7, <1>9, <1>10, <1>4, OncePlacedStep DEF IpcInv

-----------------------------------------------------------------------------
(* The worker: its steps leave the dispatcher alone. *)
LEMMA WorkerIpcStep ==
    ASSUME IpcInv, InWorker, WorkerTypes', ExitTrue', Single',
           written \subseteq written', cancelled \subseteq cancelled',
           cancelled' \cap written' = {}, \A j \in Jobs : MovesOn(j),
           \A t \in Workers : pool'[t].at \in Done =>
              \/ pool[t].at \in Done /\ pool'[t].job = pool[t].job
                                     /\ pool'[t].answer = pool[t].answer
              \/ Stands(pool[t].job, pool[t].answer)',
           \A i \in DOMAIN stdout' : stdout'[i].job \in Jobs =>
              \/ \E k \in DOMAIN stdout : stdout[k] = stdout'[i]
              \/ Stands(stdout[i].job, stdout[i].answer)'
    PROVE  IpcInv'
  <1>1. UNCHANGED <<scenario, calls, workerWaiters, workerFailure, turn, stdinEnded>>
    BY DEF InWorker, dispatcherVars
  <1>2. SameCalls /\ DispatcherTypes'
    BY <1>1 DEF IpcInv, DispatcherTypes, SameCalls
  <1>3. Grown
    BY <1>1, <1>2 DEF Grown
  <1>4. AnswersTrue'
    BY <1>3, AnswersStay
  <1>5. ResolvedIsDone'
    BY <1>1, <1>3, ResolvedStays DEF IpcInv
  <1>. QED  BY <1>2, <1>4, <1>5, OncePlacedStep DEF IpcInv

LEMMA SteadyInWorker ==
    ASSUME IpcInv, InWorker, NEW j \in Jobs, Steady(j)
    PROVE  MovesOn(j)
  <1>1. Waited(j)' = Waited(j) /\ SameCalls
    BY DEF InWorker, dispatcherVars, Waited, SameCalls
  <1>. QED  BY <1>1, SteadyOnItsWay DEF IpcInv, OncePlaced

(* ... and where no job enters the queue, a thread or the answers. *)
LEMMA QuietInWorker ==
    ASSUME IpcInv, InWorker, UNCHANGED <<stdin, stdout, queue, cancelled, written>>,
           WorkerTypes', ExitTrue',
           \A t \in Workers :
              \/ pool'[t].at \notin Working
              \/ pool'[t].at = pool[t].at /\ pool'[t].job = pool[t].job
                                          /\ pool'[t].answer = pool[t].answer
    PROVE  IpcInv'
  <1>1. \A t \in Workers : pool'[t].at \in Working =>
           /\ pool'[t].at = pool[t].at /\ pool'[t].job = pool[t].job
           /\ pool'[t].answer = pool[t].answer
    OBVIOUS
  <1>2. Single'
    BY <1>1 DEF IpcInv, OncePlaced, Single
  <1>3. \A j \in Jobs : MovesOn(j)
    <2> TAKE j \in Jobs
    <2>1. Steady(j)
      BY <1>1 DEF Steady, Sending, Piped, Queued, Held, Answered, InWorker, dispatcherVars
    <2>. QED  BY <2>1, SteadyInWorker
  <1>4. \A t \in Workers : pool'[t].at \in Done =>
           pool[t].at \in Done /\ pool'[t].job = pool[t].job /\ pool'[t].answer = pool[t].answer
    BY <1>1 DEF Done, Working
  <1>5. cancelled' \cap written' = {}
    BY DEF IpcInv, ResolvedIsDone
  <1>. QED  BY <1>2, <1>3, <1>4, <1>5, WorkerIpcStep

LEMMA ReadMessageIpc ==
    ASSUME IpcInv, ReadMessage
    PROVE  IpcInv'
  <1> DEFINE job == Head(stdin)
             sent == Submissions(job)
  <1>1. /\ InWorker /\ reader.at = "reading" /\ stdin # <<>>
        /\ stdin' = Tail(stdin) /\ queue' = queue \o sent
        /\ reader' = IF scenario # "worker-cancel" THEN reader
                     ELSE [at |-> IF Odd(job) THEN "cancelling" ELSE "releasing",
                           job |-> job]
        /\ UNCHANGED <<stdout, pool, cancelled, written, exit>>
    BY DEF ReadMessage
  <1>2. UNCHANGED <<calls, turn, stdinEnded, workerWaiters, workerFailure>> /\ exit = "running"
    BY <1>1 DEF InWorker, dispatcherVars
  <1>3. stdin \in Seq(Jobs) /\ queue \in Seq(Items)
    BY DEF IpcInv, WorkerTypes
  <1>4. /\ stdin' \in Seq(Jobs) /\ 1 \in DOMAIN stdin /\ job = stdin[1] /\ job \in Jobs
        /\ \A i \in DOMAIN stdin' : /\ i \in Nat \ {0} /\ i + 1 \in DOMAIN stdin
                                    /\ i + 1 # 1 /\ stdin'[i] = stdin[i + 1]
    BY <1>1, <1>3, Behead
  <1>m. PICK m \in Jobs : m = job
    BY <1>4
  <1>5. Piped(m) /\ OnItsWay(m)
    BY <1>4, <1>m DEF Piped, IpcInv, OncePlaced
  <1>a. stdin[1] = m /\ sent = Submissions(m)
    BY <1>4, <1>m
  <1> HIDE DEF sent
  <1>6. /\ sent \in Seq(Items)
        /\ \A i, k \in DOMAIN sent : /\ sent[i].kind = "job" => sent[i] = Item("job", m)
                                     /\ sent[i] = sent[k] => i = k
    <2>1. CASE scenario = "worker-cancel"
      <3>1. sent = <<Item("gate", m), Item("job", m)>>
        BY <1>a, <2>1 DEF Submissions
      <3>2. /\ Item("gate", m) \in Items /\ Item("gate", m).kind = "gate"
            /\ Item("job", m) \in Items /\ Item("job", m).kind = "job"
        BY <1>m DEF Item, Items
      <3>3. /\ sent \in Seq(Items) /\ DOMAIN sent = {1, 2}
            /\ sent[1] = Item("gate", m) /\ sent[2] = Item("job", m)
        BY <3>1, <3>2, OneOrTwo
      <3>. QED  BY <3>2, <3>3
    <2>2. CASE scenario # "worker-cancel"
      <3>1. sent = <<Item("job", m)>>
        BY <1>a, <2>2 DEF Submissions
      <3>2. /\ Item("gate", m) \in Items /\ Item("gate", m).kind = "gate"
            /\ Item("job", m) \in Items /\ Item("job", m).kind = "job"
        BY <1>m DEF Item, Items
      <3>3. sent \in Seq(Items) /\ DOMAIN sent = {1} /\ sent[1] = Item("job", m)
        BY <3>1, <3>2, OneOrTwo
      <3>. QED  BY <3>3
    <2>. QED  BY <2>1, <2>2
  <1>7. /\ queue' \in Seq(Items) /\ Len(queue) \in Nat
        /\ \A i \in DOMAIN queue : queue'[i] = queue[i]
        /\ \A i \in DOMAIN queue' \ DOMAIN queue :
              /\ i \in Nat /\ i - Len(queue) \in DOMAIN sent
              /\ queue'[i] = sent[i - Len(queue)]
    BY <1>1, <1>3, <1>6, Concatenated
  <1>8. \A j \in Jobs \ {m} : MovesOn(j)
    <2> TAKE j \in Jobs \ {m}
    <2>1. Item("job", j).kind = "job" /\ Item("job", j) # Item("job", m)
      BY DEF Item
    <2>2. Queued(j)' => Queued(j)
      BY <1>6, <1>7, <2>1 DEF Queued
    <2>3. Steady(j)
      BY <1>1, <1>2, <1>4, <2>2 DEF Steady, Sending, Piped, Held, Answered
    <2>. QED  BY <1>1, <2>3, SteadyInWorker
  <1>9. MovesOn(m)
    <2>1. ~Piped(m)'
      <3>1. \A i \in DOMAIN stdin' : stdin'[i] # m
        BY <1>4, <1>a DEF IpcInv, OncePlaced, Single
      <3>. QED  BY <3>1 DEF Piped
    <2>2. ~Sending(m)' /\ ~Held(m)' /\ ~Answered(m)'
      BY <1>1, <1>2, <1>5 DEF OnItsWay, Underway, Sending, Held, Answered
    <2>. QED  BY <1>1, <1>2, <1>5, <2>1, <2>2 DEF MovesOn, OnItsWay, Underway
  <1>10. Single'
    <2>1. \A i, k \in DOMAIN stdin' : stdin'[i] = stdin'[k] => i = k
      BY <1>4 DEF IpcInv, OncePlaced, Single
    <2>2. \A i, k \in DOMAIN queue' :
             queue'[i] = queue'[k] /\ queue'[i].kind = "job" => i = k
      <3> SUFFICES ASSUME NEW i \in DOMAIN queue', NEW k \in DOMAIN queue',
                          queue'[i] = queue'[k], queue'[i].kind = "job"
                   PROVE  i = k
        OBVIOUS
      <3>1. ~Queued(m)
        BY <1>5 DEF OnItsWay
      <3>2. \A n \in DOMAIN queue : queue[n] # Item("job", m)
        BY <3>1 DEF Queued
      <3>3. CASE i \in DOMAIN queue /\ k \in DOMAIN queue
        BY <1>7, <3>3 DEF IpcInv, OncePlaced, Single
      <3>4. CASE i \notin DOMAIN queue /\ k \notin DOMAIN queue
        <4>1. i - Len(queue) = k - Len(queue)
          BY <1>6, <1>7, <3>4
        <4>. QED  BY <1>7, <3>4, <4>1
      <3>5. CASE i \in DOMAIN queue /\ k \notin DOMAIN queue
        BY <1>6, <1>7, <3>2, <3>5
      <3>6. CASE i \notin DOMAIN queue /\ k \in DOMAIN queue
        BY <1>6, <1>7, <3>2, <3>6
      <3>. QED  BY <3>3, <3>4, <3>5, <3>6
    <2>. QED  BY <1>1, <2>1, <2>2 DEF IpcInv, OncePlaced, Single
  <1>11. WorkerTypes' /\ ExitTrue'
    <2>1. m \in DOMAIN calls
      BY <1>5 DEF OnItsWay, Underway
    <2>2. /\ reader'.at \in {"reading", "cancelling", "releasing"}
          /\ reader' = [at |-> reader'.at, job |-> reader'.job]
          /\ reader'.at = "cancelling" => reader'.job = m
      BY <1>1, <1>m DEF IpcInv, WorkerTypes
    <2>. QED  BY <1>1, <1>2, <1>4, <1>7, <2>1, <2>2 DEF IpcInv, WorkerTypes, ExitTrue
  <1>12. cancelled' \cap written' = {}
    BY <1>1 DEF IpcInv, ResolvedIsDone
  <1>. QED  BY <1>1, <1>8, <1>9, <1>10, <1>11, <1>12, WorkerIpcStep

LEMMA CancelQueuedIpc ==
    ASSUME IpcInv, CancelQueued
    PROVE  IpcInv'
  <1> DEFINE job == reader.job
  <1>1. /\ InWorker /\ reader.at = "cancelling"
        /\ UNCHANGED <<stdin, stdout, gates, pool, written, exit>>
    BY DEF CancelQueued
  <1>2. /\ UNCHANGED <<calls, turn, stdinEnded, workerWaiters, workerFailure>>
        /\ exit = "running" /\ job \in DOMAIN calls /\ job \in Jobs
        /\ reader = [at |-> reader.at, job |-> job] /\ queue \in Seq(Items)
    BY <1>1 DEF InWorker, dispatcherVars, IpcInv, DispatcherTypes, WorkerTypes
  <1>3. ASSUME NEW i \in DOMAIN queue, queue[i] = Item("job", job),
               queue' = SubSeq(queue, 1, i - 1) \o SubSeq(queue, i + 1, Len(queue)),
               cancelled' = cancelled \cup {job},
               reader' = [reader EXCEPT !.at = "cancelled"]
        PROVE  IpcInv'
    <2>m. PICK m \in Jobs : m = job
      BY <1>2
    <2>a. queue[i] = Item("job", m) /\ m \in DOMAIN calls /\ cancelled' = cancelled \cup {m}
      BY <1>2, <1>3, <2>m
    <2> HIDE DEF job
    <2>1. i \in Nat
      BY <1>2
    <2>2. /\ queue' \in Seq(Items)
          /\ \A k \in DOMAIN queue' :
                \E n \in DOMAIN queue : /\ n = (IF k < i THEN k ELSE k + 1)
                                        /\ k \in Nat /\ n # i /\ queue'[k] = queue[n]
      <3>1. queue \in Seq(Items)
        BY <1>2
      <3>2. queue' = Cut(queue, i)
        BY <1>3 DEF Cut
      <3>. QED  BY <3>1, <3>2, Without
    <2>3. /\ Queued(m) /\ OnItsWay(m)
      BY <2>a DEF Queued, IpcInv, OncePlaced
    <2>4. ~Queued(m)'
      <3>1. Item("job", m).kind = "job"
        BY DEF Item
      <3>2. \A n \in DOMAIN queue : n # i => queue[n] # Item("job", m)
        BY <2>a, <3>1 DEF IpcInv, OncePlaced, Single
      <3>. QED  BY <2>2, <3>2 DEF Queued
    <2>5. \A j \in Jobs \ {m} : MovesOn(j)
      <3> TAKE j \in Jobs \ {m}
      <3>1. Queued(j)' => Queued(j)
        BY <2>2 DEF Queued
      <3>2. Steady(j)
        BY <1>1, <1>2, <2>a, <3>1 DEF Steady, Sending, Piped, Held, Answered
      <3>. QED  BY <1>1, <3>2, SteadyInWorker
    <2>6. MovesOn(m)
      <3>1. ~Sending(m)' /\ ~Piped(m)' /\ ~Held(m)' /\ ~Answered(m)' /\ m \notin written'
        BY <1>1, <1>2, <2>3 DEF OnItsWay, Underway, Sending, Piped, Held, Answered
      <3>. QED  BY <1>2, <2>a, <2>3, <2>4, <3>1 DEF MovesOn, OnItsWay, Underway
    <2>7. Single'
      <3>1. \A k, n \in DOMAIN queue' :
               queue'[k] = queue'[n] /\ queue'[k].kind = "job" => k = n
        <4> SUFFICES ASSUME NEW k \in DOMAIN queue', NEW n \in DOMAIN queue',
                            queue'[k] = queue'[n], queue'[k].kind = "job"
                     PROVE  k = n
          OBVIOUS
        <4>1. (IF k < i THEN k ELSE k + 1) = (IF n < i THEN n ELSE n + 1)
          BY <2>2 DEF IpcInv, OncePlaced, Single
        <4>2. k \in Nat /\ n \in Nat
          BY <2>2
        <4>. QED  BY <2>1, <4>1, <4>2
      <3>. QED  BY <1>1, <3>1 DEF IpcInv, OncePlaced, Single
    <2>8. WorkerTypes' /\ ExitTrue'
      <3>1. reader' = [at |-> "cancelled", job |-> m]
        BY <1>2, <1>3, <2>m
      <3>. QED  BY <1>1, <1>2, <2>a, <2>2, <3>1 DEF IpcInv, WorkerTypes, ExitTrue
    <2>9. cancelled' \cap written' = {}
      BY <1>1, <2>a, <2>3 DEF IpcInv, ResolvedIsDone, OnItsWay
    <2>. QED  BY <1>1, <1>3, <2>5, <2>6, <2>7, <2>8, <2>9, WorkerIpcStep
  <1>4. CASE reader' = [reader EXCEPT !.at = "cancellation lost"] /\ UNCHANGED <<queue, cancelled>>
    <2>1. reader' = [at |-> "cancellation lost", job |-> job]
      BY <1>2, <1>4
    <2>2. WorkerTypes' /\ ExitTrue'
      BY <1>1, <1>2, <1>4, <2>1 DEF IpcInv, WorkerTypes, ExitTrue
    <2>. QED  BY <1>1, <1>4, <2>2, QuietInWorker
  <1>. QED  BY <1>3, <1>4 DEF CancelQueued

LEMMA AnnounceCancelIpc ==
    ASSUME IpcInv, AnnounceCancel
    PROVE  IpcInv'
  <1> DEFINE answer == [job |-> reader.job, slot |-> calls[reader.job].slot,
                        answer |-> "cancelled"]
  <1>1. /\ InWorker /\ reader.at = "cancelled"
        /\ UNCHANGED <<stdin, queue, pool, cancelled, written, exit>>
        /\ \/ /\ stdout' = Append(stdout, answer)
              /\ reader' = [reader EXCEPT !.at = "releasing"]
           \/ reader' = [reader EXCEPT !.at = "raised"] /\ UNCHANGED stdout
    BY DEF AnnounceCancel
  <1>2. /\ UNCHANGED <<calls, turn, stdinEnded, workerWaiters, workerFailure>>
        /\ reader.job \in DOMAIN calls /\ reader.job \in cancelled
        /\ reader = [at |-> reader.at, job |-> reader.job] /\ stdout \in Seq(Responses)
    BY <1>1 DEF InWorker, dispatcherVars, IpcInv, WorkerTypes
  <1>3. PICK job \in Jobs : job = reader.job
    BY <1>2 DEF IpcInv, DispatcherTypes
  <1>4. answer \in Responses /\ answer.job = job /\ answer.answer = "cancelled"
    BY <1>2, <1>3 DEF IpcInv, DispatcherTypes, Responses, Answers
  <1> HIDE DEF answer
  <1>5. CASE stdout' = Append(stdout, answer) /\ reader' = [reader EXCEPT !.at = "releasing"]
    <2>1. /\ stdout' \in Seq(Responses)
          /\ \A i \in DOMAIN stdout' : \/ i \in DOMAIN stdout /\ stdout'[i] = stdout[i]
                                       \/ stdout'[i] = answer
      BY <1>2, <1>4, <1>5, Appended
    <2>2. \A j \in Jobs \ {job} : MovesOn(j)
      <3> TAKE j \in Jobs \ {job}
      <3>1. Steady(j)
        BY <1>1, <1>2, <1>4, <2>1 DEF Steady, Sending, Piped, Queued, Held, Answered
      <3>. QED  BY <1>1, <3>1, SteadyInWorker
    <2>3. MovesOn(job)
      <3>1. OnItsWay(job) /\ ~Underway(job) /\ job \in DOMAIN calls /\ job \in cancelled
        BY <1>2, <1>3 DEF IpcInv, OncePlaced, OnItsWay
      <3>2. ~Sending(job)' /\ ~Piped(job)' /\ ~Queued(job)' /\ ~Held(job)'
        BY <1>1, <1>2, <3>1 DEF Underway, Sending, Piped, Queued, Held
      <3>. QED  BY <1>2, <3>1, <3>2 DEF MovesOn, OnItsWay, Underway
    <2>4. WorkerTypes' /\ ExitTrue' /\ Single'
      <3>1. reader' = [at |-> "releasing", job |-> reader.job]
        BY <1>2, <1>5
      <3>. QED  BY <1>1, <1>2, <2>1, <3>1
                DEF IpcInv, WorkerTypes, ExitTrue, OncePlaced, Single
    <2>5. ASSUME NEW i \in DOMAIN stdout'
          PROVE  \/ \E k \in DOMAIN stdout : stdout[k] = stdout'[i]
                 \/ Stands(stdout[i].job, stdout[i].answer)'
      <3>1. CASE stdout'[i] = answer
        BY <1>1, <1>2, <1>3, <1>4, <3>1 DEF Stands
      <3>. QED  BY <2>1, <3>1
    <2>6. cancelled' \cap written' = {}
      BY <1>1 DEF IpcInv, ResolvedIsDone
    <2>. QED  BY <1>1, <2>2, <2>3, <2>4, <2>5, <2>6, WorkerIpcStep
  <1>6. CASE reader' = [reader EXCEPT !.at = "raised"] /\ UNCHANGED stdout
    <2>1. reader' = [at |-> "raised", job |-> reader.job]
      BY <1>2, <1>6
    <2>2. WorkerTypes' /\ ExitTrue'
      BY <1>1, <1>2, <1>6, <2>1 DEF IpcInv, WorkerTypes, ExitTrue
    <2>. QED  BY <1>1, <1>6, <2>2, QuietInWorker
  <1>. QED  BY <1>1, <1>5, <1>6

LEMMA ReaderQuietIpc ==
    ASSUME IpcInv, SetGate \/ Exit
    PROVE  IpcInv'
  <1>1. CASE SetGate
    <2>1. /\ InWorker /\ UNCHANGED <<stdin, stdout, queue, pool, cancelled, written, exit>>
          /\ reader'.at \in {"reading", "raised"}
          /\ reader' = [at |-> reader'.at, job |-> reader'.job]
      BY <1>1 DEF SetGate
    <2>2. WorkerTypes' /\ ExitTrue'
      BY <2>1 DEF IpcInv, WorkerTypes, ExitTrue, InWorker, dispatcherVars
    <2>. QED  BY <2>1, <2>2, QuietInWorker
  <1>2. CASE Exit
    <2>1. /\ InWorker
          /\ UNCHANGED <<stdin, stdout, reader, queue, pool, cancelled, written>>
          /\ \/ /\ reader.at = "reading" /\ stdin = <<>> /\ stdinEnded /\ exit' = "0"
                /\ queue = <<>> /\ \A t \in Workers : pool[t].at = "idle"
             \/ exit' = "1"
      BY <1>2 DEF Exit
    <2>2. WorkerTypes' /\ ExitTrue'
      BY <2>1 DEF IpcInv, WorkerTypes, ExitTrue, InWorker, dispatcherVars
    <2>. QED  BY <2>1, <2>2, QuietInWorker
  <1>. QED  BY <1>1, <1>2

-----------------------------------------------------------------------------
(* A thread of the pool. *)
LEMMA TakeIpc ==
    ASSUME IpcInv, NEW t \in Workers, Take(t)
    PROVE  IpcInv'
  <1> DEFINE item == Head(queue)
             taken == [at |-> item.kind, job |-> item.job, answer |-> "ok"]
  <1>1. /\ InWorker /\ pool[t].at = "idle" /\ queue # <<>> /\ queue' = Tail(queue)
        /\ UNCHANGED <<stdin, reader, cancelled, stdout, written, exit>>
    BY DEF Take, OnThread
  <1>2. pool' = [pool EXCEPT ![t] = taken]
    BY DEF Take
  <1>3. /\ UNCHANGED <<calls, turn, stdinEnded, workerWaiters, workerFailure>>
        /\ exit = "running" /\ queue \in Seq(Items) /\ pool \in [Workers -> Threads]
    BY <1>1 DEF InWorker, dispatcherVars, IpcInv, WorkerTypes
  <1>4. /\ queue' \in Seq(Items) /\ 1 \in DOMAIN queue /\ item = queue[1] /\ item \in Items
        /\ \A i \in DOMAIN queue' : /\ i \in Nat \ {0} /\ i + 1 \in DOMAIN queue
                                    /\ i + 1 # 1 /\ queue'[i] = queue[i + 1]
    BY <1>1, <1>3, Behead
  <1>5. item = [kind |-> item.kind, job |-> item.job] /\ item.kind \in {"gate", "job"}
        /\ item.job \in Jobs
    BY <1>4 DEF Items
  <1>6. PICK kind, job : kind = item.kind /\ job = item.job /\ queue[1] = Item(kind, job)
    BY <1>4, <1>5 DEF Item
  <1>7. /\ kind \in {"gate", "job"} /\ job \in Jobs
        /\ taken = [at |-> kind, job |-> job, answer |-> "ok"] /\ taken \in Threads
    BY <1>5, <1>6 DEF Threads, Working, Answers
  <1> HIDE DEF item, taken
  <1>8. pool'[t] = taken /\ \A u \in Workers \ {t} : pool'[u] = pool[u]
    BY <1>2, <1>3
  <1>9. WorkerTypes' /\ ExitTrue'
    BY <1>1, <1>2, <1>3, <1>4, <1>7, <1>8 DEF IpcInv, WorkerTypes, ExitTrue
  <1>10. \A j \in Jobs : j # job \/ kind # "job" => Steady(j)
    <2> SUFFICES ASSUME NEW j \in Jobs, j # job \/ kind # "job" PROVE Steady(j)
      OBVIOUS
    <2>1. Held(j)' => Held(j)
      <3>1. pool'[t].at \in Working => pool'[t].job # j
        BY <1>7, <1>8 DEF Working
      <3>. QED  BY <1>8, <3>1 DEF Held
    <2>2. Queued(j)' => Queued(j)
      BY <1>4 DEF Queued
    <2>. QED  BY <1>1, <1>3, <2>1, <2>2 DEF Steady, Sending, Piped, Answered
  <1>11. kind = "job" => MovesOn(job) /\ ~Held(job)
    <2> SUFFICES ASSUME kind = "job" PROVE MovesOn(job) /\ ~Held(job)
      OBVIOUS
    <2>1. Queued(job) /\ OnItsWay(job)
      BY <1>4, <1>6, <1>7 DEF Queued, IpcInv, OncePlaced
    <2>2. ~Queued(job)'
      <3>1. Item("job", job).kind = "job"
        BY DEF Item
      <3>2. \A i \in DOMAIN queue : i # 1 => queue[i] # Item("job", job)
        BY <1>4, <1>6, <3>1 DEF IpcInv, OncePlaced, Single
      <3>. QED  BY <1>4, <3>2 DEF Queued
    <2>3. ~Sending(job)' /\ ~Piped(job)' /\ ~Answered(job)'
      BY <1>1, <1>3, <2>1 DEF OnItsWay, Underway, Sending, Piped, Answered
    <2>. QED  BY <1>1, <1>3, <2>1, <2>2, <2>3 DEF MovesOn, OnItsWay, Underway
  <1>12. Single'
    <2>1. \A i, k \in DOMAIN queue' :
             queue'[i] = queue'[k] /\ queue'[i].kind = "job" => i = k
      BY <1>4 DEF IpcInv, OncePlaced, Single
    <2>2. \A u \in Workers \ {t} :
             pool'[t].at \in Working /\ pool'[u].at \in Working => pool'[u].job # pool'[t].job
      BY <1>7, <1>8, <1>11 DEF Held, Working
    <2>. QED  BY <1>1, <1>8, <2>1, <2>2 DEF IpcInv, OncePlaced, Single
  <1>13. \A j \in Jobs : MovesOn(j)
    BY <1>1, <1>10, <1>11, SteadyInWorker
  <1>14. \A u \in Workers : pool'[u].at \in Done =>
            pool[u].at \in Done /\ pool'[u].job = pool[u].job /\ pool'[u].answer = pool[u].answer
    BY <1>7, <1>8 DEF Done
  <1>15. cancelled' \cap written' = {}
    BY <1>1 DEF IpcInv, ResolvedIsDone
  <1>. QED  BY <1>1, <1>9, <1>12, <1>13, <1>14, <1>15, WorkerIpcStep

LEMMA PassGateIpc ==
    ASSUME IpcInv, NEW t \in Workers, PassGate(t)
    PROVE  IpcInv'
  <1>1. /\ InWorker /\ pool' = [pool EXCEPT ![t] = NoOne]
        /\ UNCHANGED <<stdin, stdout, queue, reader, cancelled, written, exit>>
    BY DEF PassGate, OnThread, Idle
  <1>2. NoOne \in Threads /\ NoOne.at \notin Working
    BY DEF NoOne, Threads, Working, Answers
  <1>3. /\ pool' \in [Workers -> Threads] /\ pool'[t] = NoOne
        /\ \A u \in Workers \ {t} : pool'[u] = pool[u]
    BY <1>1, <1>2 DEF IpcInv, WorkerTypes
  <1>4. WorkerTypes' /\ ExitTrue'
    BY <1>1, <1>2, <1>3 DEF IpcInv, WorkerTypes, ExitTrue, InWorker, dispatcherVars, Working
  <1>. QED  BY <1>1, <1>2, <1>3, <1>4, QuietInWorker

(* A thread goes on with its job. *)
LEMMA GoesOnIpc ==
    ASSUME IpcInv, NEW t \in Workers, InWorker, pool[t].at \in Working,
           NEW at \in Working, NEW answer \in Answers,
           pool' = [pool EXCEPT ![t] = [at |-> at, job |-> pool[t].job, answer |-> answer]],
           UNCHANGED <<stdin, reader, cancelled, stdout, queue, exit>>,
           written' = written \/ written' = written \cup {pool[t].job},
           at \in {"job", "entered"} => answer = "ok",
           at \in Done => \/ pool[t].at \in Done /\ answer = pool[t].answer
                          \/ Stands(pool[t].job, answer)'
    PROVE  IpcInv'
  <1>1. /\ UNCHANGED <<calls, turn, stdinEnded, workerWaiters, workerFailure>>
        /\ exit = "running" /\ pool \in [Workers -> Threads] /\ pool[t].job \in Jobs
    BY DEF InWorker, dispatcherVars, IpcInv, WorkerTypes
  <1>2. PICK job \in Jobs : job = pool[t].job
    BY <1>1
  <1>3. [at |-> at, job |-> job, answer |-> answer] \in Threads
    BY DEF Threads
  <1>4. /\ pool' \in [Workers -> Threads]
        /\ pool'[t] = [at |-> at, job |-> job, answer |-> answer]
        /\ \A u \in Workers \ {t} : pool'[u] = pool[u]
    BY <1>1, <1>2, <1>3
  <1>5. pool'[t].at = at /\ pool'[t].job = job /\ pool'[t].answer = answer
    BY <1>4
  <1>6. WorkerTypes' /\ ExitTrue'
    BY <1>1, <1>2, <1>4, <1>5 DEF IpcInv, WorkerTypes, ExitTrue
  <1>7. Single'
    BY <1>2, <1>4, <1>5 DEF IpcInv, OncePlaced, Single
  <1>8. Held(job) /\ \A j \in Jobs : Held(j)' <=> Held(j)
    BY <1>2, <1>4, <1>5 DEF Held
  <1>9. \A j \in Jobs : MovesOn(j)
    <2> TAKE j \in Jobs
    <2>1. Steady(j)
      BY <1>1, <1>2, <1>8 DEF Steady, Sending, Piped, Queued, Answered
    <2>. QED  BY <2>1, SteadyInWorker
  <1>10. ASSUME NEW u \in Workers, pool'[u].at \in Done
         PROVE  \/ pool[u].at \in Done /\ pool'[u].job = pool[u].job
                                       /\ pool'[u].answer = pool[u].answer
                \/ Stands(pool[u].job, pool[u].answer)'
    <2>1. CASE u = t
      BY <1>2, <1>5, <1>10, <2>1 DEF Stands, FailsOnPurpose, Odd
    <2>2. CASE u # t
      BY <1>4, <1>10, <2>2
    <2>. QED  BY <2>1, <2>2
  <1>11. cancelled' \cap written' = {}
    <2>1. job \notin cancelled
      BY <1>8 DEF IpcInv, OncePlaced, OnItsWay, Underway
    <2>. QED  BY <1>2, <2>1 DEF IpcInv, ResolvedIsDone
  <1>. QED  BY <1>6, <1>7, <1>9, <1>10, <1>11, WorkerIpcStep

LEMMA AtPlace ==
    ASSUME IpcInv, NEW t \in Workers, NEW place, At(t, place)
    PROVE  pool' = [pool EXCEPT ![t] = [at |-> place, job |-> pool[t].job,
                                        answer |-> pool[t].answer]]
  <1>1. pool \in [Workers -> Threads] /\ pool[t] \in Threads
    BY DEF IpcInv, WorkerTypes
  <1>2. [pool[t] EXCEPT !.at = place] = [at |-> place, job |-> pool[t].job,
                                         answer |-> pool[t].answer]
    BY <1>1 DEF Threads
  <1>. QED  BY <1>2 DEF At

(* ... in the same way for its markers, the failure injected, the background. *)
LEMMA PlaceIpc ==
    ASSUME IpcInv, NEW t \in Workers, InWorker, pool[t].at \in Working,
           NEW at \in Working, At(t, at), at \in Done => pool[t].at \in Done,
           at = "entered" => pool[t].at = "job", at # "job",
           UNCHANGED <<stdin, reader, cancelled, stdout, queue, written, exit>>
    PROVE  IpcInv'
  <1>1. /\ pool[t].answer \in Answers
        /\ at \in {"job", "entered"} => pool[t].answer = "ok"
    BY DEF IpcInv, WorkerTypes, Threads
  <1>2. pool' = [pool EXCEPT ![t] = [at |-> at, job |-> pool[t].job,
                                     answer |-> pool[t].answer]]
    BY AtPlace
  <1>. QED  BY <1>1, <1>2, GoesOnIpc

LEMMA PerformIpc ==
    ASSUME IpcInv, NEW t \in Workers, Perform(t)
    PROVE  IpcInv'
  <1>1. /\ InWorker /\ pool[t].at = "entered" /\ pool[t].at \in Working
        /\ UNCHANGED <<stdin, reader, cancelled, stdout, queue, exit>>
        /\ \/ /\ ~FailsOnPurpose(pool[t].job)
              /\ written' = written \cup {pool[t].job}
              /\ At(t, IF scenario = "worker-crash" THEN "crashing" ELSE "performed")
           \/ /\ pool' = [pool EXCEPT ![t] = [at |-> "performed", job |-> pool[t].job,
                    answer |-> IF FailsOnPurpose(pool[t].job)
                               THEN "expected failure" ELSE "error"]]
              /\ UNCHANGED written
    BY DEF Perform, OnThread, Working
  <1>2. /\ pool \in [Workers -> Threads] /\ pool[t] \in Threads /\ pool[t].answer \in Answers
        /\ pool[t].job \in Jobs
    BY <1>1 DEF IpcInv, WorkerTypes, Threads
  <1>3. PICK job \in Jobs : job = pool[t].job
    BY <1>2
  <1>4. CASE /\ ~FailsOnPurpose(job) /\ written' = written \cup {job}
             /\ At(t, IF scenario = "worker-crash" THEN "crashing" ELSE "performed")
    <2> DEFINE at == IF scenario = "worker-crash" THEN "crashing" ELSE "performed"
    <2>1. at \in Working
      BY DEF Working
    <2>2. PICK place \in Working : place = at
      BY <2>1
    <2>3. pool' = [pool EXCEPT ![t] = [at |-> place, job |-> pool[t].job,
                                       answer |-> pool[t].answer]]
      BY <1>4, <2>2, AtPlace
    <2> HIDE DEF at
    <2>4. pool[t].answer = "ok" /\ place \notin {"job", "entered"}
      BY <1>1, <2>2 DEF IpcInv, WorkerTypes, at
    <2>5. Stands(pool[t].job, "ok")'
      <3>1. pool'[t].job = job
        BY <1>2, <1>3, <2>3
      <3>. QED  BY <1>4, <3>1 DEF Stands
    <2>. QED  BY <1>1, <1>2, <1>3, <1>4, <2>3, <2>4, <2>5, GoesOnIpc
  <1>5. CASE /\ pool' = [pool EXCEPT ![t] = [at |-> "performed", job |-> pool[t].job,
                    answer |-> IF FailsOnPurpose(job)
                               THEN "expected failure" ELSE "error"]]
             /\ UNCHANGED written
    <2>1. PICK answer \in Answers :
             answer = (IF FailsOnPurpose(job) THEN "expected failure" ELSE "error")
      BY DEF Answers
    <2>3. pool' = [pool EXCEPT ![t] = [at |-> "performed", job |-> pool[t].job,
                                       answer |-> answer]]
      BY <1>5, <2>1
    <2>4. Stands(pool[t].job, answer)'
      <3>1. pool'[t].job = job
        BY <1>2, <1>3, <2>3
      <3>2. FailsOnPurpose(job)' <=> FailsOnPurpose(job)
        BY <1>1 DEF FailsOnPurpose, Odd, InWorker, dispatcherVars
      <3>3. /\ answer = "expected failure" => FailsOnPurpose(job)'
            /\ answer \in {"expected failure", "error"}
        BY <2>1, <3>2
      <3>. QED  BY <3>1, <3>3 DEF Stands, FailsOnPurpose, Odd
    <2>5. PICK at \in Working : at = "performed"
      BY DEF Working
    <2>6. pool' = [pool EXCEPT ![t] = [at |-> at, job |-> pool[t].job, answer |-> answer]]
      BY <2>3, <2>5
    <2>7. at \notin {"job", "entered"}
      BY <2>5
    <2>. QED  BY <1>1, <1>5, <2>4, <2>6, <2>7, GoesOnIpc
  <1>. QED  BY <1>1, <1>3, <1>4, <1>5

LEMMA MarkOrRaiseIpc ==
    ASSUME IpcInv, NEW t \in Workers, InWorker, pool[t].at \in Working,
           NEW marker, NEW place \in Working, place # "job",
           MarkOrRaise(t, marker, place),
           place \in Done => pool[t].at \in Done,
           place = "entered" => pool[t].at = "job",
           UNCHANGED <<stdin, reader, cancelled>>
    PROVE  IpcInv'
  <1>1. /\ UNCHANGED <<stdin, reader, cancelled, stdout, queue, written, exit>>
        /\ At(t, place) \/ At(t, "raised")
    BY DEF MarkOrRaise
  <1>2. CASE At(t, place)
    BY <1>1, <1>2, PlaceIpc
  <1>3. CASE At(t, "raised")
    BY <1>1, <1>3, PlaceIpc DEF Working, Done
  <1>. QED  BY <1>1, <1>2, <1>3

LEMMA AnswerIpc ==
    ASSUME IpcInv, NEW t \in Workers, Answer(t), Idle(t)
    PROVE  IpcInv'
  <1> DEFINE said == IF scenario = "worker-wrong-response" THEN UnknownJob ELSE pool[t].job
             answer == [job |-> said, slot |-> calls[pool[t].job].slot,
                        answer |-> pool[t].answer]
  <1>1. /\ InWorker /\ pool[t].at = "answering" /\ stdout' = Append(stdout, answer)
        /\ pool' = [pool EXCEPT ![t] = NoOne]
        /\ UNCHANGED <<stdin, reader, cancelled, queue, written, exit>>
    <2>1. ~At(t, "unanswered")
      <3>1. pool \in [Workers -> Threads]
        BY DEF IpcInv, WorkerTypes
      <3>2. ASSUME At(t, "unanswered") PROVE pool'[t].at = "unanswered"
        <4>1. pool' = [pool EXCEPT ![t] = [at |-> "unanswered", job |-> pool[t].job,
                                           answer |-> pool[t].answer]]
          BY <3>2, AtPlace
        <4>. QED  BY <3>1, <4>1
      <3>3. pool'[t].at = "idle"
        BY <3>1 DEF Idle, NoOne
      <3>. QED  BY <3>2, <3>3
    <2>. QED  BY <2>1 DEF Answer, OnThread, Idle
  <1>2. /\ UNCHANGED <<calls, turn, stdinEnded, workerWaiters, workerFailure>>
        /\ exit = "running" /\ pool \in [Workers -> Threads] /\ pool[t] \in Threads
        /\ pool[t].at \in Working /\ pool[t].job \in Jobs /\ stdout \in Seq(Responses)
    BY <1>1 DEF InWorker, dispatcherVars, IpcInv, WorkerTypes, Working
  <1>3. PICK job \in Jobs : job = pool[t].job
    BY <1>2
  <1>4. Held(job) /\ OnItsWay(job) /\ job \in DOMAIN calls
    BY <1>2, <1>3 DEF Held, Underway, OnItsWay, IpcInv, OncePlaced
  <1>5. /\ answer \in Responses /\ answer.job \in {job, UnknownJob}
        /\ answer.answer = pool[t].answer
    BY <1>2, <1>3, <1>4 DEF IpcInv, DispatcherTypes, Responses, Threads
  <1> HIDE DEF answer
  <1>6. /\ stdout' \in Seq(Responses)
        /\ \A i \in DOMAIN stdout' : \/ i \in DOMAIN stdout /\ stdout'[i] = stdout[i]
                                     \/ stdout'[i] = answer
    BY <1>1, <1>2, <1>5, Appended
  <1>7. NoOne \in Threads /\ NoOne.at \notin Working
    BY DEF NoOne, Threads, Working, Answers
  <1>8. /\ pool' \in [Workers -> Threads] /\ pool'[t] = NoOne
        /\ \A u \in Workers \ {t} : pool'[u] = pool[u]
    BY <1>1, <1>2, <1>7
  <1>9. WorkerTypes' /\ ExitTrue' /\ Single'
    <2>1. WorkerTypes'
      BY <1>1, <1>2, <1>6, <1>7, <1>8 DEF IpcInv, WorkerTypes, Working
    <2>2. ExitTrue'
      BY <1>1, <1>2 DEF IpcInv, ExitTrue
    <2>3. Single'
      BY <1>1, <1>7, <1>8 DEF IpcInv, OncePlaced, Single
    <2>. QED  BY <2>1, <2>2, <2>3
  <1>10. \A j \in Jobs \ {job} : MovesOn(j)
    <2> TAKE j \in Jobs \ {job}
    <2>1. answer.job # j
      BY <1>5, IpcAssumption
    <2>2. Answered(j)' => Answered(j)
      BY <1>6, <2>1 DEF Answered
    <2>3. Held(j)' => Held(j)
      BY <1>7, <1>8 DEF Held
    <2>4. Steady(j)
      BY <1>1, <1>2, <2>2, <2>3 DEF Steady, Sending, Piped, Queued
    <2>. QED  BY <1>1, <2>4, SteadyInWorker
  <1>11. MovesOn(job)
    <2>1. ~Held(job)'
      BY <1>2, <1>3, <1>7, <1>8 DEF Held, IpcInv, OncePlaced, Single
    <2>2. ~Sending(job)' /\ ~Piped(job)' /\ ~Queued(job)'
      BY <1>1, <1>2, <1>4 DEF OnItsWay, Sending, Piped, Queued
    <2>. QED  BY <1>1, <1>2, <1>4, <2>1, <2>2 DEF MovesOn, OnItsWay, Underway
  <1>12. \A u \in Workers : pool'[u].at \in Done =>
            pool[u].at \in Done /\ pool'[u].job = pool[u].job /\ pool'[u].answer = pool[u].answer
    BY <1>7, <1>8 DEF Done, Working
  <1>13. ASSUME NEW i \in DOMAIN stdout', stdout'[i].job \in Jobs
         PROVE  \/ \E k \in DOMAIN stdout : stdout[k] = stdout'[i]
                \/ Stands(stdout[i].job, stdout[i].answer)'
    <2>1. CASE stdout'[i] = answer
      <3>1. Stands(job, pool[t].answer)
        BY <1>1, <1>3 DEF IpcInv, AnswersTrue, Done
      <3>2. stdout'[i].job = job /\ stdout'[i].answer = pool[t].answer
        BY <1>5, <1>13, <2>1, IpcAssumption
      <3>3. FailsOnPurpose(job)' <=> FailsOnPurpose(job)
        BY <1>1 DEF FailsOnPurpose, Odd, InWorker, dispatcherVars
      <3>. QED  BY <1>1, <3>1, <3>2, <3>3 DEF Stands, FailsOnPurpose, Odd
    <2>. QED  BY <1>6, <2>1
  <1>14. cancelled' \cap written' = {}
    BY <1>1 DEF IpcInv, ResolvedIsDone
  <1>. QED  BY <1>1, <1>9, <1>10, <1>11, <1>12, <1>13, <1>14, WorkerIpcStep

LEMMA DeathIpc ==
    ASSUME IpcInv, NEW t \in Workers, Crash(t) \/ DieOfTask(t)
    PROVE  IpcInv'
  <1>1. /\ InWorker /\ UNCHANGED <<stdin, stdout, reader, queue, pool, cancelled, written>>
        /\ \/ exit' = "23" /\ pool[t].at = "crashing"
           \/ exit' = "24" /\ pool[t].at \in {"raised", "unanswered"}
    BY DEF Crash, DieOfTask, OnThread
  <1>2. WorkerTypes' /\ ExitTrue'
    BY <1>1 DEF IpcInv, WorkerTypes, ExitTrue, InWorker, dispatcherVars
  <1>. QED  BY <1>1, <1>2, QuietInWorker

LEMMA ThreadIpc ==
    ASSUME IpcInv, NEW t \in Workers, ThreadStep(t)
    PROVE  IpcInv'
  <1> USE DEF OnThread, Working, Done
  <1>1. CASE EnterJob(t)
    BY <1>1, MarkOrRaiseIpc DEF EnterJob
  <1>2. CASE LeaveJob(t)
    <2>1. CASE scenario = "worker-fatal"
      BY <1>2, <2>1, PlaceIpc DEF LeaveJob
    <2>2. CASE scenario # "worker-fatal"
      BY <1>2, <2>2, MarkOrRaiseIpc DEF LeaveJob
    <2>. QED  BY <2>1, <2>2
  <1>3. CASE ClearContext(t)
    <2>1. PICK place \in {"background", "answering"} :
             MarkOrRaise(t, Marker("JS_CONTEXT", t, 0, 0), place)
      BY <1>3 DEF ClearContext
    <2>. QED  BY <1>3, <2>1, MarkOrRaiseIpc DEF ClearContext
  <1>4. CASE Background(t)
    <2>1. CASE At(t, "answering")
      BY <1>4, <2>1, PlaceIpc DEF Background
    <2>2. CASE At(t, "unanswered")
      BY <1>4, <2>2, PlaceIpc DEF Background
    <2>. QED  BY <1>4, <2>1, <2>2 DEF Background
  <1>5. CASE Answer(t)
    <2>1. CASE Idle(t)
      BY <1>5, <2>1, AnswerIpc
    <2>2. CASE At(t, "unanswered") /\ UNCHANGED stdout
      BY <1>5, <2>2, PlaceIpc DEF Answer
    <2>. QED  BY <1>5, <2>1, <2>2 DEF Answer
  <1>. QED  BY <1>1, <1>2, <1>3, <1>4, <1>5, TakeIpc, PassGateIpc, PerformIpc, DeathIpc
            DEF ThreadStep

LEMMA IpcStep ==
    ASSUME IpcInv, IpcNext
    PROVE  IpcInv'
  BY CallIpc, MarkSendIpc, WriteJobIpc, EndTurnIpc, OnFailureIpc, OnResponseIpc,
     ReadMessageIpc, CancelQueuedIpc, AnnounceCancelIpc, ReaderQuietIpc, ThreadIpc
     DEF IpcNext, DispatcherStep, ReaderStep

-----------------------------------------------------------------------------
(* What the write of a marker leaves on the trace. *)
Reads(e, kind, tid, context, job) ==
    /\ e.kind = kind /\ e.tid = tid /\ e.request = context /\ e.operation = 0
    /\ e.job = job
Writes(m, kind, tid, context, job) ==
    /\ Reads(m, kind, tid, context, job) /\ m.written = "whole"
    /\ {"kind", "tid", "request", "operation", "job", "written", "captured"} \subseteq DOMAIN m

LEMMA JobMarker ==
    ASSUME NEW kind, NEW tid, NEW job
    PROVE  /\ Writes(Job(kind, tid, job), kind, tid, calls[job].context, job)
           /\ Writes(Marker(kind, tid, 0, 0), kind, tid, 0, NoJob)
  BY DEF Job, Marker, Writes, Reads

LEMMA MarkerFacts ==
    ASSUME NEW kind, NEW tid, NEW context, NEW job, NEW e, NEW marker,
           Writes(marker, kind, tid, context, job)
    PROVE  /\ e \in Delivered(marker) =>
                 Reads(e, kind, tid, context, job) /\ e.written = "whole"
           /\ e \in Undelivered(marker) =>
                 Reads(e, kind, tid, context, job) /\ e.written \in {"partial", "failed"}
  <1>1. ASSUME e \in Delivered(marker)
        PROVE  Reads(e, kind, tid, context, job) /\ e.written = "whole"
    <2>1. \E c \in BOOLEAN : e = [marker EXCEPT !.captured = c]
      BY <1>1 DEF Delivered
    <2>. QED  BY <2>1 DEF Writes, Reads
  <1>2. ASSUME e \in Undelivered(marker)
        PROVE  Reads(e, kind, tid, context, job) /\ e.written \in {"partial", "failed"}
    <2>1. PICK w \in {"partial", "failed"} : e \in Delivered([marker EXCEPT !.written = w])
      BY <1>2 DEF Undelivered
    <2>2. \E c \in BOOLEAN : e = [[marker EXCEPT !.written = w] EXCEPT !.captured = c]
      BY <2>1 DEF Delivered
    <2>. QED  BY <2>2 DEF Writes, Reads
  <1>. QED  BY <1>1, <1>2

(* What the attributor does with an event is a matter of the event's kind.   *)
LEMMA ByKind ==
    ASSUME NEW e, Observe(e)
    PROVE  /\ errors \subseteq errors'
           /\ Unusable(e) /\ e.kind # "NONE" =>
                 /\ UNCHANGED <<state, operations, activeWork, runtimeSpans, ipcJobs,
                                ipcActive, bound>>
                 /\ errors' # {} \/ (~e.captured /\ e.written = "failed" /\ errors' = errors)
           /\ ~Unusable(e) =>
                 /\ e.kind = "NONE" => UNCHANGED attributorVars
                 /\ e.kind = "JS_CONTEXT" => OnContext(e)
                 /\ e.kind = "IPC_SEND" => OnIpcSend(e)
                 /\ e.kind = "IPC_CANCEL" => OnIpcCancel(e)
                 /\ e.kind = "IPC_ENTER" => OnIpcEnter(e)
                 /\ e.kind = "IPC_LEAVE" => OnIpcLeave(e)
                 /\ e.kind = "EFFECT" => OnEffect(e)
  <1> DEFINE Usual == \/ OnContext(e) \/ OnIpcSend(e) \/ OnIpcCancel(e)
                      \/ OnIpcEnter(e) \/ OnIpcLeave(e) \/ OnEffect(e)
             Other == \/ OnSubmit(e) \/ OnWorkEnter(e) \/ OnWorkLeave(e)
                      \/ OnComplete(e) \/ OnFailure(e)
  <1>1. CASE e.kind = "NONE" /\ UNCHANGED attributorVars
    BY <1>1 DEF attributorVars
  <1>2. CASE /\ Unusable(e)
             /\ errors' = errors \cup
                   Refusal(e.captured \/ e.written # "failed", "incomplete capture")
             /\ UNCHANGED <<state, operations, activeWork, runtimeSpans, ipcJobs,
                            ipcActive, bound>>
    BY <1>2 DEF Refusal
  <1>3. CASE ~Unusable(e) /\ Usual
    <2>1. /\ OnContext(e) => e.kind \in {"JS_CONTEXT", "DONE_ENTER", "DONE_LEAVE"}
          /\ OnEffect(e) => e.kind = "EFFECT"
          /\ OnIpcSend(e) => e.kind = "IPC_SEND"
          /\ OnIpcCancel(e) => e.kind = "IPC_CANCEL"
          /\ OnIpcEnter(e) => e.kind = "IPC_ENTER"
          /\ OnIpcLeave(e) => e.kind = "IPC_LEAVE"
      BY DEF OnContext, OnEffect, OnIpcSend, OnIpcCancel, OnIpcEnter, OnIpcLeave, TRANSITIONS
    <2>2. Usual => errors \subseteq errors'
      BY DEF OnContext, OnEffect, OnIpcSend, OnIpcCancel, OnIpcEnter, OnIpcLeave, EnterContext
    <2>. QED  BY <1>3, <2>1, <2>2
  <1>4. CASE ~Unusable(e) /\ Other
    <2>1. /\ OnSubmit(e) => e.kind = "SUBMIT" /\ errors \subseteq errors'
          /\ OnWorkEnter(e) => e.kind = "WORK_ENTER" /\ errors \subseteq errors'
          /\ OnWorkLeave(e) => e.kind = "WORK_LEAVE" /\ errors \subseteq errors'
          /\ OnComplete(e) => e.kind = "COMPLETE" /\ errors \subseteq errors'
          /\ OnFailure(e) => /\ e.kind \in {"INVARIANT_FAILURE", "DUPLICATE_WORK"}
                             /\ errors \subseteq errors'
      BY DEF OnSubmit, OnWorkEnter, OnWorkLeave, OnComplete, OnFailure, EnterContext
    <2>. QED  BY <1>4, <2>1
  <1>. QED  BY <1>1, <1>2, <1>3, <1>4 DEF Observe

Kinds == {"JS_CONTEXT", "IPC_SEND", "IPC_CANCEL", "IPC_ENTER", "IPC_LEAVE"}

(* A marker arrives, or the capture is refused; one that was not written is  *)
(* seen to be missing, or it leaves no trace.                                *)
LEMMA Sent ==
    ASSUME NEW kind \in Kinds, NEW tid, NEW context, NEW job, NEW marker,
           Writes(marker, kind, tid, context, job), Emits(marker), Observe(emitted')
    PROVE  /\ Reads(emitted', kind, tid, context, job)
           /\ \/ errors' # {} /\ faults' # {}
              \/ ~Unusable(emitted') /\ faults' = faults
  <1>1. /\ emitted' \in Delivered(marker)
        /\ faults' = IF emitted'.captured THEN faults ELSE faults \cup {"capture"}
    BY DEF Emits
  <1>2. Reads(emitted', kind, tid, context, job) /\ emitted'.written = "whole"
    BY <1>1, MarkerFacts
  <1>3. CASE emitted'.captured
    BY <1>1, <1>2, <1>3 DEF Unusable
  <1>4. CASE ~emitted'.captured
    <2>1. emitted'.kind # "NONE" /\ Unusable(emitted')
      BY <1>2, <1>4 DEF Reads, Kinds, Unusable
    <2>. QED  BY <1>1, <1>2, <1>4, <2>1, ByKind
  <1>. QED  BY <1>2, <1>3, <1>4

LEMMA NotSent ==
    ASSUME NEW kind \in Kinds, NEW tid, NEW context, NEW job, NEW marker, NEW outcomes,
           Writes(marker, kind, tid, context, job), EmitFails(marker, outcomes), Observe(emitted')
    PROVE  /\ Reads(emitted', kind, tid, context, job) /\ faults' # {}
           /\ \/ errors' # {}
              \/ /\ UNCHANGED attributorVars /\ "failed" \in outcomes
                 /\ "unseen" \in faults'
  <1>1. /\ emitted' \in Undelivered(marker)
        /\ emitted'.written \in outcomes
        /\ faults' = faults \cup
              IF emitted'.written = "failed" /\ ~emitted'.captured
              THEN {"unseen"} ELSE {"marker"}
    BY DEF EmitFails
  <1>2. /\ Reads(emitted', kind, tid, context, job)
        /\ emitted'.written \in {"partial", "failed"}
    BY <1>1, MarkerFacts
  <1>3. emitted'.kind # "NONE" /\ Unusable(emitted')
    BY <1>2 DEF Reads, Kinds, Unusable
  <1>. QED  BY <1>1, <1>2, <1>3, ByKind DEF attributorVars

LEMMA Silent ==
    ASSUME Quiet, Observe(emitted')
    PROVE  UNCHANGED attributorVars /\ faults' = faults
  <1>1. emitted'.kind = "NONE" /\ ~Unusable(emitted')
    BY DEF Quiet, Silence, Marker, Unusable
  <1>. QED  BY <1>1, ByKind DEF Quiet

-----------------------------------------------------------------------------
(* What every step has to keep. *)
Follows ==
    /\ AttributorTypes'
    /\ Mirrored => Mirrored' \/ errors' # {}
    /\ errors \subseteq errors'
    /\ faults' = {} /\ Clean => Clean'
    /\ faults \subseteq faults'

(* The jobs the attributor knows stay what they were, or are finished. *)
JobsKept == \A j \in DOMAIN ipcJobs :
    /\ j \in DOMAIN ipcJobs' /\ ipcJobs'[j].request = ipcJobs[j].request
    /\ ipcJobs[j].finished => ipcJobs'[j].finished

LEMMA StaysFollowed ==
    ASSUME NEW u \in Workers, Followed(u), pool'[u] = pool[u],
           ipcActive'[u] = ipcActive[u], state'[u] = state[u],
           faults \subseteq faults', JobsKept, AttributorTypes,
           \A j \in DOMAIN calls : calls'[j].context = calls[j].context
    PROVE  Followed(u)'
  BY DEF Followed, JobsKept, AttributorTypes

LEMMA HeldJobs ==
    ASSUME IpcInv, NEW t \in Workers, pool[t].at \in Working
    PROVE  /\ pool[t].job \in Jobs /\ pool[t].job \in DOMAIN calls
           /\ Held(pool[t].job) /\ Underway(pool[t].job)
           /\ pool[t].job \notin cancelled
           /\ \A u \in Workers \ {t} : pool[u].at \in Working => pool[u].job # pool[t].job
  <1>1. pool[t].job \in Jobs /\ Held(pool[t].job)
    BY DEF IpcInv, WorkerTypes, Held
  <1>2. OnItsWay(pool[t].job)
    BY <1>1 DEF IpcInv, OncePlaced
  <1>3. \A u \in Workers \ {t} : pool[u].at \in Working => pool[u].job # pool[t].job
    BY DEF IpcInv, OncePlaced, Single
  <1>. QED  BY <1>1, <1>2, <1>3 DEF Underway, OnItsWay

(* A step of which the attributor learns nothing. *)
LEMMA StaysMirrored ==
    ASSUME IpcInv, AttributorTypes, Mirrored, UNCHANGED attributorVars, SameCalls,
           turn'.at # "loop" => turn.at # "loop" /\ turn'.job = turn.job,
           turn'.at = "waiter set" => turn.at = "waiter set",
           \A j \in Jobs : Expected(j)' => Expected(j),
           \A u \in Workers : Followed(u)'
    PROVE  Mirrored'
  <1>1. /\ \A j \in DOMAIN ipcJobs' : ipcJobs'[j].request = calls'[j].context
        /\ turn'.at = "waiter set" => turn'.job \notin DOMAIN ipcJobs'
        /\ \A j \in Jobs : Expected(j)' => Fresh(j)'
        /\ BoundToOwner'
    BY DEF Mirrored, Fresh, BoundToOwner, attributorVars, AttributorTypes, SameCalls
  <1>2. turn'.at # "loop" => state'[Main].request = calls'[turn'.job].context
    <2>1. turn.at # "loop" => turn.job \in DOMAIN calls
      BY DEF IpcInv, DispatcherTypes
    <2>. QED  BY <2>1 DEF Mirrored, attributorVars, SameCalls
  <1>. QED  BY <1>1, <1>2 DEF Mirrored

LEMMA QuietFollows ==
    ASSUME IpcInv, AttributorTypes, UNCHANGED attributorVars, UNCHANGED faults, SameCalls,
           turn'.at # "loop" => turn.at # "loop" /\ turn'.job = turn.job,
           turn'.at = "waiter set" => turn.at = "waiter set",
           \A j \in Jobs : Expected(j)' => Expected(j),
           Mirrored => \A u \in Workers : Followed(u)',
           exit' \in {"running", "0"} => exit \in {"running", "0"},
           Clean /\ exit' \in {"running", "0"} =>
              \A j \in Jobs : Going(j) => Going(j)' \/ ipcJobs[j].finished
    PROVE  Follows
  <1>1. AttributorTypes' /\ errors' = errors
    BY DEF AttributorTypes, attributorVars, SameCalls
  <1>2. Mirrored => Mirrored'
    BY StaysMirrored
  <1>3. ASSUME Clean PROVE Clean'
    <2>1. Mirrored' /\ errors' = {}
      BY <1>1, <1>2, <1>3 DEF Clean
    <2>2. DOMAIN ipcJobs \subseteq Jobs /\ ipcJobs' = ipcJobs
      BY DEF AttributorTypes, IpcInv, DispatcherTypes, attributorVars
    <2>. QED  BY <1>3, <2>1, <2>2 DEF Clean
  <1>. QED  BY <1>1, <1>2, <1>3 DEF Follows

(* A write that left nothing, not even on the trace. *)
LEMMA UnseenFollows ==
    ASSUME IpcInv, AttributorTypes, UNCHANGED attributorVars, SameCalls,
           faults \subseteq faults', faults' # {},
           turn'.at # "loop" => turn.at # "loop" /\ turn'.job = turn.job,
           turn'.at = "waiter set" => turn.at = "waiter set",
           \A j \in Jobs : Expected(j)' => Expected(j),
           Mirrored => \A u \in Workers : Followed(u)'
    PROVE  Follows
  <1>1. AttributorTypes' /\ errors' = errors
    BY DEF AttributorTypes, attributorVars, SameCalls
  <1>2. ASSUME Mirrored PROVE Mirrored'
    BY <1>2, StaysMirrored
  <1>. QED  BY <1>1, <1>2 DEF Follows

(* A capture that is refused. *)
LEMMA RefusedFollows ==
    ASSUME AttributorTypes', errors' # {}, faults' # {}, errors \subseteq errors',
           faults \subseteq faults'
    PROVE  Follows
  BY DEF Follows

(* The dispatcher's silent steps. *)
LEMMA WriteJobFollows ==
    ASSUME IpcInv, AttributorTypes, WriteJob, Observe(emitted')
    PROVE  Follows
  <1>1. /\ turn.at = "marked" /\ turn' = [turn EXCEPT !.at = "written"] /\ Quiet
        /\ UNCHANGED <<scenario, workerVars, calls, workerWaiters, workerFailure,
                       stdinEnded, stdout>>
        /\ stdin' = IF exit = "running" THEN Append(stdin, turn.job) ELSE stdin
    BY DEF WriteJob
  <1>2. /\ turn = [at |-> turn.at, job |-> turn.job] /\ turn.job \in Jobs
        /\ stdin \in Seq(Jobs) /\ ~stdinEnded
    BY <1>1 DEF IpcInv, DispatcherTypes, WorkerTypes
  <1>3. turn'.at = "written" /\ turn'.job = turn.job
    BY <1>1, <1>2
  <1>4. UNCHANGED attributorVars /\ UNCHANGED faults
    BY <1>1, Silent
  <1>5. /\ \A i \in DOMAIN stdin' : \/ i \in DOMAIN stdin /\ stdin'[i] = stdin[i]
                                    \/ stdin'[i] = turn.job
        /\ exit = "running" => Len(stdin) + 1 \in DOMAIN stdin'
                               /\ stdin'[Len(stdin) + 1] = turn.job
        /\ \A i \in DOMAIN stdin : i \in DOMAIN stdin' /\ stdin'[i] = stdin[i]
    BY <1>1, <1>2, Appended
  <1>6. \A j \in Jobs : Expected(j)' => Expected(j)
    <2> TAKE j \in Jobs
    <2>1. Piped(j)' => Piped(j) \/ turn.job = j
      BY <1>5 DEF Piped
    <2>. QED  BY <1>1, <1>3, <2>1 DEF Expected, Queued, workerVars
  <1>7. exit' \in {"running", "0"} => \A j \in Jobs : Going(j) => Going(j)'
    <2> SUFFICES ASSUME exit' \in {"running", "0"}, NEW j \in Jobs, Going(j)
                 PROVE  Going(j)'
      OBVIOUS
    <2>1. exit = "running"
      BY <1>1, <1>2 DEF IpcInv, ExitTrue, workerVars
    <2>2. Sending(j) \/ Piped(j) => Piped(j)'
      BY <1>5, <2>1 DEF Sending, Piped
    <2>. QED  BY <1>1, <2>2 DEF Going, Underway, Queued, Held, workerVars
  <1>8. Mirrored => \A u \in Workers : Followed(u)'
    <2>1. JobsKept
      BY <1>4 DEF JobsKept, attributorVars
    <2>. QED  BY <1>1, <1>4, <2>1, StaysFollowed DEF Mirrored, workerVars, attributorVars
  <1>9. SameCalls /\ exit' = exit
    BY <1>1 DEF SameCalls, workerVars
  <1>. QED  BY <1>1, <1>3, <1>4, <1>6, <1>7, <1>8, <1>9, QuietFollows

LEMMA DispatcherQuietFollows ==
    ASSUME IpcInv, AttributorTypes, Observe(emitted'),
           OnResponse \/ OnStdinError \/ OnClose \/ ClientLeaves
    PROVE  Follows
  <1>1. /\ Quiet /\ turn.at = "loop" /\ UNCHANGED <<turn, workerVars, stdin>>
    BY DEF OnResponse, OnStdinError, OnClose, ClientLeaves
  <1>2. UNCHANGED attributorVars /\ UNCHANGED faults
    BY <1>1, Silent
  <1>3. SameCalls
    <2>1. ASSUME Fail PROVE SameCalls
      BY <2>1, FailedCalls DEF IpcInv
    <2>2. ASSUME NEW job \in workerWaiters, NEW answer,
                 calls' = [calls EXCEPT ![job].ended = Outcome(job, answer)]
          PROVE  SameCalls
      <3>1. job \in DOMAIN calls
        BY DEF IpcInv, DispatcherTypes
      <3>2. PICK ending \in {"resolved", "rejected"} : ending = Outcome(job, answer)
        BY DEF Outcome
      <3>. QED  BY <2>2, <3>1, <3>2, EndingCalls DEF IpcInv
    <2>3. calls' = calls => SameCalls
      BY DEF SameCalls
    <2>. QED  BY <2>1, <2>2, <2>3 DEF OnResponse, OnStdinError, OnClose, ClientLeaves
  <1>4. \A j \in Jobs : (Expected(j)' => Expected(j)) /\ (Going(j) => Going(j)')
    BY <1>1 DEF Expected, Going, Underway, Sending, Piped, Queued, Held, workerVars
  <1>5. Mirrored => \A u \in Workers : Followed(u)'
    <2>1. JobsKept
      BY <1>2 DEF JobsKept, attributorVars
    <2>. QED  BY <1>1, <1>2, <1>3, <2>1, StaysFollowed
              DEF Mirrored, workerVars, attributorVars, SameCalls
  <1>6. exit' = exit
    BY <1>1 DEF workerVars
  <1>. QED  BY <1>1, <1>2, <1>3, <1>4, <1>5, <1>6, QuietFollows

(* The worker's silent steps. *)
LEMMA QuietWorkerFollows ==
    ASSUME IpcInv, AttributorTypes, InWorker, Quiet, Observe(emitted'),
           \A j \in Jobs : Expected(j)' => Expected(j),
           Mirrored => \A u \in Workers : Followed(u)',
           Clean /\ exit' \in {"running", "0"} =>
              \A j \in Jobs : Going(j) => Going(j)' \/ ipcJobs[j].finished
    PROVE  Follows
  <1>1. /\ UNCHANGED attributorVars /\ UNCHANGED faults /\ UNCHANGED turn /\ SameCalls
        /\ exit = "running"
    BY Silent DEF InWorker, dispatcherVars, SameCalls
  <1>. QED  BY <1>1, QuietFollows

LEMMA QuietReaderFollows ==
    ASSUME IpcInv, AttributorTypes, Observe(emitted'), SetGate \/ Exit
    PROVE  Follows
  <1>1. /\ InWorker /\ Quiet /\ UNCHANGED <<stdin, queue, pool>>
        /\ \/ reader' = reader
           \/ /\ reader.at \in {"releasing", "cancellation lost"}
              /\ reader'.at \in {"reading", "raised"}
    <2>1. CASE SetGate
      BY <2>1 DEF SetGate
    <2>2. CASE Exit
      BY <2>2 DEF Exit
    <2>. QED  BY <2>1, <2>2
  <1>2. UNCHANGED <<turn, calls>> /\ UNCHANGED attributorVars /\ UNCHANGED faults
    BY <1>1, Silent DEF InWorker, dispatcherVars
  <1>3. \A j \in Jobs : (Expected(j)' => Expected(j)) /\ (Going(j) => Going(j)')
    BY <1>1, <1>2 DEF Expected, Going, Underway, Sending, Piped, Queued, Held
  <1>4. Mirrored => \A u \in Workers : Followed(u)'
    <2>1. JobsKept
      BY <1>2 DEF JobsKept, attributorVars
    <2>. QED  BY <1>1, <1>2, <2>1, StaysFollowed DEF Mirrored, attributorVars
  <1>. QED  BY <1>1, <1>3, <1>4, QuietWorkerFollows

LEMMA ReadMessageFollows ==
    ASSUME IpcInv, AttributorTypes, Observe(emitted'), ReadMessage
    PROVE  Follows
  <1> DEFINE sent == Submissions(Head(stdin))
  <1>1. /\ InWorker /\ Quiet /\ reader.at = "reading" /\ stdin # <<>>
        /\ stdin' = Tail(stdin) /\ queue' = queue \o sent
        /\ reader' = IF scenario # "worker-cancel" THEN reader
                     ELSE [at |-> IF Odd(Head(stdin)) THEN "cancelling" ELSE "releasing",
                           job |-> Head(stdin)]
        /\ UNCHANGED pool
    BY DEF ReadMessage
  <1>2. UNCHANGED <<turn, calls>> /\ UNCHANGED attributorVars /\ UNCHANGED faults
    BY <1>1, Silent DEF InWorker, dispatcherVars
  <1>3. stdin \in Seq(Jobs) /\ queue \in Seq(Items)
    BY DEF IpcInv, WorkerTypes
  <1>4. /\ 1 \in DOMAIN stdin /\ Head(stdin) = stdin[1] /\ stdin[1] \in Jobs
        /\ \A i \in DOMAIN stdin' : i + 1 \in DOMAIN stdin /\ stdin'[i] = stdin[i + 1]
        /\ \A i \in DOMAIN stdin : i = 1 \/ \E k \in DOMAIN stdin' : stdin'[k] = stdin[i]
    <2>1. /\ 1 \in DOMAIN stdin /\ Head(stdin) = stdin[1] /\ stdin[1] \in Jobs
          /\ \A i \in DOMAIN stdin' : i + 1 \in DOMAIN stdin /\ stdin'[i] = stdin[i + 1]
      BY <1>1, <1>3, Behead
    <2>2. ASSUME NEW i \in DOMAIN stdin, i # 1
          PROVE  i - 1 \in DOMAIN stdin' /\ stdin'[i - 1] = stdin[i]
      BY <1>1, <1>3, <2>2
    <2>. QED  BY <2>1, <2>2
  <1>5. PICK m \in Jobs : m = stdin[1]
    BY <1>4
  <1>6. Piped(m) /\ sent = Submissions(m)
    BY <1>4, <1>5 DEF Piped
  <1> HIDE DEF sent
  <1>7. /\ sent \in Seq(Items)
        /\ \A i \in DOMAIN sent : sent[i].kind = "job" => sent[i] = Item("job", m)
        /\ \E i \in DOMAIN sent : sent[i] = Item("job", m)
    <2>1. /\ Item("gate", m) \in Items /\ Item("gate", m).kind = "gate"
          /\ Item("job", m) \in Items /\ Item("job", m).kind = "job"
      BY DEF Item, Items
    <2>2. CASE scenario = "worker-cancel"
      <3>1. sent = <<Item("gate", m), Item("job", m)>>
        BY <1>6, <2>2 DEF Submissions
      <3>2. /\ sent \in Seq(Items) /\ DOMAIN sent = {1, 2}
            /\ sent[1] = Item("gate", m) /\ sent[2] = Item("job", m)
        BY <2>1, <3>1, OneOrTwo
      <3>. QED  BY <2>1, <3>2
    <2>3. CASE scenario # "worker-cancel"
      <3>1. sent = <<Item("job", m)>>
        BY <1>6, <2>3 DEF Submissions
      <3>2. sent \in Seq(Items) /\ DOMAIN sent = {1} /\ sent[1] = Item("job", m)
        BY <2>1, <3>1, OneOrTwo
      <3>. QED  BY <3>2
    <2>. QED  BY <2>2, <2>3
  <1>8. /\ \A i \in DOMAIN queue : i \in DOMAIN queue' /\ queue'[i] = queue[i]
        /\ \A i \in DOMAIN queue' \ DOMAIN queue :
              i - Len(queue) \in DOMAIN sent /\ queue'[i] = sent[i - Len(queue)]
    BY <1>1, <1>3, <1>7, Concatenated
  <1>9. Queued(m)'
    <2>1. PICK i \in DOMAIN sent : sent[i] = Item("job", m)
      BY <1>7
    <2>2. Len(queue) + i \in DOMAIN queue' /\ queue'[Len(queue) + i] = sent[i]
      BY <1>1, <1>3, <1>7
    <2>. QED  BY <2>1, <2>2 DEF Queued
  <1>10. \A j \in Jobs : Expected(j)' => Expected(j)
    <2> TAKE j \in Jobs
    <2>1. Item("job", j).kind = "job" /\ (j # m => Item("job", j) # Item("job", m))
      BY DEF Item
    <2>2. Queued(j)' => Queued(j) \/ j = m
      BY <1>7, <1>8, <2>1 DEF Queued
    <2>3. Piped(j)' => Piped(j)
      BY <1>4 DEF Piped
    <2>4. reader'.at # "cancelled"
      BY <1>1
    <2>. QED  BY <1>1, <1>2, <1>6, <2>2, <2>3, <2>4 DEF Expected
  <1>11. \A j \in Jobs : Going(j) => Going(j)'
    <2> TAKE j \in Jobs
    <2>1. Piped(j) => Piped(j)' \/ Queued(j)'
      BY <1>4, <1>5, <1>9 DEF Piped
    <2>2. Queued(j) => Queued(j)'
      BY <1>8 DEF Queued
    <2>. QED  BY <1>1, <1>2, <2>1, <2>2 DEF Going, Underway, Sending, Held
  <1>12. Mirrored => \A u \in Workers : Followed(u)'
    <2>1. JobsKept
      BY <1>2 DEF JobsKept, attributorVars
    <2>. QED  BY <1>1, <1>2, <2>1, StaysFollowed DEF Mirrored, attributorVars
  <1>. QED  BY <1>1, <1>10, <1>11, <1>12, QuietWorkerFollows

LEMMA CancelQueuedFollows ==
    ASSUME IpcInv, AttributorTypes, Observe(emitted'), CancelQueued
    PROVE  Follows
  <1>1. /\ InWorker /\ Quiet /\ reader.at = "cancelling" /\ UNCHANGED <<stdin, pool>>
        /\ reader.job \in Jobs
        /\ reader = [at |-> reader.at, job |-> reader.job] /\ queue \in Seq(Items)
    BY DEF CancelQueued, IpcInv, DispatcherTypes, WorkerTypes
  <1>2. UNCHANGED <<turn, calls>> /\ UNCHANGED attributorVars /\ UNCHANGED faults
    BY <1>1, Silent DEF InWorker, dispatcherVars
  <1>3. PICK m \in Jobs : m = reader.job
    BY <1>1
  <1>4. /\ reader'.job = m
        /\ \/ /\ reader'.at = "cancelled"
              /\ \E i \in DOMAIN queue : queue[i] = Item("job", m) /\ queue' = Cut(queue, i)
           \/ reader'.at = "cancellation lost" /\ UNCHANGED queue
    <2>1. CASE reader' = [reader EXCEPT !.at = "cancellation lost"] /\ UNCHANGED queue
      <3>1. reader' = [at |-> "cancellation lost", job |-> m]
        BY <1>1, <1>3, <2>1
      <3>2. reader'.job = m
        BY <3>1
      <3>3. reader'.at = "cancellation lost"
        BY <3>1
      <3>. QED  BY <2>1, <3>2, <3>3
    <2>2. ASSUME NEW i \in DOMAIN queue, queue[i] = Item("job", reader.job),
                 queue' = SubSeq(queue, 1, i - 1) \o SubSeq(queue, i + 1, Len(queue)),
                 reader' = [reader EXCEPT !.at = "cancelled"]
          PROVE  /\ reader'.job = m /\ reader'.at = "cancelled"
                 /\ queue[i] = Item("job", m) /\ queue' = Cut(queue, i)
      <3>1. reader' = [at |-> "cancelled", job |-> m]
        BY <1>1, <1>3, <2>2
      <3>. QED  BY <1>3, <2>2, <3>1 DEF Cut
    <2>. QED  BY <2>1, <2>2 DEF CancelQueued
  <1>5. \A j \in Jobs : /\ Queued(j)' => Queued(j)
                        /\ Queued(j) => Queued(j)' \/ (j = m /\ reader'.at = "cancelled")
    <2> TAKE j \in Jobs
    <2>1. ASSUME NEW i \in DOMAIN queue, queue[i] = Item("job", m), queue' = Cut(queue, i)
          PROVE  (Queued(j)' => Queued(j)) /\ (Queued(j) => Queued(j)' \/ j = m)
      <3>1. \A k \in DOMAIN queue' : \E n \in DOMAIN queue : queue'[k] = queue[n]
        BY <1>1, <2>1, Without
      <3>2. \A n \in DOMAIN queue : n = i \/ \E k \in DOMAIN queue' : queue'[k] = queue[n]
        BY <1>1, <2>1, Without
      <3>3. j # m => Item("job", j) # Item("job", m)
        BY DEF Item
      <3>. QED  BY <2>1, <3>1, <3>2, <3>3 DEF Queued
    <2>2. UNCHANGED queue => (Queued(j)' <=> Queued(j))
      BY DEF Queued
    <2>. QED  BY <1>4, <2>1, <2>2
  <1>6. \A j \in Jobs : Expected(j)' => Expected(j)
    <2> TAKE j \in Jobs
    <2>1. reader'.at = "cancelled" => Queued(m)
      BY <1>4 DEF Queued
    <2>. QED  BY <1>1, <1>2, <1>4, <1>5, <2>1 DEF Expected, Piped
  <1>7. \A j \in Jobs : Going(j) => Going(j)'
    BY <1>1, <1>2, <1>4, <1>5 DEF Going, Underway, Sending, Piped, Held
  <1>8. Mirrored => \A u \in Workers : Followed(u)'
    <2>1. JobsKept
      BY <1>2 DEF JobsKept, attributorVars
    <2>. QED  BY <1>1, <1>2, <2>1, StaysFollowed DEF Mirrored, attributorVars
  <1>. QED  BY <1>1, <1>6, <1>7, <1>8, QuietWorkerFollows

LEMMA QuietThreadFollows ==
    ASSUME IpcInv, AttributorTypes, NEW t \in Workers, InWorker, Quiet, Observe(emitted'),
           UNCHANGED <<stdin, reader>>, \A u \in Workers \ {t} : pool'[u] = pool[u],
           \A j \in Jobs : Queued(j)' => Queued(j),
           pool'[t].at = "job" => Queued(pool'[t].job),
           Mirrored => Followed(t)',
           Clean => \A j \in Jobs :
              Queued(j) \/ (pool[t].at \in Working /\ pool[t].job = j) =>
                 Underway(j)' \/ ipcJobs[j].finished
    PROVE  Follows
  <1>1. UNCHANGED <<turn, calls>> /\ UNCHANGED attributorVars /\ UNCHANGED faults
    BY Silent DEF InWorker, dispatcherVars
  <1>2. \A j \in Jobs : Expected(j)' => Expected(j)
    <2> TAKE j \in Jobs
    <2>1. ASSUME NEW u \in Workers, pool'[u].at = "job", pool'[u].job = j
          PROVE  Expected(j)
      <3>1. CASE u = t
        BY <2>1, <3>1 DEF Expected
      <3>2. CASE u # t
        BY <2>1, <3>2 DEF Expected
      <3>. QED  BY <3>1, <3>2
    <2>. QED  BY <1>1, <2>1 DEF Expected, Piped
  <1>3. Mirrored => \A u \in Workers : Followed(u)'
    <2>1. JobsKept
      BY <1>1 DEF JobsKept, attributorVars
    <2>2. Mirrored => \A u \in Workers \ {t} : Followed(u)'
      BY <1>1, <2>1, StaysFollowed DEF Mirrored, attributorVars
    <2>. QED  BY <2>2
  <1>4. ASSUME Clean, NEW j \in Jobs, Going(j)
        PROVE  Going(j)' \/ ipcJobs[j].finished
    <2>1. ASSUME NEW u \in Workers, u # t, pool[u].at \in Working, pool[u].job = j
          PROVE  Held(j)'
      BY <2>1 DEF Held
    <2>2. CASE Held(j) \/ Queued(j)
      BY <1>4, <2>1, <2>2 DEF Going, Held, Underway
    <2>3. CASE Sending(j) \/ Piped(j) \/ (reader.at = "cancelled" /\ reader.job = j)
      BY <1>1, <2>3 DEF Going, Underway, Sending, Piped
    <2>. QED  BY <1>4, <2>2, <2>3 DEF Going, Underway
  <1>. QED  BY <1>2, <1>3, <1>4, QuietWorkerFollows

LEMMA TakeFollows ==
    ASSUME IpcInv, AttributorTypes, NEW t \in Workers, Observe(emitted'), Take(t)
    PROVE  Follows
  <1> DEFINE item == Head(queue)
             taken == [at |-> item.kind, job |-> item.job, answer |-> "ok"]
  <1>1. /\ InWorker /\ Quiet /\ pool[t].at = "idle" /\ queue # <<>> /\ queue' = Tail(queue)
        /\ UNCHANGED <<stdin, reader>>
        /\ pool' = [pool EXCEPT ![t] = taken]
    BY DEF Take, OnThread
  <1>2. /\ UNCHANGED attributorVars
        /\ queue \in Seq(Items) /\ pool \in [Workers -> Threads]
    BY <1>1, Silent DEF IpcInv, WorkerTypes
  <1>3. /\ 1 \in DOMAIN queue /\ item = queue[1] /\ item \in Items
        /\ \A i \in DOMAIN queue' : i + 1 \in DOMAIN queue /\ queue'[i] = queue[i + 1]
        /\ \A i \in DOMAIN queue : i = 1 \/ \E k \in DOMAIN queue' : queue'[k] = queue[i]
    <2>1. /\ 1 \in DOMAIN queue /\ item = queue[1] /\ item \in Items
          /\ \A i \in DOMAIN queue' : i + 1 \in DOMAIN queue /\ queue'[i] = queue[i + 1]
      BY <1>1, <1>2, Behead
    <2>2. ASSUME NEW i \in DOMAIN queue, i # 1
          PROVE  i - 1 \in DOMAIN queue' /\ queue'[i - 1] = queue[i]
      BY <1>1, <1>2, <2>2
    <2>. QED  BY <2>1, <2>2
  <1>4. PICK kind, job : kind = item.kind /\ job = item.job /\ queue[1] = Item(kind, job)
    BY <1>3 DEF Item, Items
  <1>5. /\ kind \in {"gate", "job"} /\ job \in Jobs
        /\ taken = [at |-> kind, job |-> job, answer |-> "ok"] /\ taken \in Threads
    BY <1>3, <1>4 DEF Items, Threads, Working, Answers
  <1> HIDE DEF item, taken
  <1>6. /\ pool'[t].at = kind /\ pool'[t].job = job
        /\ \A u \in Workers \ {t} : pool'[u] = pool[u]
    BY <1>1, <1>2, <1>5
  <1>7. \A j \in Jobs : Queued(j)' => Queued(j)
    BY <1>3 DEF Queued
  <1>8. kind = "job" => Queued(job)
    BY <1>3, <1>4 DEF Queued
  <1>9. Mirrored => Followed(t)'
    <2>1. Mirrored => ipcActive'[t] = NoJob
      BY <1>1, <1>2 DEF Mirrored, Followed, attributorVars
    <2>. QED  BY <1>5, <1>6, <2>1 DEF Followed
  <1>10. ASSUME NEW j \in Jobs, Queued(j) PROVE Underway(j)'
    <2>1. PICK i \in DOMAIN queue : queue[i] = Item("job", j)
      BY <1>10 DEF Queued
    <2>2. CASE i = 1
      <3>1. kind = "job" /\ job = j
        BY <1>4, <2>1, <2>2 DEF Item
      <3>2. Held(j)'
        BY <1>6, <3>1 DEF Held, Working
      <3>. QED  BY <3>2 DEF Underway
    <2>3. CASE i # 1
      <3>1. Queued(j)'
        BY <1>3, <2>1, <2>3 DEF Queued
      <3>. QED  BY <3>1 DEF Underway
    <2>. QED  BY <2>2, <2>3
  <1>11. pool[t].at \notin Working
    BY <1>1 DEF Working
  <1>. QED  BY <1>1, <1>6, <1>7, <1>8, <1>9, <1>10, <1>11, QuietThreadFollows

(* A thread puts its job or its gate down, or stays where it is. *)
LEMMA IdleFollows ==
    ASSUME IpcInv, AttributorTypes, NEW t \in Workers, Observe(emitted'),
           PassGate(t) \/ (Answer(t) /\ Idle(t))
    PROVE  Follows
  <1>1. /\ InWorker /\ Quiet /\ pool' = [pool EXCEPT ![t] = NoOne]
        /\ UNCHANGED <<stdin, reader, queue>> /\ pool[t].at \in {"gate", "answering"}
    BY DEF PassGate, Answer, OnThread, Idle
  <1>2. UNCHANGED attributorVars /\ pool \in [Workers -> Threads]
    BY <1>1, Silent DEF IpcInv, WorkerTypes
  <1>3. pool'[t].at = "idle" /\ \A u \in Workers \ {t} : pool'[u] = pool[u]
    BY <1>1, <1>2 DEF NoOne
  <1>4. \A j \in Jobs : Queued(j)' <=> Queued(j)
    BY <1>1 DEF Queued
  <1>5. Mirrored => Followed(t)'
    <2>1. Mirrored => ipcActive'[t] = NoJob
      BY <1>1, <1>2 DEF Mirrored, Followed, attributorVars
    <2>. QED  BY <1>3, <2>1 DEF Followed
  <1>6. ASSUME Clean, pool[t].at \in Working PROVE ipcJobs[pool[t].job].finished
    BY <1>1, <1>6 DEF Clean, Mirrored, Followed, Working
  <1>. QED  BY <1>1, <1>3, <1>4, <1>5, <1>6, QuietThreadFollows DEF Underway

(* A job that cannot be answered keeps its thread. *)
LEMMA UnansweredFollows ==
    ASSUME IpcInv, AttributorTypes, NEW t \in Workers, Observe(emitted'),
           Answer(t), At(t, "unanswered")
    PROVE  Follows
  <1>1. /\ InWorker /\ Quiet /\ pool[t].at = "answering"
        /\ UNCHANGED <<stdin, reader, queue>>
    BY DEF Answer, OnThread
  <1>2. UNCHANGED attributorVars /\ pool \in [Workers -> Threads]
    BY <1>1, Silent DEF IpcInv, WorkerTypes
  <1>3. /\ pool'[t].at = "unanswered" /\ pool'[t].job = pool[t].job
        /\ \A u \in Workers \ {t} : pool'[u] = pool[u]
    BY <1>2, AtPlace
  <1>4. \A j \in Jobs : Queued(j)' <=> Queued(j)
    BY <1>1 DEF Queued
  <1>5. Mirrored => Followed(t)'
    <2>1. Mirrored => Followed(t)
      BY DEF Mirrored
    <2>. QED  BY <1>1, <1>2, <1>3, <2>1 DEF Followed, attributorVars
  <1>6. Held(pool[t].job)'
    BY <1>3 DEF Held, Working
  <1>. QED  BY <1>1, <1>3, <1>4, <1>5, <1>6, QuietThreadFollows DEF Underway

LEMMA DyingFollows ==
    ASSUME IpcInv, AttributorTypes, NEW t \in Workers, Observe(emitted'),
           \/ Crash(t) \/ DieOfTask(t)
           \/ LeaveJob(t) /\ scenario = "worker-fatal"
    PROVE  Follows
  <1>1. /\ InWorker /\ Quiet /\ UNCHANGED <<stdin, reader, queue>>
        /\ \/ UNCHANGED pool
           \/ pool[t].at = "performed" /\ At(t, "raised")
    BY DEF Crash, DieOfTask, LeaveJob, OnThread
  <1>2. UNCHANGED <<attributorVars, faults, calls>> /\ pool \in [Workers -> Threads]
    BY <1>1, Silent DEF IpcInv, WorkerTypes, InWorker, dispatcherVars
  <1>3. CASE UNCHANGED pool
    <2>1. Mirrored => \A u \in Workers : Followed(u)'
      <3>1. JobsKept
        BY <1>2 DEF JobsKept, attributorVars
      <3>. QED  BY <1>2, <1>3, <3>1, StaysFollowed DEF Mirrored, attributorVars
    <2>2. UNCHANGED turn
      BY <1>1 DEF InWorker, dispatcherVars
    <2>3. \A j \in Jobs : (Expected(j)' => Expected(j)) /\ (Going(j) => Going(j)')
      BY <1>1, <1>3, <2>2 DEF Expected, Going, Underway, Sending, Piped, Queued, Held
    <2>. QED  BY <1>1, <2>1, <2>3, QuietWorkerFollows
  <1>4. CASE pool[t].at = "performed" /\ At(t, "raised")
    <2>1. /\ pool'[t].at = "raised" /\ pool'[t].job = pool[t].job
          /\ \A u \in Workers \ {t} : pool'[u] = pool[u]
      BY <1>2, <1>4, AtPlace
    <2>2. \A j \in Jobs : Queued(j)' <=> Queued(j)
      BY <1>1 DEF Queued
    <2>3. pool[t].job \in Jobs /\ Held(pool[t].job)'
      BY <1>4, <2>1, HeldJobs DEF Held, Working
    <2>4. Mirrored => Followed(t)'
      <3>1. Mirrored => ipcActive'[t] # NoJob
        BY <1>2, <1>4, <2>3, IpcAssumption DEF Mirrored, Followed, attributorVars
      <3>. QED  BY <2>1, <3>1 DEF Followed
    <2>. QED  BY <1>1, <2>1, <2>2, <2>3, <2>4, QuietThreadFollows DEF Underway
  <1>. QED  BY <1>1, <1>3, <1>4

-----------------------------------------------------------------------------
(* The steps that leave evidence.  The context of a call is a mapped one. *)
LEMMA Contexts ==
    ASSUME IpcInv, NEW job \in DOMAIN calls
    PROVE  calls[job].context \in Nat \ {0} /\ calls[job].context \in Mapped
  <1>1. Cardinality(Jobs) \in Nat
    BY IpcAssumption, FS_CardinalityType
  <1>2. calls[job].context \in 1 .. Cardinality(Jobs)
    BY DEF IpcInv, DispatcherTypes
  <1>. QED  BY <1>1, <1>2, AttributionAssumption

LEMMA TypesKept ==
    ASSUME AttributorTypes, NEW kind \in Kinds \cup {"EFFECT"}, NEW tid \in Tids,
           NEW context \in Nat, NEW job, NEW e,
           Reads(e, kind, tid, context, job), Observe(e),
           DOMAIN calls \subseteq DOMAIN calls', UNCHANGED calls \/ kind # "IPC_SEND",
           kind \in Kinds \ {"JS_CONTEXT"} => job \in DOMAIN calls /\ job \in Jobs,
           kind = "IPC_ENTER" => tid \in Workers
    PROVE  AttributorTypes'
  <1> USE DEF Reads, Kinds
  <1>1. CASE UNCHANGED attributorVars
    BY <1>1 DEF AttributorTypes, attributorVars
  <1>2. CASE Unusable(e)
    BY <1>2, ByKind DEF AttributorTypes
  <1>3. CASE OnContext(e)
    BY <1>3 DEF AttributorTypes, OnContext, EnterContext
  <1>4. CASE OnIpcSend(e)
    BY <1>4 DEF AttributorTypes, OnIpcSend, Put
  <1>5. CASE OnIpcCancel(e)
    BY <1>5 DEF AttributorTypes, OnIpcCancel, Pending
  <1>6. CASE OnIpcEnter(e)
    BY <1>6 DEF AttributorTypes, OnIpcEnter, Pending
  <1>7. CASE OnIpcLeave(e)
    BY <1>7 DEF AttributorTypes, OnIpcLeave, Pending
  <1>8. CASE OnEffect(e)
    BY <1>8 DEF AttributorTypes, OnEffect
  <1>. QED  BY <1>1, <1>2, <1>3, <1>4, <1>5, <1>6, <1>7, <1>8, ByKind

(* The dispatcher goes in or out of the context of a call. *)
LEMMA MainContextFollows ==
    ASSUME IpcInv, AttributorTypes, NEW context \in Nat,
           emitted' = Marker("JS_CONTEXT", Main, context, 0), Observe(emitted'),
           context \in Mapped \cup {0},
           UNCHANGED <<pool, stdin, queue, reader, exit, faults>>,
           DOMAIN calls \subseteq DOMAIN calls',
           \A j \in DOMAIN calls : calls'[j].context = calls[j].context,
           turn.at \in {"loop", "written"}, turn'.at \in {"loop", "waiter set"},
           turn'.at = "waiter set" => /\ calls'[turn'.job].context = context
                                      /\ turn'.job \notin DOMAIN calls
    PROVE  Follows
  <1>1. Reads(emitted', "JS_CONTEXT", Main, context, NoJob) /\ ~Unusable(emitted')
    BY DEF Reads, Marker, Unusable
  <1>2. OnContext(emitted') /\ Main \in Tids /\ Main \notin Workers
    BY <1>1, ByKind, AttributionAssumption, IpcAssumption DEF Reads
  <1>3. AttributorTypes'
    <2>1. PICK kind \in Kinds \cup {"EFFECT"} : kind = "JS_CONTEXT"
      BY DEF Kinds
    <2>2. /\ Reads(emitted', kind, Main, context, NoJob)
          /\ kind \notin Kinds \ {"JS_CONTEXT"} /\ kind # "IPC_SEND" /\ kind # "IPC_ENTER"
      BY <1>1, <2>1
    <2>. QED  BY <1>2, <2>2, TypesKept
  <1>4. /\ UNCHANGED <<operations, activeWork, ipcJobs, ipcActive, bound>>
        /\ errors' = errors
        /\ state'[Main].request = context
        /\ \A u \in Workers : state'[u] = state[u]
    <2>1. UnknownRequest(emitted') = {} /\ ipcActive[Main] = NoJob
      BY <1>1, <1>2 DEF UnknownRequest, Refusal, Reads, AttributorTypes
    <2>2. \A u \in Workers : u \in Tids /\ u # Main
      BY <1>2, AttributionAssumption
    <2>. QED  BY <1>1, <1>2, <2>1, <2>2
              DEF OnContext, EnterContext, Reads, AttributorTypes, Refusal
  <1>5. \A j \in Jobs : Expected(j)' => Expected(j)
    BY DEF Expected, Piped, Queued
  <1>6. \A j \in Jobs : Going(j) => Going(j)'
    BY DEF Going, Underway, Sending, Piped, Queued, Held
  <1>7. ASSUME Mirrored PROVE Mirrored'
    <2>1. \A u \in Workers : Followed(u)'
      <3>1. JobsKept
        BY <1>4 DEF JobsKept
      <3>. QED  BY <1>4, <1>7, <3>1, StaysFollowed DEF Mirrored
    <2>2. \A j \in DOMAIN ipcJobs' : ipcJobs'[j].request = calls'[j].context
      BY <1>4, <1>7 DEF Mirrored, AttributorTypes
    <2>3. turn'.at # "loop" => /\ state'[Main].request = calls'[turn'.job].context
                               /\ turn'.job \notin DOMAIN ipcJobs'
      BY <1>4 DEF AttributorTypes
    <2>4. \A j \in Jobs : Expected(j)' => Fresh(j)'
      BY <1>4, <1>5, <1>7 DEF Mirrored, Fresh
    <2>5. BoundToOwner'
      BY <1>4, <1>7 DEF Mirrored, BoundToOwner
    <2>. QED  BY <2>1, <2>2, <2>3, <2>4, <2>5 DEF Mirrored
  <1>8. ASSUME Clean PROVE Clean'
    <2>1. DOMAIN ipcJobs \subseteq Jobs
      BY DEF AttributorTypes, IpcInv, DispatcherTypes
    <2>. QED  BY <1>4, <1>6, <1>7, <1>8, <2>1 DEF Clean
  <1>. QED  BY <1>3, <1>4, <1>7, <1>8 DEF Follows

LEMMA TurnFollows ==
    ASSUME IpcInv, AttributorTypes, Observe(emitted'),
           EndTurn \/ \E slot \in Slots : Call(slot)
    PROVE  Follows
  <1>1. CASE EndTurn
    <2>1. /\ turn.at = "written" /\ turn'.at = "loop"
          /\ emitted' = Marker("JS_CONTEXT", Main, 0, 0)
          /\ UNCHANGED <<pool, stdin, queue, reader, exit, faults, calls>>
      BY <1>1 DEF EndTurn, workerVars
    <2>. QED  BY <2>1, MainContextFollows
  <1>2. ASSUME NEW slot \in Slots, Call(slot) PROVE Follows
    <2> DEFINE job == CHOOSE j \in Jobs \ DOMAIN calls : TRUE
               context == Cardinality(DOMAIN calls) + 1
    <2>1. /\ turn.at = "loop" /\ Jobs # DOMAIN calls
          /\ calls' = [j \in DOMAIN calls \cup {job} |->
                IF j = job THEN [slot |-> slot, context |-> context, ended |-> "no"]
                ELSE calls[j]]
          /\ turn' = [at |-> "waiter set", job |-> job]
          /\ emitted' = Marker("JS_CONTEXT", Main, context, 0)
          /\ UNCHANGED <<pool, stdin, queue, reader, exit, faults>>
      BY <1>2 DEF Call, workerVars
    <2>2. job \notin DOMAIN calls /\ job \in Jobs
      BY <2>1 DEF IpcInv, DispatcherTypes
    <2> HIDE DEF job, context
    <2>3. job \in DOMAIN calls' /\ calls'[job].context = context
      BY <2>1
    <2>4. context \in Nat /\ context \in Mapped
      <3>1. IpcInv'
        BY <1>2, CallIpc
      <3>2. calls'[job].context \in 1 .. Cardinality(Jobs)
        BY <2>3, <3>1 DEF IpcInv, DispatcherTypes
      <3>3. Cardinality(Jobs) \in Nat
        BY IpcAssumption, FS_CardinalityType
      <3>. QED  BY <2>3, <3>2, <3>3, AttributionAssumption
    <2>5. /\ DOMAIN calls \subseteq DOMAIN calls'
          /\ \A j \in DOMAIN calls : calls'[j].context = calls[j].context
      BY <2>1, <2>2
    <2>. QED  BY <2>1, <2>2, <2>3, <2>4, <2>5, MainContextFollows
  <1>. QED  BY <1>1, <1>2

LEMMA MarkSendFollows ==
    ASSUME IpcInv, AttributorTypes, Observe(emitted'), MarkSend
    PROVE  Follows
  <1> DEFINE send == Job("IPC_SEND", Main, turn.job)
  <1>1. /\ turn.at = "waiter set" /\ turn.job \in DOMAIN calls /\ turn.job \in Jobs
        /\ turn = [at |-> turn.at, job |-> turn.job]
        /\ UNCHANGED <<pool, stdin, queue, reader, exit>>
    BY DEF MarkSend, workerVars, IpcInv, DispatcherTypes
  <1>2. PICK job \in Jobs : job = turn.job /\ job \in DOMAIN calls
    BY <1>1
  <1>3. PICK context \in Nat \ {0} : context = calls[job].context /\ context \in Mapped
    BY <1>2, Contexts
  <1>4. \/ /\ Emits(send) \/ EmitFails(send, {"partial"})
           /\ turn' = [at |-> "marked", job |-> job]
           /\ UNCHANGED calls
        \/ /\ EmitFails(send, {"failed"})
           /\ turn' = [at |-> "written", job |-> job]
           /\ calls' = [calls EXCEPT ![job].ended = "rejected"]
    BY <1>1, <1>2 DEF MarkSend
  <1>5. Writes(send, "IPC_SEND", Main, context, job)
    BY <1>2, <1>3, JobMarker
  <1> HIDE DEF send
  <1>6. SameCalls
    <2>1. calls' = calls => SameCalls
      BY DEF SameCalls
    <2>2. calls' = [calls EXCEPT ![job].ended = "rejected"] => SameCalls
      BY <1>2, EndingCalls DEF IpcInv
    <2>. QED  BY <1>4, <2>1, <2>2
  <1>7. PICK kind \in Kinds : kind = "IPC_SEND"
    BY DEF Kinds
  <1>8. Main \in Tids /\ Main \notin Workers
    BY AttributionAssumption, IpcAssumption
  <1>9. faults \subseteq faults' /\ errors \subseteq errors'
    BY <1>4, ByKind DEF Emits, EmitFails
  <1>10. CASE Emits(send) /\ turn' = [at |-> "marked", job |-> job] /\ UNCHANGED calls
    <2>1. /\ Reads(emitted', kind, Main, context, job)
          /\ \/ errors' # {} /\ faults' # {}
             \/ ~Unusable(emitted') /\ faults' = faults
      BY <1>5, <1>7, <1>10, Sent
    <2>2. AttributorTypes'
      BY <1>2, <1>7, <1>8, <1>10, <2>1, TypesKept
    <2>3. CASE errors' # {} /\ faults' # {}
      BY <1>9, <2>2, <2>3, RefusedFollows
    <2>4. CASE ~Unusable(emitted') /\ faults' = faults
      <3>1. OnIpcSend(emitted')
        BY <1>7, <2>1, <2>4, ByKind DEF Reads
      <3>2. ASSUME Mirrored
            PROVE  /\ ipcJobs' = Put(ipcJobs, job, [request |-> context, started |-> FALSE,
                                                    finished |-> FALSE])
                   /\ job \notin DOMAIN ipcJobs /\ errors' = errors
                   /\ UNCHANGED <<state, ipcActive, bound>>
        <4>1. job \notin DOMAIN ipcJobs /\ state[Main].request = context
          BY <1>1, <1>2, <1>3, <3>2 DEF Mirrored
        <4>2. state[Main] # NoContext
          <5>1. NoContext.request = 0
            BY DEF NoContext
          <5>. QED  BY <1>3, <4>1, <5>1
        <4>3. UnknownRequest(emitted') = {}
          BY <1>3, <2>1 DEF UnknownRequest, Refusal, Reads
        <4>. QED  BY <2>1, <3>1, <4>1, <4>2, <4>3 DEF OnIpcSend, Reads, Refusal
      <3>3. \A j \in Jobs \ {job} : Expected(j)' => Expected(j)
        BY <1>1, <1>10 DEF Expected, Piped, Queued
      <3>4. \A j \in Jobs : Going(j) => Going(j)'
        BY <1>1, <1>2, <1>10 DEF Going, Underway, Sending, Piped, Queued, Held
      <3>5. ASSUME Mirrored PROVE Mirrored'
        <4>1. /\ Fresh(job)' /\ JobsKept /\ ipcJobs'[job].request = context
              /\ DOMAIN ipcJobs' = DOMAIN ipcJobs \cup {job}
              /\ \A j \in DOMAIN ipcJobs : ipcJobs'[j] = ipcJobs[j]
          BY <3>2, <3>5 DEF Put, Fresh, JobsKept
        <4>2. \A u \in Workers : Followed(u)'
          BY <1>1, <1>9, <1>10, <3>2, <3>5, <4>1, StaysFollowed DEF Mirrored
        <4>3. \A j \in Jobs : Expected(j)' => Fresh(j)'
          BY <3>3, <3>5, <4>1 DEF Mirrored, Fresh
        <4>4. \A j \in DOMAIN ipcJobs' : ipcJobs'[j].request = calls'[j].context
          BY <1>3, <1>10, <3>5, <4>1 DEF Mirrored
        <4>5. turn'.at = "marked" /\ turn'.job = job
          BY <1>10
        <4>6. state'[Main].request = calls'[turn'.job].context
          BY <1>1, <1>2, <1>10, <3>2, <3>5, <4>5 DEF Mirrored
        <4>7. BoundToOwner'
          BY <3>2, <3>5 DEF Mirrored, BoundToOwner
        <4>. QED  BY <4>2, <4>3, <4>4, <4>5, <4>6, <4>7 DEF Mirrored
      <3>6. ASSUME Clean PROVE Clean'
        <4>1. Mirrored /\ Mirrored' /\ errors' = {}
          BY <3>2, <3>5, <3>6 DEF Clean
        <4>2. Going(job)'
          BY <1>10 DEF Going, Underway, Sending
        <4>3. DOMAIN ipcJobs \subseteq Jobs
          BY DEF AttributorTypes, IpcInv, DispatcherTypes
        <4>4. \A j \in DOMAIN ipcJobs' : ipcJobs'[j].finished \/ Going(j)' \/ exit \notin {"running", "0"}
          BY <3>2, <3>4, <3>6, <4>1, <4>2, <4>3 DEF Put, Clean
        <4>. QED  BY <1>1, <4>1, <4>4 DEF Clean
      <3>. QED  BY <1>9, <2>2, <3>5, <3>6 DEF Follows
    <2>. QED  BY <2>1, <2>3, <2>4
  <1>11. CASE \/ EmitFails(send, {"partial"})
              \/ EmitFails(send, {"failed"}) /\ turn' = [at |-> "written", job |-> job]
    <2>1. /\ Reads(emitted', kind, Main, context, job) /\ faults' # {}
          /\ \/ errors' # {}
             \/ UNCHANGED attributorVars /\ turn' = [at |-> "written", job |-> job]
      BY <1>5, <1>7, <1>11, NotSent
    <2>2. CASE errors' # {}
      <3>1. Unusable(emitted') /\ emitted'.kind # "NONE"
        BY <1>5, <1>7, <1>11, <2>1, MarkerFacts DEF EmitFails, Unusable, Reads, Kinds
      <3>2. AttributorTypes'
        BY <1>6, <3>1, ByKind DEF AttributorTypes, SameCalls
      <3>. QED  BY <1>9, <2>1, <2>2, <3>1, <3>2, RefusedFollows
    <2>3. CASE UNCHANGED attributorVars /\ turn' = [at |-> "written", job |-> job]
      <3>1. \A j \in Jobs : Expected(j)' => Expected(j)
        BY <1>1, <2>3 DEF Expected, Piped, Queued
      <3>2. Mirrored => \A u \in Workers : Followed(u)'
        <4>1. JobsKept
          BY <2>3 DEF JobsKept, attributorVars
        <4>. QED  BY <1>1, <1>6, <1>9, <2>3, <4>1, StaysFollowed
                  DEF Mirrored, attributorVars, SameCalls
      <3>3. turn'.at = "written" /\ turn'.job = turn.job
        BY <1>2, <2>3
      <3>. QED  BY <1>1, <1>6, <1>9, <2>1, <2>3, <3>1, <3>2, <3>3, UnseenFollows
    <2>. QED  BY <2>1, <2>2, <2>3
  <1>. QED  BY <1>4, <1>10, <1>11

LEMMA JobFinished ==
    ASSUME AttributorTypes, NEW job \in DOMAIN ipcJobs,
           ipcJobs' = [ipcJobs EXCEPT ![job].finished = TRUE]
    PROVE  /\ JobsKept /\ DOMAIN ipcJobs' = DOMAIN ipcJobs /\ ipcJobs'[job].finished
           /\ \A j \in DOMAIN ipcJobs : j # job => ipcJobs'[j] = ipcJobs[j]
  <1> DEFINE Tables == [request : Nat, started : BOOLEAN, finished : BOOLEAN]
  <1>1. ipcJobs[job] \in Tables
    BY DEF AttributorTypes
  <1>2. PICK known \in Tables : known = ipcJobs[job]
    BY <1>1
  <1>3. /\ DOMAIN ipcJobs' = DOMAIN ipcJobs
        /\ ipcJobs'[job] = [known EXCEPT !.finished = TRUE]
        /\ \A j \in DOMAIN ipcJobs : j # job => ipcJobs'[j] = ipcJobs[j]
    BY <1>2 DEF AttributorTypes
  <1>4. ipcJobs'[job].request = ipcJobs[job].request /\ ipcJobs'[job].finished
    BY <1>2, <1>3
  <1>. QED  BY <1>3, <1>4 DEF JobsKept

LEMMA JobStarted ==
    ASSUME AttributorTypes, NEW job \in DOMAIN ipcJobs,
           ipcJobs' = [ipcJobs EXCEPT ![job].started = TRUE]
    PROVE  /\ JobsKept /\ DOMAIN ipcJobs' = DOMAIN ipcJobs
           /\ \A j \in DOMAIN ipcJobs : j # job => ipcJobs'[j] = ipcJobs[j]
  <1> DEFINE Tables == [request : Nat, started : BOOLEAN, finished : BOOLEAN]
  <1>1. ipcJobs[job] \in Tables
    BY DEF AttributorTypes
  <1>2. PICK known \in Tables : known = ipcJobs[job]
    BY <1>1
  <1>3. /\ DOMAIN ipcJobs' = DOMAIN ipcJobs
        /\ ipcJobs'[job] = [known EXCEPT !.started = TRUE]
        /\ \A j \in DOMAIN ipcJobs : j # job => ipcJobs'[j] = ipcJobs[j]
    BY <1>2 DEF AttributorTypes
  <1>4. /\ ipcJobs'[job].request = ipcJobs[job].request
        /\ ipcJobs'[job].finished = ipcJobs[job].finished
    BY <1>2, <1>3
  <1>. QED  BY <1>3, <1>4 DEF JobsKept

LEMMA AnnounceCancelFollows ==
    ASSUME IpcInv, AttributorTypes, Observe(emitted'), AnnounceCancel
    PROVE  Follows
  <1> DEFINE cancel == Job("IPC_CANCEL", Reader, reader.job)
  <1>1. /\ InWorker /\ reader.at = "cancelled" /\ UNCHANGED <<stdin, queue, pool, exit>>
        /\ reader.job \in DOMAIN calls /\ reader.job \in cancelled
        /\ reader = [at |-> reader.at, job |-> reader.job]
    BY DEF AnnounceCancel, IpcInv, WorkerTypes
  <1>2. /\ UNCHANGED <<turn, calls>> /\ SameCalls
    BY <1>1 DEF InWorker, dispatcherVars, SameCalls
  <1>3. PICK job \in Jobs : job = reader.job /\ job \in DOMAIN calls /\ job \in cancelled
    BY <1>1 DEF IpcInv, DispatcherTypes
  <1>4. PICK context \in Nat \ {0} : context = calls[job].context /\ context \in Mapped
    BY <1>3, Contexts
  <1>5. /\ Emits(cancel) \/ EmitFails(cancel, {"partial", "failed"})
        /\ reader'.at \in {"releasing", "raised"}
    <2>1. CASE Emits(cancel) /\ reader' = [reader EXCEPT !.at = "releasing"]
      BY <1>1, <2>1
    <2>2. CASE EmitFails(cancel, {"partial", "failed"}) /\ reader' = [reader EXCEPT !.at = "raised"]
      BY <1>1, <2>2
    <2>. QED  BY <2>1, <2>2 DEF AnnounceCancel
  <1>6. Writes(cancel, "IPC_CANCEL", Reader, context, job)
    BY <1>3, <1>4, JobMarker
  <1> HIDE DEF cancel
  <1>7. PICK kind \in Kinds : kind = "IPC_CANCEL"
    BY DEF Kinds
  <1>8. faults \subseteq faults' /\ errors \subseteq errors'
    BY <1>5, ByKind DEF Emits, EmitFails
  <1>9. ~Underway(job)
    BY <1>3 DEF IpcInv, OncePlaced, OnItsWay
  <1>10. \A j \in Jobs : /\ Expected(j)' => Expected(j) /\ j # job
                         /\ Going(j) /\ j # job => Going(j)'
    <2>1. \A u \in Workers : pool[u].at = "job" => pool[u].job # job
      BY <1>9 DEF Underway, Held, Working
    <2>2. ~Sending(job) /\ ~Piped(job) /\ ~Queued(job)
      BY <1>9 DEF Underway
    <2>3. \A j \in Jobs : Expected(j)' => Expected(j) /\ j # job
      BY <1>1, <1>2, <1>5, <2>1, <2>2 DEF Expected, Piped, Queued, Sending
    <2>4. \A j \in Jobs : Going(j) /\ j # job => Going(j)'
      BY <1>1, <1>2, <1>3 DEF Going, Underway, Sending, Piped, Queued, Held
    <2>. QED  BY <2>3, <2>4
  <1>11. Reader \in Tids
    BY AttributionAssumption
  <1>12. CASE Emits(cancel)
    <2>1. /\ Reads(emitted', kind, Reader, context, job)
          /\ \/ errors' # {} /\ faults' # {}
             \/ ~Unusable(emitted') /\ faults' = faults
      BY <1>6, <1>7, <1>12, Sent
    <2>2. AttributorTypes'
      <3>1. kind # "IPC_SEND" /\ kind # "IPC_ENTER"
        BY <1>7
      <3>. QED  BY <1>2, <1>3, <1>11, <2>1, <3>1, TypesKept
    <2>3. CASE errors' # {} /\ faults' # {}
      BY <1>8, <2>2, <2>3, RefusedFollows
    <2>4. CASE ~Unusable(emitted') /\ faults' = faults
      <3>1. OnIpcCancel(emitted')
        BY <1>7, <2>1, <2>4, ByKind DEF Reads
      <3>2. ASSUME Mirrored
            PROVE  /\ ipcJobs' = [ipcJobs EXCEPT ![job].finished = TRUE]
                   /\ job \in DOMAIN ipcJobs /\ errors' = errors
                   /\ UNCHANGED <<state, ipcActive, bound>>
        <4>1. Fresh(job) /\ ipcJobs[job].request = context
          BY <1>1, <1>3, <1>4, <3>2 DEF Mirrored, Expected, Fresh
        <4>2. Pending(emitted') /\ UnknownRequest(emitted') = {}
          BY <1>4, <2>1, <4>1 DEF Pending, Fresh, UnknownRequest, Refusal, Reads
        <4>. QED  BY <2>1, <3>1, <4>1, <4>2 DEF OnIpcCancel, Reads, Refusal, Fresh
      <3>3. ASSUME Mirrored
            PROVE  /\ JobsKept /\ DOMAIN ipcJobs' = DOMAIN ipcJobs /\ ipcJobs'[job].finished
                   /\ \A j \in DOMAIN ipcJobs : j # job => ipcJobs'[j] = ipcJobs[j]
        BY <3>2, <3>3, JobFinished
      <3>4. ASSUME Mirrored PROVE Mirrored'
        <4>1. \A u \in Workers : Followed(u)'
          BY <1>1, <1>2, <1>8, <3>2, <3>3, <3>4, StaysFollowed DEF Mirrored
        <4>2. \A j \in Jobs : Expected(j)' => Fresh(j)'
          BY <1>10, <3>3, <3>4 DEF Mirrored, Fresh
        <4>3. \A j \in DOMAIN ipcJobs' : ipcJobs'[j].request = calls'[j].context
          BY <1>2, <3>3, <3>4 DEF Mirrored, JobsKept
        <4>4. BoundToOwner'
          BY <3>2, <3>4 DEF Mirrored, BoundToOwner
        <4>5. /\ turn'.at # "loop" => state'[Main].request = calls'[turn'.job].context
              /\ turn'.at = "waiter set" => turn'.job \notin DOMAIN ipcJobs'
          BY <1>2, <3>2, <3>3, <3>4 DEF Mirrored
        <4>. QED  BY <4>1, <4>2, <4>3, <4>4, <4>5 DEF Mirrored
      <3>5. ASSUME Clean PROVE Clean'
        <4>1. Mirrored /\ Mirrored' /\ errors' = {}
          BY <3>2, <3>4, <3>5 DEF Clean
        <4>2. DOMAIN ipcJobs \subseteq Jobs
          BY DEF AttributorTypes, IpcInv, DispatcherTypes
        <4>. QED  BY <1>1, <1>10, <3>3, <3>5, <4>1, <4>2 DEF Clean
      <3>. QED  BY <1>8, <2>2, <3>4, <3>5 DEF Follows
    <2>. QED  BY <2>1, <2>3, <2>4
  <1>13. CASE EmitFails(cancel, {"partial", "failed"})
    <2>1. /\ Reads(emitted', kind, Reader, context, job) /\ faults' # {}
          /\ errors' # {} \/ UNCHANGED attributorVars
      BY <1>6, <1>7, <1>13, NotSent
    <2>2. CASE errors' # {}
      <3>1. kind # "IPC_SEND" /\ kind # "IPC_ENTER"
        BY <1>7
      <3>2. AttributorTypes'
        BY <1>2, <1>3, <1>11, <2>1, <3>1, TypesKept
      <3>. QED  BY <1>8, <2>1, <2>2, <3>2, RefusedFollows
    <2>3. CASE UNCHANGED attributorVars
      <3>1. Mirrored => \A u \in Workers : Followed(u)'
        <4>1. JobsKept
          BY <2>3 DEF JobsKept, attributorVars
        <4>. QED  BY <1>1, <1>2, <1>8, <2>3, <4>1, StaysFollowed DEF Mirrored, attributorVars
      <3>. QED  BY <1>2, <1>8, <1>10, <2>1, <2>3, <3>1, UnseenFollows
    <2>. QED  BY <2>1, <2>2, <2>3
  <1>. QED  BY <1>5, <1>12, <1>13

-----------------------------------------------------------------------------
(* A thread goes on with its job, and the attributor's record of it, if any, *)
(* with the thread.                                                          *)
GoesOn(t) ==
    /\ InWorker /\ UNCHANGED <<stdin, queue, reader, exit>>
    /\ pool[t].at \in Working
    /\ pool'[t].at \in Working \ {"job"} /\ pool'[t].job = pool[t].job
    /\ \A u \in Workers \ {t} : pool'[u] = pool[u]
OnlyThread(t) ==
    /\ JobsKept /\ DOMAIN ipcJobs' = DOMAIN ipcJobs
    /\ \A j \in DOMAIN ipcJobs : j # pool[t].job => ipcJobs'[j] = ipcJobs[j]
    /\ \A u \in Tids \ {t} : ipcActive'[u] = ipcActive[u] /\ state'[u] = state[u]

LEMMA ThreadFollows ==
    ASSUME IpcInv, AttributorTypes, NEW t \in Workers, GoesOn(t), AttributorTypes',
           errors \subseteq errors', faults \subseteq faults',
           \/ errors' # {} /\ faults' # {}
           \/ Mirrored => /\ OnlyThread(t) /\ Followed(t)' /\ BoundToOwner'
                          /\ errors' = errors \/ faults' # {}
    PROVE  Follows
  <1>1. CASE errors' # {} /\ faults' # {}
    BY <1>1, RefusedFollows
  <1>2. ASSUME Mirrored => /\ OnlyThread(t) /\ Followed(t)' /\ BoundToOwner'
                           /\ errors' = errors \/ faults' # {}
        PROVE  Follows
    <2>1. PICK job \in Jobs : job = pool[t].job
      BY HeldJobs DEF GoesOn
    <2>2. /\ job \in DOMAIN calls /\ Held(job) /\ Underway(job) /\ job \notin cancelled
          /\ \A u \in Workers \ {t} : pool[u].at \in Working => pool[u].job # job
      BY <2>1, HeldJobs DEF GoesOn
    <2>3. UNCHANGED <<turn, calls>> /\ SameCalls
      BY DEF GoesOn, InWorker, dispatcherVars, SameCalls
    <2>4. \A j \in Jobs : Expected(j)' => Expected(j) /\ j # job
      <3>1. ~Sending(job) /\ ~Piped(job) /\ ~Queued(job)
        BY <2>2 DEF IpcInv, OncePlaced, OnItsWay
      <3>2. reader.at = "cancelled" => reader.job # job
        BY <2>2 DEF IpcInv, WorkerTypes
      <3>3. \A u \in Workers : pool'[u].at = "job" => /\ pool[u].at = "job" /\ u # t
                                                      /\ pool'[u].job = pool[u].job
                                                      /\ pool[u].job # job
        BY <2>2 DEF GoesOn, Working
      <3>. QED  BY <2>3, <3>1, <3>2, <3>3 DEF GoesOn, Expected, Piped, Queued, Sending
    <2>5. \A j \in Jobs : Going(j) => Going(j)'
      <3>1. \A u \in Workers : pool[u].at \in Working =>
               pool'[u].at \in Working /\ pool'[u].job = pool[u].job
        BY DEF GoesOn
      <3>. QED  BY <2>3, <3>1 DEF GoesOn, Going, Underway, Sending, Piped, Queued, Held
    <2>6. ASSUME Mirrored PROVE Mirrored'
      <3>1. OnlyThread(t) /\ Followed(t)' /\ BoundToOwner'
        BY <1>2, <2>6
      <3>2. \A u \in Workers : u \in Tids
        BY AttributionAssumption
      <3>3. \A u \in Workers \ {t} : Followed(u)'
        BY <2>3, <2>6, <3>1, <3>2, StaysFollowed DEF Mirrored, OnlyThread, GoesOn
      <3>4. \A j \in Jobs : Expected(j)' => Fresh(j)'
        BY <2>1, <2>4, <2>6, <3>1 DEF Mirrored, Fresh, OnlyThread
      <3>5. \A j \in DOMAIN ipcJobs' : ipcJobs'[j].request = calls'[j].context
        BY <2>3, <2>6, <3>1 DEF Mirrored, JobsKept, OnlyThread
      <3>6. Main \in Tids /\ Main # t
        BY AttributionAssumption, IpcAssumption
      <3>7. /\ turn'.at # "loop" => state'[Main].request = calls'[turn'.job].context
            /\ turn'.at = "waiter set" => turn'.job \notin DOMAIN ipcJobs'
        BY <2>3, <2>6, <3>1, <3>6 DEF Mirrored, OnlyThread
      <3>. QED  BY <3>1, <3>3, <3>4, <3>5, <3>7 DEF Mirrored
    <2>7. ASSUME Clean, faults' = {} PROVE Clean'
      <3>1. Mirrored /\ Mirrored' /\ errors' = {} /\ OnlyThread(t)
        BY <1>2, <2>6, <2>7 DEF Clean
      <3>2. DOMAIN ipcJobs \subseteq Jobs
        BY DEF AttributorTypes, IpcInv, DispatcherTypes
      <3>3. \A j \in DOMAIN ipcJobs : ipcJobs[j].finished => ipcJobs'[j].finished
        BY <3>1 DEF OnlyThread, JobsKept
      <3>. QED  BY <2>5, <2>7, <3>1, <3>2, <3>3 DEF Clean, OnlyThread, GoesOn
    <2>. QED  BY <2>6, <2>7 DEF Follows
  <1>. QED  BY <1>1, <1>2

(* A marker of the thread that does not arrive whole makes it raise: all     *)
(* that is left to show is what the attributor does with one that arrives.   *)
LEMMA MarkOrRaiseFollows ==
    ASSUME IpcInv, AttributorTypes, NEW t \in Workers, Observe(emitted'), InWorker,
           UNCHANGED <<stdin, reader>>, pool[t].at \in Working,
           NEW place \in Working \ {"job"}, NEW kind \in Kinds \ {"IPC_SEND"},
           NEW context \in Nat, NEW job, NEW marker,
           Writes(marker, kind, t, context, job), MarkOrRaise(t, marker, place),
           kind # "JS_CONTEXT" => job \in DOMAIN calls /\ job \in Jobs,
           /\ Mirrored /\ ~Unusable(emitted') /\ Reads(emitted', kind, t, context, job)
           /\ pool'[t].at = place /\ pool'[t].job = pool[t].job /\ UNCHANGED calls
           => OnlyThread(t) /\ Followed(t)' /\ BoundToOwner' /\ errors' = errors
    PROVE  Follows
  <1>1. /\ UNCHANGED <<stdout, queue, exit>>
        /\ \/ Emits(marker) /\ At(t, place)
           \/ EmitFails(marker, {"partial", "failed"}) /\ At(t, "raised")
    BY DEF MarkOrRaise
  <1>2. /\ pool \in [Workers -> Threads] /\ t \in Tids /\ UNCHANGED calls
    BY AttributionAssumption DEF IpcInv, WorkerTypes, InWorker, dispatcherVars
  <1>3. faults \subseteq faults' /\ errors \subseteq errors'
    BY <1>1, ByKind DEF Emits, EmitFails
  <1>4. ASSUME Reads(emitted', kind, t, context, job) PROVE AttributorTypes'
    BY <1>2, <1>4, TypesKept
  <1>5. CASE Emits(marker) /\ At(t, place)
    <2>1. /\ Reads(emitted', kind, t, context, job)
          /\ \/ errors' # {} /\ faults' # {}
             \/ ~Unusable(emitted') /\ faults' = faults
      BY <1>5, Sent
    <2>2. /\ pool'[t].at = place /\ pool'[t].job = pool[t].job
          /\ \A u \in Workers \ {t} : pool'[u] = pool[u]
      BY <1>2, <1>5, AtPlace
    <2>3. GoesOn(t)
      BY <1>1, <2>2 DEF GoesOn
    <2>. QED  BY <1>2, <1>3, <1>4, <2>1, <2>2, <2>3, ThreadFollows
  <1>6. CASE EmitFails(marker, {"partial", "failed"}) /\ At(t, "raised")
    <2>1. /\ Reads(emitted', kind, t, context, job) /\ faults' # {}
          /\ errors' # {} \/ (UNCHANGED attributorVars /\ "unseen" \in faults')
      BY <1>6, NotSent
    <2>2. /\ pool'[t].at = "raised" /\ pool'[t].job = pool[t].job
          /\ \A u \in Workers \ {t} : pool'[u] = pool[u]
      BY <1>2, <1>6, AtPlace
    <2>3. GoesOn(t)
      BY <1>1, <2>2 DEF GoesOn, Working
    <2>4. ASSUME UNCHANGED attributorVars, "unseen" \in faults', Mirrored
          PROVE  OnlyThread(t) /\ Followed(t)' /\ BoundToOwner'
      BY <2>2, <2>4 DEF OnlyThread, JobsKept, Followed, BoundToOwner, Mirrored, attributorVars
    <2>. QED  BY <1>3, <1>4, <2>1, <2>3, <2>4, ThreadFollows
  <1>. QED  BY <1>1, <1>5, <1>6

(* The job of a thread at work, and its context. *)
LEMMA AtWork ==
    ASSUME IpcInv, NEW t \in Workers, pool[t].at \in Working
    PROVE  \E job \in Jobs, context \in Nat \ {0} :
              /\ job = pool[t].job /\ job \in DOMAIN calls /\ job # NoJob
              /\ context = calls[job].context /\ context \in Mapped
  <1>1. pool[t].job \in Jobs /\ pool[t].job \in DOMAIN calls
    BY HeldJobs
  <1>. QED  BY <1>1, Contexts, IpcAssumption

LEMMA EnterJobFollows ==
    ASSUME IpcInv, AttributorTypes, NEW t \in Workers, Observe(emitted'), EnterJob(t)
    PROVE  Follows
  <1>1. /\ InWorker /\ UNCHANGED <<stdin, reader>> /\ pool[t].at = "job"
        /\ pool[t].at \in Working
        /\ MarkOrRaise(t, Job("IPC_ENTER", t, pool[t].job), "entered")
    BY DEF EnterJob, OnThread, Working
  <1>2. PICK job \in Jobs, context \in Nat \ {0} :
           /\ job = pool[t].job /\ job \in DOMAIN calls /\ job # NoJob
           /\ context = calls[job].context /\ context \in Mapped
    BY <1>1, AtWork
  <1>3. PICK kind \in Kinds \ {"IPC_SEND"}, place \in Working \ {"job"} :
           kind = "IPC_ENTER" /\ place = "entered"
    BY DEF Kinds, Working
  <1> DEFINE enter == Job("IPC_ENTER", t, job)
  <1>4. Writes(enter, kind, t, context, job) /\ MarkOrRaise(t, enter, place)
    BY <1>1, <1>2, <1>3, JobMarker
  <1> HIDE DEF enter
  <1>5. ASSUME Mirrored, ~Unusable(emitted'), Reads(emitted', kind, t, context, job),
               pool'[t].at = place, pool'[t].job = pool[t].job, UNCHANGED calls
        PROVE  OnlyThread(t) /\ Followed(t)' /\ BoundToOwner' /\ errors' = errors
    <2>1. OnIpcEnter(emitted')
      BY <1>3, <1>5, ByKind DEF Reads
    <2>2. Fresh(job) /\ ipcJobs[job].request = context /\ ipcActive[t] = NoJob
      BY <1>1, <1>2, <1>5 DEF Mirrored, Expected, Followed, Fresh
    <2>3. Pending(emitted') /\ UnknownRequest(emitted') = {}
      BY <1>2, <1>5, <2>2 DEF Pending, Fresh, UnknownRequest, Refusal, Reads
    <2>4. /\ ipcJobs' = [ipcJobs EXCEPT ![job].started = TRUE]
          /\ ipcActive' = [ipcActive EXCEPT ![t] = job]
          /\ state' = [state EXCEPT ![t] = [request |-> context, operation |-> 0,
                                            origin |-> "ipc_worker", job |-> job]]
          /\ errors' = errors /\ bound' = bound
      BY <1>5, <2>1, <2>2, <2>3 DEF OnIpcEnter, Reads, Refusal
    <2>5. t \in Tids /\ job \in DOMAIN ipcJobs
      BY <2>2, AttributionAssumption DEF Fresh
    <2>6. /\ JobsKept /\ DOMAIN ipcJobs' = DOMAIN ipcJobs
          /\ \A j \in DOMAIN ipcJobs : j # job => ipcJobs'[j] = ipcJobs[j]
      BY <2>4, <2>5, JobStarted
    <2>7. OnlyThread(t)
      BY <1>2, <2>4, <2>6 DEF OnlyThread, AttributorTypes
    <2>8. Followed(t)'
      <3>1. ipcActive'[t] = job /\ state'[t].request = context
        BY <2>4, <2>5 DEF AttributorTypes
      <3>. QED  BY <1>2, <1>3, <1>5, <2>5, <2>6, <3>1 DEF Followed
    <2>. QED  BY <1>5, <2>4, <2>7, <2>8 DEF Mirrored, BoundToOwner
  <1>. QED  BY <1>1, <1>2, <1>3, <1>4, <1>5, MarkOrRaiseFollows

LEMMA LeaveJobFollows ==
    ASSUME IpcInv, AttributorTypes, NEW t \in Workers, Observe(emitted'),
           LeaveJob(t), scenario # "worker-fatal"
    PROVE  Follows
  <1>1. /\ InWorker /\ UNCHANGED <<stdin, reader>> /\ pool[t].at = "performed"
        /\ pool[t].at \in Working
        /\ MarkOrRaise(t, Job("IPC_LEAVE", t, pool[t].job), "left")
    BY DEF LeaveJob, OnThread, Working
  <1>2. PICK job \in Jobs, context \in Nat \ {0} :
           /\ job = pool[t].job /\ job \in DOMAIN calls /\ job # NoJob
           /\ context = calls[job].context /\ context \in Mapped
    BY <1>1, AtWork
  <1>3. PICK kind \in Kinds \ {"IPC_SEND"}, place \in Working \ {"job"} :
           kind = "IPC_LEAVE" /\ place = "left"
    BY DEF Kinds, Working
  <1> DEFINE leave == Job("IPC_LEAVE", t, job)
  <1>4. Writes(leave, kind, t, context, job) /\ MarkOrRaise(t, leave, place)
    BY <1>1, <1>2, <1>3, JobMarker
  <1> HIDE DEF leave
  <1>5. ASSUME Mirrored, ~Unusable(emitted'), Reads(emitted', kind, t, context, job),
               pool'[t].at = place, pool'[t].job = pool[t].job, UNCHANGED calls
        PROVE  OnlyThread(t) /\ Followed(t)' /\ BoundToOwner' /\ errors' = errors
    <2>1. OnIpcLeave(emitted')
      BY <1>3, <1>5, ByKind DEF Reads
    <2>2. job \in DOMAIN ipcJobs /\ ipcActive[t] = job /\ state[t].request = context
      BY <1>1, <1>2, <1>5 DEF Mirrored, Followed
    <2>3. UnknownRequest(emitted') = {}
      BY <1>2, <1>5 DEF UnknownRequest, Refusal, Reads
    <2>4. /\ ipcJobs' = [ipcJobs EXCEPT ![job].finished = TRUE]
          /\ ipcActive' = [ipcActive EXCEPT ![t] = NoJob]
          /\ state' = [state EXCEPT ![t] = [request |-> 0, operation |-> 0,
                                            origin |-> "async_context", job |-> NoJob]]
          /\ errors' = errors /\ bound' = bound
      BY <1>5, <2>1, <2>2, <2>3 DEF OnIpcLeave, Reads, Refusal
    <2>5. /\ JobsKept /\ DOMAIN ipcJobs' = DOMAIN ipcJobs /\ ipcJobs'[job].finished
          /\ \A j \in DOMAIN ipcJobs : j # job => ipcJobs'[j] = ipcJobs[j]
      BY <2>2, <2>4, JobFinished
    <2>6. OnlyThread(t)
      BY <1>2, <2>4, <2>5 DEF OnlyThread, AttributorTypes
    <2>7. Followed(t)'
      <3>1. t \in Tids
        BY AttributionAssumption
      <3>2. ipcActive'[t] = NoJob
        BY <2>4, <3>1 DEF AttributorTypes
      <3>. QED  BY <1>2, <1>3, <1>5, <2>2, <2>5, <3>2 DEF Followed
    <2>. QED  BY <1>5, <2>4, <2>6, <2>7 DEF Mirrored, BoundToOwner
  <1>. QED  BY <1>1, <1>2, <1>3, <1>4, <1>5, MarkOrRaiseFollows

LEMMA ClearContextFollows ==
    ASSUME IpcInv, AttributorTypes, NEW t \in Workers, Observe(emitted'), ClearContext(t)
    PROVE  Follows
  <1> DEFINE clear == Marker("JS_CONTEXT", t, 0, 0)
  <1>1. /\ InWorker /\ UNCHANGED <<stdin, reader>> /\ pool[t].at = "left"
        /\ pool[t].at \in Working
    BY DEF ClearContext, OnThread, Working
  <1>2. PICK kind \in Kinds \ {"IPC_SEND"} : kind = "JS_CONTEXT"
    BY DEF Kinds
  <1>3. PICK place \in Working \ {"job"} :
           place \in {"background", "answering"} /\ MarkOrRaise(t, clear, place)
    BY DEF ClearContext, Working
  <1>4. Writes(clear, kind, t, 0, NoJob)
    BY <1>2, JobMarker
  <1> HIDE DEF clear
  <1>5. ASSUME Mirrored, ~Unusable(emitted'), Reads(emitted', kind, t, 0, NoJob),
               pool'[t].at = place, pool'[t].job = pool[t].job, UNCHANGED calls
        PROVE  OnlyThread(t) /\ Followed(t)' /\ BoundToOwner' /\ errors' = errors
    <2>1. OnContext(emitted') /\ t \in Tids
      BY <1>2, <1>5, ByKind, AttributionAssumption DEF Reads
    <2>2. /\ ipcActive[t] = NoJob /\ pool[t].job \in DOMAIN ipcJobs
          /\ ipcJobs[pool[t].job].finished
      BY <1>1, <1>5 DEF Mirrored, Followed
    <2>3. /\ errors' = errors /\ UNCHANGED <<ipcJobs, ipcActive, bound>>
          /\ state'[t].request = 0 /\ \A u \in Tids \ {t} : state'[u] = state[u]
      BY <1>5, <2>1, <2>2
         DEF OnContext, EnterContext, UnknownRequest, Refusal, Reads, AttributorTypes
    <2>4. OnlyThread(t)
      BY <2>3 DEF OnlyThread, JobsKept
    <2>5. Followed(t)'
      BY <1>3, <1>5, <2>2, <2>3 DEF Followed
    <2>. QED  BY <1>5, <2>3, <2>4, <2>5 DEF Mirrored, BoundToOwner
  <1>. QED  BY <1>1, <1>2, <1>3, <1>4, <1>5, MarkOrRaiseFollows

(* The effects of a thread, for the job it is in and for nobody. *)
LEMMA EffectFollows ==
    ASSUME IpcInv, AttributorTypes, NEW t \in Workers, Observe(emitted'), GoesOn(t),
           UNCHANGED faults, NEW context \in Nat, emitted' = Effect(t, context),
           Mirrored => state[t].request = context,
           Mirrored /\ UNCHANGED <<ipcJobs, ipcActive, state, calls>> => Followed(t)'
    PROVE  Follows
  <1>1. /\ Reads(emitted', "EFFECT", t, context, NoJob) /\ ~Unusable(emitted')
        /\ t \in Tids /\ UNCHANGED calls
    BY AttributionAssumption
       DEF Effect, Reads, Marker, Unusable, GoesOn, InWorker, dispatcherVars
  <1>2. OnEffect(emitted')
    BY <1>1, ByKind DEF Reads
  <1>3. /\ UNCHANGED <<state, operations, activeWork, ipcJobs, ipcActive, errors>>
        /\ bound' = bound \cup {<<context, state[t].request>>}
    BY <1>1, <1>2 DEF OnEffect, Reads
  <1>4. AttributorTypes'
    BY <1>1, <1>3 DEF AttributorTypes
  <1>5. ASSUME Mirrored PROVE OnlyThread(t) /\ Followed(t)' /\ BoundToOwner'
    <2>1. OnlyThread(t)
      BY <1>3 DEF OnlyThread, JobsKept
    <2>2. Followed(t)'
      BY <1>1, <1>3, <1>5
    <2>3. bound' = bound \cup {<<context, context>>}
      BY <1>3, <1>5
    <2>4. \A row \in bound : row[2] = row[1]
      BY <1>5 DEF Mirrored, BoundToOwner
    <2>. QED  BY <2>1, <2>2, <2>3, <2>4 DEF BoundToOwner
  <1>. QED  BY <1>3, <1>4, <1>5, ThreadFollows

LEMMA PerformFollows ==
    ASSUME IpcInv, AttributorTypes, NEW t \in Workers, Observe(emitted'), Perform(t)
    PROVE  Follows
  <1>1. /\ InWorker /\ UNCHANGED <<stdin, reader, queue, exit, faults>>
        /\ pool[t].at = "entered" /\ pool[t].at \in Working
        /\ emitted' = Effect(t, calls[pool[t].job].context)
        /\ pool \in [Workers -> Threads]
    BY DEF Perform, OnThread, Working, IpcInv, WorkerTypes
  <1>2. PICK job \in Jobs, context \in Nat \ {0} :
           /\ job = pool[t].job /\ job \in DOMAIN calls /\ job # NoJob
           /\ context = calls[job].context /\ context \in Mapped
    BY <1>1, AtWork
  <1>3. /\ pool'[t].at \in {"crashing", "performed"} /\ pool'[t].job = job
        /\ \A u \in Workers \ {t} : pool'[u] = pool[u]
    <2>1. ASSUME NEW place \in {"crashing", "performed"}, At(t, place)
          PROVE  /\ pool'[t].at \in {"crashing", "performed"} /\ pool'[t].job = job
                 /\ \A u \in Workers \ {t} : pool'[u] = pool[u]
      BY <1>1, <1>2, <2>1, AtPlace
    <2>2. ASSUME NEW answer,
                 pool' = [pool EXCEPT ![t] = [at |-> "performed", job |-> pool[t].job,
                                              answer |-> answer]]
          PROVE  /\ pool'[t].at \in {"crashing", "performed"} /\ pool'[t].job = job
                 /\ \A u \in Workers \ {t} : pool'[u] = pool[u]
      BY <1>1, <1>2, <2>2
    <2>. QED  BY <2>1, <2>2 DEF Perform
  <1>4. GoesOn(t)
    BY <1>1, <1>2, <1>3 DEF GoesOn, Working
  <1>5. Mirrored => state[t].request = context
    BY <1>1, <1>2 DEF Mirrored, Followed
  <1>6. ASSUME Mirrored, UNCHANGED <<ipcJobs, ipcActive, state, calls>>
        PROVE  Followed(t)'
    <2>1. Followed(t)
      BY <1>6 DEF Mirrored
    <2>. QED  BY <1>1, <1>2, <1>3, <1>6, <2>1 DEF Followed
  <1>7. emitted' = Effect(t, context)
    BY <1>1, <1>2
  <1>. QED  BY <1>1, <1>4, <1>5, <1>6, <1>7, EffectFollows

LEMMA BackgroundFollows ==
    ASSUME IpcInv, AttributorTypes, NEW t \in Workers, Observe(emitted'), Background(t)
    PROVE  Follows
  <1>1. /\ InWorker /\ UNCHANGED <<stdin, reader, queue, exit, faults>>
        /\ pool[t].at = "background" /\ pool[t].at \in Working
        /\ emitted' = Effect(t, 0) /\ pool \in [Workers -> Threads]
    BY DEF Background, OnThread, Working, IpcInv, WorkerTypes
  <1>2. /\ pool'[t].at \in {"answering", "unanswered"} /\ pool'[t].job = pool[t].job
        /\ \A u \in Workers \ {t} : pool'[u] = pool[u]
    <2>1. CASE At(t, "answering")
      BY <1>1, <2>1, AtPlace
    <2>2. CASE At(t, "unanswered")
      BY <1>1, <2>2, AtPlace
    <2>. QED  BY <2>1, <2>2 DEF Background
  <1>3. GoesOn(t)
    BY <1>1, <1>2 DEF GoesOn, Working
  <1>4. Mirrored => state[t].request = 0
    BY <1>1 DEF Mirrored, Followed
  <1>5. ASSUME Mirrored, UNCHANGED <<ipcJobs, ipcActive, state, calls>>
        PROVE  Followed(t)'
    <2>1. Followed(t)
      BY <1>5 DEF Mirrored
    <2>. QED  BY <1>1, <1>2, <1>5, <2>1 DEF Followed
  <1>. QED  BY <1>1, <1>3, <1>4, <1>5, EffectFollows

-----------------------------------------------------------------------------
LEMMA FollowsStep ==
    ASSUME IpcInv, AttributorTypes, IpcNext, Observe(emitted')
    PROVE  Follows
  <1>1. ASSUME NEW t \in Workers, ThreadStep(t) PROVE Follows
    <2>1. CASE Answer(t)
      <3>1. Idle(t) \/ At(t, "unanswered")
        BY <2>1 DEF Answer
      <3>. QED  BY <2>1, <3>1, IdleFollows, UnansweredFollows
    <2>. QED  BY <1>1, <2>1, TakeFollows, IdleFollows, DyingFollows, EnterJobFollows,
              PerformFollows, LeaveJobFollows, ClearContextFollows, BackgroundFollows
              DEF ThreadStep
  <1>2. CASE ReaderStep
    BY <1>2, QuietReaderFollows, ReadMessageFollows, CancelQueuedFollows,
       AnnounceCancelFollows DEF ReaderStep
  <1>3. CASE DispatcherStep \/ ClientLeaves
    BY <1>3, MarkSendFollows, WriteJobFollows, TurnFollows, DispatcherQuietFollows
       DEF DispatcherStep
  <1>. QED  BY <1>1, <1>2, <1>3, TurnFollows DEF IpcNext

LEMMA InitAttribution ==
    ASSUME Init
    PROVE  AttributionInv
  <1> USE DEF Init, IpcInit, AttributorInit
  <1>1. DispatcherTypes /\ WorkerTypes
    <2>1. NoOne \in Threads /\ NoOne.at = "idle"
      BY DEF NoOne, Threads, Answers
    <2>. QED  BY <2>1 DEF DispatcherTypes, WorkerTypes, Working
  <1>2. OncePlaced /\ AnswersTrue /\ ResolvedIsDone /\ ExitTrue
    <2>1. \A t \in Workers : pool[t].at = "idle"
      BY DEF NoOne
    <2>2. \A j \in Jobs : ~Underway(j) /\ ~Answered(j)
      BY <2>1 DEF Underway, Sending, Piped, Queued, Held, Answered, Working
    <2>3. OncePlaced
      BY <2>1, <2>2 DEF OncePlaced, Single, OnItsWay, SlotsApart, Working, Underway
    <2>. QED  BY <2>1, <2>3 DEF AnswersTrue, Done, ResolvedIsDone, ExitTrue
  <1>3. AttributorTypes
    BY DEF AttributorTypes
  <1>4. Clean
    <2>1. \A t \in Workers : pool[t].at = "idle" /\ t \in Tids
      BY AttributionAssumption DEF NoOne
    <2>2. \A j \in Jobs : ~Expected(j)
      BY <2>1 DEF Expected, Piped, Queued
    <2>3. \A t \in Workers : Followed(t)
      BY <2>1 DEF Followed
    <2>4. Mirrored
      BY <2>2, <2>3 DEF Mirrored, BoundToOwner
    <2>. QED  BY <2>4 DEF Clean
  <1>. QED  BY <1>1, <1>2, <1>3, <1>4 DEF AttributionInv, IpcInv, Clean

LEMMA NextAttribution ==
    ASSUME AttributionInv, [Next]_vars
    PROVE  AttributionInv'
  <1>1. CASE Next
    <2>1. IpcInv'
      BY <1>1, IpcStep DEF AttributionInv, Next
    <2>2. Follows
      BY <1>1, FollowsStep DEF AttributionInv, Next
    <2>3. AttributorTypes' /\ (Mirrored' \/ errors' # {})
      BY <2>2 DEF Follows, AttributionInv
    <2>4. ASSUME faults' = {} PROVE Clean'
      <3>1. faults = {}
        BY <2>2, <2>4 DEF Follows
      <3>. QED  BY <2>2, <2>4, <3>1 DEF Follows, AttributionInv
    <2>. QED  BY <2>1, <2>3, <2>4 DEF AttributionInv
  <1>2. CASE UNCHANGED vars
    <2> USE <1>2 DEF vars, ipcVars, dispatcherVars, workerVars, attributorVars
    <2>1. IpcInv'
      <3>1. DispatcherTypes' /\ WorkerTypes' /\ AnswersTrue' /\ ResolvedIsDone' /\ ExitTrue'
        BY DEF AttributionInv, IpcInv, DispatcherTypes, WorkerTypes, AnswersTrue, Stands,
               ResolvedIsDone, ExitTrue, FailsOnPurpose, Odd
      <3>2. Single' /\ SlotsApart'
        <4>1. Single /\ SlotsApart
          BY DEF AttributionInv, IpcInv, OncePlaced
        <4>2. Single'
          BY <4>1 DEF Single
        <4>3. \A j : Underway(j)' <=> Underway(j)
          BY DEF Underway, Sending, Piped, Queued, Held
        <4>. QED  BY <4>1, <4>2, <4>3 DEF SlotsApart
      <3>3. ASSUME NEW j \in Jobs PROVE OnItsWay(j)'
        <4>1. OnItsWay(j)
          BY DEF AttributionInv, IpcInv, OncePlaced
        <4>. QED  BY <4>1 DEF OnItsWay, Underway, Sending, Piped, Queued, Held, Answered
      <3>. QED  BY <3>1, <3>2, <3>3 DEF IpcInv, OncePlaced
    <2>2. AttributorTypes' /\ (Mirrored' <=> Mirrored)
      <3>1. AttributorTypes'
        BY DEF AttributionInv, AttributorTypes
      <3>2. \A t \in Workers : Followed(t)' <=> Followed(t)
        BY DEF Followed
      <3>3. \A j \in Jobs : (Expected(j)' <=> Expected(j)) /\ (Fresh(j)' <=> Fresh(j))
        BY DEF Expected, Piped, Queued, Fresh
      <3>4. BoundToOwner' <=> BoundToOwner
        BY DEF BoundToOwner
      <3>. QED  BY <3>1, <3>2, <3>3, <3>4 DEF Mirrored
    <2>3. Clean' <=> Clean
      BY <2>2 DEF Clean, Going, Underway, Sending, Piped, Queued, Held
    <2>. QED  BY <2>1, <2>2, <2>3 DEF AttributionInv
  <1>. QED  BY <1>1, <1>2

(* The jobs and their evidence, in every state that can be reached. *)
THEOREM WorkerAttributionInvariant == Spec => []AttributionInv
  <1>1. Init => AttributionInv
    BY InitAttribution
  <1>2. AttributionInv /\ [Next]_vars => AttributionInv'
    BY NextAttribution
  <1>. QED  BY <1>1, <1>2, PTL DEF Spec

(* A call that resolved has been performed, was to fail or was cancelled;    *)
(* and no job was both cancelled and performed (worker_slot of               *)
(* control-server.mjs, Worker.execute of persistent_worker.py).              *)
THEOREM CallsResolveTruly == Spec => []ResolvedIsDone
  <1>1. AttributionInv => ResolvedIsDone
    BY DEF AttributionInv, IpcInv
  <1>. QED  BY <1>1, WorkerAttributionInvariant, PTL

(* Two threads never work on one slot at a time, whatever was answered,      *)
(* failed or cancelled before (the duplicate check of control-server.mjs).   *)
THEOREM SlotsAreOwned == Spec => []SlotsNotShared
  <1>1. ASSUME AttributionInv PROVE SlotsNotShared
    <2> SUFFICES ASSUME NEW t \in Workers, NEW u \in Workers, t # u,
                        pool[t].at \in {"entered", "performed"},
                        pool[u].at \in {"entered", "performed"},
                        calls[pool[t].job].slot = calls[pool[u].job].slot
                 PROVE  FALSE
      BY DEF SlotsNotShared
    <2>1. IpcInv /\ pool[t].at \in Working /\ pool[u].at \in Working
      BY <1>1 DEF AttributionInv, Working
    <2>2. /\ pool[t].job \in Jobs /\ Underway(pool[t].job)
          /\ pool[u].job \in Jobs /\ Underway(pool[u].job)
          /\ pool[u].job # pool[t].job
      BY <2>1, HeldJobs
    <2>. QED  BY <2>1, <2>2 DEF IpcInv, OncePlaced, SlotsApart
  <1>. QED  BY <1>1, WorkerAttributionInvariant, PTL

(* Rows of an accepted capture name their true owners (attribute.py over the *)
(* IPC markers of both processes).                                           *)
THEOREM AcceptedWorkersAreRight == Spec => []AcceptedIsRight
  <1>1. AttributionInv => AcceptedIsRight
    BY DEF AttributionInv, AcceptedIsRight, Accepted, Mirrored
  <1>. QED  BY <1>1, WorkerAttributionInvariant, PTL

(* No evidence lost and an orderly end: the capture is accepted. *)
THEOREM CleanWorkersAreAccepted == Spec => []CleanIsAccepted
  <1>1. ASSUME AttributionInv PROVE CleanIsAccepted
    <2> SUFFICES ASSUME faults = {}, exit = "0" PROVE Accepted
      BY DEF CleanIsAccepted
    <2>1. /\ IpcInv /\ AttributorTypes /\ Clean
          /\ stdinEnded /\ stdin = <<>> /\ queue = <<>> /\ reader.at = "reading"
          /\ \A t \in Workers : pool[t].at = "idle"
      BY <1>1 DEF AttributionInv, IpcInv, ExitTrue
    <2>2. turn.at = "loop"
      BY <2>1 DEF IpcInv, DispatcherTypes
    <2>3. \A j \in Jobs : ~Going(j)
      BY <2>1, <2>2 DEF Going, Underway, Sending, Piped, Queued, Held, Working
    <2>4. \A j \in DOMAIN ipcJobs : ipcJobs[j].finished
      BY <2>1, <2>3 DEF Clean, AttributorTypes, IpcInv, DispatcherTypes
    <2>5. \A t \in Tids : ipcActive[t] = NoJob
      BY <2>1 DEF Clean, Mirrored, Followed, AttributorTypes
    <2>6. CompleteLifeCycles
      BY <2>1, <2>4, <2>5 DEF CompleteLifeCycles, JobsClosed, AttributorTypes
    <2>. QED  BY <2>1, <2>6 DEF Accepted, Clean
  <1>. QED  BY <1>1, WorkerAttributionInvariant, PTL

(* A worker that is gone with a job unread, queued, entered or abandoned in  *)
(* its transition leaves a capture that is refused, whichever thread or exit *)
(* ended it (check_task_failure, the crash, the reader's exceptions).        *)
THEOREM DeathsAreRefused == Spec => []DeathIsRefused
  <1>1. ASSUME AttributionInv PROVE DeathIsRefused
    <2> SUFFICES ASSUME "unseen" \notin faults, Accepted, NEW j \in Jobs, Unfinished(j)
                 PROVE  FALSE
      BY DEF DeathIsRefused
    <2>1. /\ Mirrored /\ IpcInv /\ \A t \in Tids : ipcActive[t] = NoJob
          /\ \A k \in DOMAIN ipcJobs : ipcJobs[k].finished
      BY <1>1 DEF AttributionInv, Accepted, CompleteLifeCycles, JobsClosed
    <2>2. CASE Expected(j)
      BY <2>1, <2>2 DEF Mirrored, Fresh
    <2>3. ASSUME NEW t \in Workers, pool[t].job = j,
                 pool[t].at \in {"entered", "crashing", "performed", "raised"}
          PROVE  FALSE
      <3>1. j # NoJob
        BY IpcAssumption
      <3>2. Followed(t)
        BY <2>1 DEF Mirrored
      <3>3. ipcActive[t] # NoJob
        BY <2>3, <3>1, <3>2 DEF Followed
      <3>. QED  BY <2>1, <3>3, AttributionAssumption
    <2>. QED  BY <2>2, <2>3 DEF Unfinished, Expected, Piped, Queued
  <1>. QED  BY <1>1, WorkerAttributionInvariant, PTL
=============================================================================
