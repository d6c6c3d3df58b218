----------------------------- MODULE SharedRing -----------------------------
(***************************************************************************)
(* A program that does the I/O of its jobs through an io_uring, the trace  *)
(* of what it did, and the adapter that reads it.                          *)
(*                                                                         *)
(* In mode "shared" it is shared_ring.c: it gathers jobs of many requests  *)
(* into a batch, submits the batch with one io_uring_enter and answers     *)
(* them.  In mode "helper" it is io_uring_probe.c, started for one request,*)
(* which may replace the file behind its descriptor number between         *)
(* preparing the operations and entering the ring.                         *)
(*                                                                         *)
(* The kernel completes the operations of a batch in any order.  The       *)
(* tracer may miss one call; calls may fail, and the program be killed.    *)
(***************************************************************************)
EXTENDS RingAdapter

CONSTANTS Jobs,       \* the number of jobs sent
          Width,      \* BATCH_WIDTH
          Entries,    \* of the submission queue
          MaxFaults   \* bound on what goes wrong

JobOps == <<"write", "read">>   \* the read is of descriptor -1
FileFd == 3
RingFd == 4

ASSUME RingAssumption ==
    Jobs \in Nat \ {0} /\ Width \in Nat \ {0} /\ Width * Len(JobOps) <= Entries

VARIABLES mode, idle, replaces,  \* how the program was started
          sent,       \* jobs written to its input, 1 .. sent
          ended,      \* its input was closed
          taken,      \* jobs read from it
          at, todo,   \* where it is, and the calls it is about to make
          batch,      \* the jobs in hand
          number,     \* the batch counter
          file,       \* what FileFd denotes
          inflight, cq, seen,  \* in the kernel; completed; rows of those seen
          trace, sidecar, native,
          faults, exit,
          answered,
          truth       \* history: the operations the kernel performed

ringVars == <<mode, idle, replaces, sent, ended, taken, at, todo, batch, number, file,
          inflight, cq, seen, trace, sidecar, native, faults, exit, answered, truth>>
started == <<mode, idle, replaces>>
input == <<sent, ended>>
kernel == <<inflight, cq, truth>>
output == <<trace, sidecar, native>>

Opens == IF mode = "shared"
         THEN <<[Call("open") EXCEPT !.fd = FileFd, !.file = "slots"],
                [Call("setup") EXCEPT !.fd = RingFd]>>
         ELSE <<[Call("setup") EXCEPT !.fd = RingFd],
                [Call("open") EXCEPT !.fd = FileFd, !.file = "slots"]>>

RingInit ==
    /\ mode \in {"shared", "helper"} /\ idle \in BOOLEAN /\ replaces \in BOOLEAN
    /\ mode = "shared" => ~replaces
    /\ mode = "helper" => ~idle
    /\ sent = (IF mode = "helper" THEN 1 ELSE 0) /\ ended = (mode = "helper")
    /\ taken = 0 /\ at = "gathering" /\ todo = Opens
    /\ batch = <<>> /\ number = 0 /\ file = NoFile
    /\ inflight = {} /\ cq = <<>> /\ seen = <<>>
    /\ trace = <<>> /\ sidecar = <<>> /\ native = <<>>
    /\ faults = {} /\ exit = "running" /\ answered = {} /\ truth = {}

Running == exit = "running"
Fault(kind) == Cardinality(faults) < MaxFaults /\ kind \notin faults
               /\ faults' = faults \cup {kind}

(* The tracer records a call, or misses it. *)
Recorded(e) == trace' = Append(trace, e) /\ UNCHANGED faults
Missed == Fault("lost") /\ UNCHANGED trace

-----------------------------------------------------------------------------
(* The dispatcher, which closes the input when its client has left. *)

SendJob ==
    /\ ~ended /\ sent < Jobs /\ sent' = sent + 1
    /\ UNCHANGED <<started, ended, taken, at, todo, batch, number, file, kernel, seen,
                   output, faults, exit, answered>>

CloseInput ==
    /\ ~ended /\ ended' = TRUE
    /\ UNCHANGED <<started, sent, taken, at, todo, batch, number, file, kernel, seen,
                   output, faults, exit, answered>>

-----------------------------------------------------------------------------
(* The calls of the program, one after the other. *)

Effects(e) ==
    /\ sidecar' = IF e.call = "write" /\ mode = "shared" THEN sidecar \o e.rows ELSE sidecar
    /\ native' = IF e.call \in Markers THEN Append(native, e) ELSE native
    /\ file' = CASE e.call = "open" -> e.file
                 [] e.call = "close" -> NoFile
                 [] OTHER -> file

Perform ==
    LET e == Head(todo)
    IN  /\ Running /\ todo # <<>> /\ e.call # "enter"
        /\ Effects(e) /\ todo' = Tail(todo)
        /\ Recorded(e) \/ Missed
        /\ UNCHANGED <<started, input, taken, at, batch, number, kernel, seen, exit, answered>>

(* A short write: emit and marker end the program. *)
Torn ==
    LET e == Head(todo)
    IN  /\ Running /\ todo # <<>> /\ e.call \in Markers \cup {"write"}
        /\ Fault("short") /\ exit' = "1" /\ todo' = <<>>
        /\ trace' = Append(trace, [e EXCEPT !.result = "short"])
        /\ sidecar' = IF e.call = "write" THEN Append(sidecar, Row("torn", 0, "", 0, "", 0))
                      ELSE sidecar
        /\ native' = IF e.call \in Markers THEN Append(native, Call("torn")) ELSE native
        /\ UNCHANGED <<started, input, taken, at, batch, number, file, kernel, seen, answered>>

(* It is killed, between calls or in one, which may have had its effect. *)
Killed ==
    /\ Running /\ Fault("killed") /\ exit' = "killed" /\ todo' = <<>>
    /\ \/ UNCHANGED <<output, file>>
       \/ /\ todo # <<>> /\ Head(todo).call # "enter"
          /\ trace' = Append(trace, [Head(todo) EXCEPT !.result = "unknown"])
          /\ Effects(Head(todo)) \/ UNCHANGED <<sidecar, native, file>>
       \/ /\ at = "waiting"
          /\ trace' = Append(trace, [Call("enter") EXCEPT !.result = "unknown"])
          /\ UNCHANGED <<sidecar, native, file>>
    /\ UNCHANGED <<started, input, taken, at, batch, number, kernel, seen, answered>>

-----------------------------------------------------------------------------
(* Gathering: at least one job, and at most Width. *)

Gathering == Running /\ todo = <<>> /\ at = "gathering"

Take ==
    /\ Gathering /\ Len(batch) < Width /\ taken < sent
    /\ taken' = taken + 1 /\ batch' = Append(batch, taken + 1)
    /\ UNCHANGED <<started, input, at, todo, number, file, kernel, seen, output, faults,
                   exit, answered>>

Full == Len(batch) = Width
InputOver == ended /\ taken = sent
(* poll found no line for idle_ms, which it does not wait for without one. *)
InputIdle == idle /\ batch # <<>> /\ taken = sent /\ ~ended

(* The operations of the kth job in hand, identified by next_id. *)
Ids(k) == [i \in DOMAIN JobOps |->
             Len(JobOps) * (taken - Len(batch) + k - 1) + i]
FdOf(op) == IF op = "read" THEN BadFd ELSE FileFd
SqeRows(k, n) == [i \in DOMAIN JobOps |->
                    Row("sqe", Ids(k)[i], JobOps[i], FdOf(JobOps[i]), "none", n)]
MarkerOf(kind, job) == [Call(kind) EXCEPT !.job = job]
WriteOf(rows) == [Call("write") EXCEPT !.rows = rows]
Enter == [Call("enter") EXCEPT !.count = Len(JobOps) * Len(batch)]

(* Wrong: the operations of a batch are prepared under its first job. *)
PrepareUnderFirst(n) ==
    FlattenSeq([k \in DOMAIN batch |->
        (IF k = 1 THEN <<MarkerOf("IPC_ENTER", batch[k])>> ELSE <<>>)
          \o [i \in DOMAIN JobOps |-> WriteOf(<<SqeRows(k, n)[i]>>)]
          \o (IF k = Len(batch) THEN <<MarkerOf("IPC_LEAVE", batch[1])>> ELSE <<>>)])

(* The worker writes each row by itself, between the markers of the job. *)
Prepare(n) ==
    FlattenSeq([k \in DOMAIN batch |->
        <<MarkerOf("IPC_ENTER", batch[k])>>
          \o [i \in DOMAIN JobOps |-> WriteOf(<<SqeRows(k, n)[i]>>)]
          \o <<MarkerOf("IPC_LEAVE", batch[k])>>])

(* The helper flushes its rows at once, and knows nothing of markers. *)
PrepareHelper ==
    <<WriteOf(SqeRows(1, 1))>>
      \o IF replaces
         THEN <<[Call("close") EXCEPT !.fd = FileFd],
                [Call("open") EXCEPT !.fd = FileFd, !.file = "replacement"]>>
         ELSE <<>>

(* Wrong: only the end of the input ends a batch that is not full. *)
FullOrOver == Full \/ InputOver

Flushes == Full \/ InputOver \/ InputIdle

Submit ==
    /\ Gathering /\ Flushes
    /\ IF batch = <<>> THEN exit' = "0" /\ UNCHANGED <<at, todo, number>>
       ELSE IF mode = "shared" /\ ~Full /\ ~idle THEN exit' = "1" /\ UNCHANGED <<at, todo, number>>
       ELSE /\ number' = number + 1 /\ at' = "submitting"
            /\ todo' = (IF mode = "shared" THEN Prepare(number + 1) ELSE PrepareHelper)
                          \o <<Enter>>
            /\ UNCHANGED exit
    /\ UNCHANGED <<started, input, taken, batch, file, kernel, seen, output, faults, answered>>

-----------------------------------------------------------------------------
(* io_uring_enter, which resolves descriptors as it takes the operations. *)

Submitted(n) ==
    {[id |-> Ids(p[1])[p[2]], op |-> JobOps[p[2]], job |-> batch[p[1]],
      file |-> IF JobOps[p[2]] = "read" THEN Invalid ELSE file]
        : p \in {q \in (DOMAIN batch) \X (DOMAIN JobOps) :
                    Len(JobOps) * (q[1] - 1) + q[2] <= n}}

EnterRing ==
    /\ Running /\ at = "submitting" /\ todo = <<Enter>>
    /\ \/ inflight' = Submitted(Enter.count) /\ at' = "waiting" /\ UNCHANGED faults
       \/ Fault("submit") /\ inflight' = Submitted(1) /\ at' = "short"
    /\ todo' = <<>>
    /\ UNCHANGED <<started, input, taken, batch, number, file, cq, truth, seen, output,
                   exit, answered>>

(* In any order; an operation may fail. *)
Expected(op) == IF op = "read" THEN "EBADF" ELSE "whole"

CompleteOperation ==
    \E o \in inflight :
        /\ inflight' = inflight \ {o}
        /\ \E result \in {Expected(o.op), "error"} :
              /\ IF result = Expected(o.op) THEN UNCHANGED faults ELSE Fault("operation")
              /\ cq' = Append(cq, [id |-> o.id, op |-> o.op, result |-> result])
              /\ truth' = truth \cup {[id |-> o.id, op |-> o.op, job |-> o.job,
                                       result |-> result, file |-> o.file]}
        /\ UNCHANGED <<started, input, taken, at, todo, batch, number, file, seen, output,
                       exit, answered>>

(* It returns when all have completed, or when a signal ends the wait. *)
Return ==
    /\ Running
    /\ \/ at = "waiting" /\ inflight = {} /\ (Recorded(Enter) \/ Missed) /\ UNCHANGED exit
       \/ /\ at = "waiting" /\ inflight # {} /\ Fault("signal")
          /\ trace' = Append(trace, Enter) /\ UNCHANGED exit
       \/ /\ at = "short" /\ (Recorded([Enter EXCEPT !.result = "short"]) \/ Missed)
          /\ exit' = "1"
    /\ at' = "draining"
    /\ UNCHANGED <<started, input, taken, todo, batch, number, file, kernel, seen,
                   sidecar, native, answered>>

-----------------------------------------------------------------------------
(* Draining the completion queue *)

CqeRow(c) == Row("cqe", c.id, "none", 0, c.result, number)
Good(c) == c.result = Expected(c.op)
(* Wrong: an empty queue means that all have completed. *)
QueueEmpty == cq = <<>>
AllReaped == Len(seen) = Len(JobOps) * Len(batch)
Draining == Running /\ at = "draining" /\ todo = <<>>

(* The worker writes the row of each completion; one that is not expected    *)
(* ends it before its row is written.                                        *)
Drain ==
    /\ Draining /\ mode = "shared" /\ cq # <<>>
    /\ cq' = Tail(cq)
    /\ IF Good(Head(cq))
       THEN /\ todo' = <<WriteOf(<<CqeRow(Head(cq))>>)>>
            /\ seen' = Append(seen, CqeRow(Head(cq))) /\ UNCHANGED exit
       ELSE exit' = "1" /\ UNCHANGED <<todo, seen>>
    /\ UNCHANGED <<started, input, taken, at, batch, number, file, inflight, truth, output,
                   faults, answered>>

(* A queue found empty too early ends it too. *)
Finish ==
    /\ Draining /\ mode = "shared" /\ cq = <<>>
    /\ IF AllReaped
       THEN /\ answered' = answered \cup ToSet(batch)
            /\ at' = "gathering" /\ batch' = <<>> /\ seen' = <<>> /\ UNCHANGED exit
       ELSE exit' = "1" /\ UNCHANGED <<answered, at, batch, seen>>
    /\ UNCHANGED <<started, input, taken, todo, number, file, kernel, output, faults>>

(* The helper prints its rows up to the first bad one, and they are written  *)
(* when it exits.                                                            *)
Flush(code) ==
    /\ todo' = <<WriteOf(seen')>> /\ at' = code

DrainHelper ==
    /\ Draining /\ mode = "helper"
    /\ \/ /\ cq # <<>> /\ cq' = Tail(cq) /\ seen' = Append(seen, CqeRow(Head(cq)))
          /\ IF Good(Head(cq)) THEN UNCHANGED <<todo, at>> ELSE Flush("failed")
       \/ /\ cq = <<>> /\ UNCHANGED <<cq, seen>>
          /\ Flush(IF AllReaped THEN "succeeded" ELSE "failed")
    /\ UNCHANGED <<started, input, taken, batch, number, file, inflight, truth, output,
                   faults, exit, answered>>

ExitHelper ==
    /\ Running /\ todo = <<>> /\ at \in {"failed", "succeeded"}
    /\ IF at = "failed" THEN exit' = "1" /\ UNCHANGED answered
       ELSE exit' = "0" /\ answered' = answered \cup ToSet(batch)
    /\ UNCHANGED <<started, input, taken, at, todo, batch, number, file, kernel, seen,
                   output, faults>>

-----------------------------------------------------------------------------
Dispatcher == SendJob \/ CloseInput
Program == \/ Perform \/ Take \/ Submit \/ EnterRing \/ Return
           \/ Drain \/ Finish \/ DrainHelper \/ ExitHelper
RingNext == Dispatcher \/ Program \/ CompleteOperation \/ Torn \/ Killed

(* The program is scheduled and the kernel completes what it took; the       *)
(* dispatcher need not send anything, nor ever close the input.              *)
Fairness == WF_ringVars(Program) /\ WF_ringVars(CompleteOperation)

RingSpec == RingInit /\ [][RingNext]_ringVars /\ Fairness

-----------------------------------------------------------------------------
(* What the attributor makes of the capture.  It compares the markers of the *)
(* trace with the native log before it asks the adapter.                     *)
Ended == ~Running

WholeMarkers == MarkersOf(trace) = native

Accepted ==
    IF mode = "shared" THEN WholeMarkers /\ SharedAccepts(trace, sidecar)
    ELSE HelperAccepts(trace)

Reported == IF mode = "shared" THEN SharedOperations(trace) ELSE HelperOperations(trace)

(* A capture that is accepted reports the operations the kernel performed,   *)
(* no more and no fewer, each with its result, the job it was prepared for   *)
(* and the file its descriptor denoted when the ring was entered, or no file *)
(* at all; whatever order they completed in, whatever call the tracer missed *)
(* and wherever the program failed or was killed.                            *)
RingOwnersRight == (Ended /\ Accepted) =>
    /\ {o.id : o \in Reported} = {t.id : t \in truth}
    /\ \A o \in Reported : \E t \in truth :
          o = t \/ (o.file = Unresolved /\ [t EXCEPT !.file = Unresolved] = o)

(* A capture in which nothing went wrong is accepted, resolves every file,   *)
(* and every job that was answered is in it.                                 *)
CleanRingAccepted == (exit = "0" /\ faults = {}) =>
    Accepted /\ Reported = truth /\ {o.job : o \in Reported} = answered

(* A job is answered only when all its operations were performed as          *)
(* expected, in whichever batch they went and whoever's completions came     *)
(* first.                                                                    *)
AnsweredIsPerformed == \A j \in answered : \A i \in DOMAIN JobOps :
    \E t \in truth : t.job = j /\ t.op = JobOps[i] /\ t.result = Expected(t.op)

(* Every job sent is answered, or the worker has ended: at the latest when   *)
(* the input is idle if there is an idle interval, and else when it ends.    *)
RingEnds ==
    /\ \A j \in 1 .. Jobs : (sent >= j /\ (idle \/ ended)) ~> (j \in answered \/ Ended)
    /\ ended ~> Ended
=============================================================================
