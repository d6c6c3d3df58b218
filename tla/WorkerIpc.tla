------------------------------ MODULE WorkerIpc ------------------------------
(***************************************************************************)
(* Jobs handed to a persistent worker: the worker_slot tool of             *)
(* experiments/mcp/control-server.mjs and persistent_worker.py.            *)
(*                                                                         *)
(* The dispatcher is the server's event loop: it marks a job IPC_SEND,     *)
(* writes it to the worker's stdin and waits for the answer on its stdout. *)
(* The worker's main thread reads jobs into a ThreadPoolExecutor, whose    *)
(* threads bracket the job with IPC_ENTER and IPC_LEAVE.  CAUSPAN_SCENARIO *)
(* selects what goes wrong on purpose; a marker may fail in any of them.   *)
(***************************************************************************)
EXTENDS TraceEvents, FiniteSets

CONSTANTS Main,        \* the thread of the dispatcher
          Reader,      \* the main thread of the worker
          Workers,     \* the threads of its pool
          Jobs,        \* bound on the calls
          UnknownJob,  \* the id the wrong-response scenario makes up
          Slots,       \* slots of the file, natural numbers
          Scenarios    \* values of CAUSPAN_SCENARIO

ASSUME IpcAssumption ==
    /\ Main # Reader /\ {Main, Reader} \cap Workers = {}
    /\ IsFiniteSet(Jobs) /\ NoJob \notin Jobs /\ UnknownJob \notin Jobs
    /\ Slots \subseteq Nat
    /\ Scenarios \subseteq {"worker-context", "worker-failure", "worker-crash",
                            "worker-cancel", "worker-fatal", "worker-wrong-response"}

VARIABLES
    scenario,
    calls,          \* per job sent: its slot, its context, how its call ended
    workerWaiters,  \* control-server.mjs
    workerFailure,  \* control-server.mjs
    turn,           \* what the event loop is doing, and for which job
    stdin,          \* the pipe to the worker
    stdinEnded,     \* the dispatcher closed its end
    brokenPipe,     \* a write found no reader: an error event is due
    stdout,         \* the pipe from the worker
    reader,         \* where the worker's main thread is, and with which job
    queue,          \* the executor's queue of gates and jobs
    gates,          \* jobs whose gate is set
    pool,           \* per thread of the pool: where it is, its job, its answer
    cancelled,      \* jobs whose future was cancelled
    written,        \* history: jobs whose bytes reached the file
    exit,           \* exit status of the worker
    closed,         \* the dispatcher handled the close event
    faults, emitted \* as in the runtime bridges

dispatcherVars == <<calls, workerWaiters, workerFailure, turn, stdinEnded, closed>>
workerVars == <<reader, queue, gates, pool, cancelled, written, exit>>
ipcVars == <<scenario, dispatcherVars, workerVars, stdin, stdout, brokenPipe,
             faults, emitted>>

NoOne == [at |-> "idle", job |-> NoJob, answer |-> "ok"]

IpcInit ==
    /\ scenario \in Scenarios
    /\ calls = [j \in {} |-> {}]
    /\ workerWaiters = {}
    /\ workerFailure = FALSE
    /\ turn = [at |-> "loop", job |-> NoJob]
    /\ stdin = <<>> /\ stdinEnded = FALSE /\ brokenPipe = FALSE
    /\ stdout = <<>>
    /\ reader = [at |-> "reading", job |-> NoJob]
    /\ queue = <<>> /\ gates = {}
    /\ pool = [t \in Workers |-> NoOne]
    /\ cancelled = {} /\ written = {}
    /\ exit = "running" /\ closed = FALSE
    /\ faults = {} /\ emitted = Silence(Main)

-----------------------------------------------------------------------------
Job(kind, tid, job) ==
    [Marker(kind, tid, calls[job].context, 0) EXCEPT !.job = job]
Quiet == emitted' = Silence(Main) /\ UNCHANGED faults

Emits(marker) ==
    /\ emitted' \in Delivered(marker)
    /\ faults' = IF emitted'.captured THEN faults ELSE faults \cup {"capture"}
EmitFails(marker, outcomes) ==
    /\ emitted' \in {m \in Undelivered(marker) : m.written \in outcomes}
    /\ faults' = faults \cup
          IF emitted'.written = "failed" /\ ~emitted'.captured
          THEN {"unseen"} ELSE {"marker"}

(* Odd slots are the ones failed, or cancelled, on purpose. *)
Odd(job) == calls[job].slot % 2 = 1
FailsOnPurpose(job) == scenario = "worker-failure" /\ Odd(job)

-----------------------------------------------------------------------------
(* Wrong: two jobs may be under way for one slot. *)
NeverActive(slot) == FALSE

(* duplicate active slot *)
ActiveSlot(slot) == \E j \in workerWaiters : calls[j].slot = slot

(* The dispatcher.  A tools/call runs in one turn of the event loop up to    *)
(* its await: the bridge has set its context, ...                            *)
Call(slot) ==
    LET job == CHOOSE j \in Jobs \ DOMAIN calls : TRUE
        context == Cardinality(DOMAIN calls) + 1
    IN  /\ turn.at = "loop" /\ ~stdinEnded /\ Jobs # DOMAIN calls
        /\ ~workerFailure
        /\ ~ActiveSlot(slot)
        /\ calls' = [j \in DOMAIN calls \cup {job} |->
              IF j = job THEN [slot |-> slot, context |-> context, ended |-> "no"]
              ELSE calls[j]]
        /\ workerWaiters' = workerWaiters \cup {job}
        /\ turn' = [at |-> "waiter set", job |-> job]
        /\ emitted' = Marker("JS_CONTEXT", Main, context, 0)
        /\ UNCHANGED <<scenario, workerVars, workerFailure, stdin, stdinEnded,
                       brokenPipe, stdout, closed, faults>>

(* ... writeSync the marker: a throw rejects the promise and leaves the      *)
(* waiter, a short write goes unnoticed, ...                                 *)
MarkSend ==
    LET job == turn.job
        send == Job("IPC_SEND", Main, job)
    IN  /\ turn.at = "waiter set"
        /\ \/ /\ Emits(send) \/ EmitFails(send, {"partial"})
              /\ turn' = [turn EXCEPT !.at = "marked"]
              /\ UNCHANGED calls
           \/ /\ EmitFails(send, {"failed"})
              /\ calls' = [calls EXCEPT ![job].ended = "rejected"]
              /\ turn' = [turn EXCEPT !.at = "written"]
        /\ UNCHANGED <<scenario, workerVars, workerWaiters, workerFailure, stdin,
                       stdinEnded, brokenPipe, stdout, closed>>

(* ... write the job, ... *)
WriteJob ==
    /\ turn.at = "marked"
    /\ IF exit = "running"
       THEN stdin' = Append(stdin, turn.job) /\ UNCHANGED brokenPipe
       ELSE brokenPipe' = TRUE /\ UNCHANGED stdin
    /\ turn' = [turn EXCEPT !.at = "written"]
    /\ Quiet
    /\ UNCHANGED <<scenario, workerVars, calls, workerWaiters, workerFailure,
                   stdinEnded, stdout, closed>>

(* ... and the bridge clears the context. *)
EndTurn ==
    /\ turn.at = "written"
    /\ turn' = [at |-> "loop", job |-> NoJob]
    /\ emitted' = Marker("JS_CONTEXT", Main, 0, 0)
    /\ UNCHANGED <<scenario, workerVars, calls, workerWaiters, workerFailure,
                   stdin, stdinEnded, brokenPipe, stdout, closed, faults>>

(* Wrong: only later calls are rejected. *)
FailLaterCalls == workerFailure' = TRUE /\ UNCHANGED <<calls, workerWaiters>>

(* fail: every waiter is rejected, and every later call. *)
Fail ==
    /\ workerFailure' = TRUE
    /\ calls' = [j \in DOMAIN calls |->
          IF j \in workerWaiters /\ calls[j].ended = "no"
          THEN [calls[j] EXCEPT !.ended = "rejected"] ELSE calls[j]]
    /\ workerWaiters' = {}

(* Wrong: the error of an answer is not looked at. *)
Resolved(job, answer) == "resolved"

(* An error, or an answer that contradicts the scenario, rejects the call. *)
Outcome(job, answer) ==
    IF answer # "error" /\ (answer = "expected failure") = FailsOnPurpose(job)
    THEN "resolved" ELSE "rejected"

(* A line of the worker: an answer to a waiter, or reason to fail them all.  *)
OnResponse ==
    LET response == Head(stdout)
        job == response.job
    IN  /\ turn.at = "loop" /\ stdout # <<>>
        /\ stdout' = Tail(stdout)
        /\ \/ /\ job \in workerWaiters /\ response.slot = calls[job].slot
              /\ workerWaiters' = workerWaiters \ {job}
              /\ calls' = [calls EXCEPT ![job].ended =
                              Outcome(job, response.answer)]
              /\ UNCHANGED workerFailure
           \/ /\ job \in workerWaiters => response.slot # calls[job].slot
              /\ Fail
        /\ Quiet
        /\ UNCHANGED <<scenario, workerVars, turn, stdin, stdinEnded, brokenPipe, closed>>

(* stdin's error event, which may come before lines already in stdout. *)
OnStdinError ==
    /\ turn.at = "loop" /\ brokenPipe
    /\ brokenPipe' = FALSE
    /\ Fail
    /\ Quiet
    /\ UNCHANGED <<scenario, workerVars, turn, stdin, stdinEnded, stdout, closed>>

(* The close event comes after the last line. *)
OnClose ==
    /\ turn.at = "loop" /\ exit # "running" /\ stdout = <<>> /\ ~closed
    /\ closed' = TRUE
    /\ Fail
    /\ Quiet
    /\ UNCHANGED <<scenario, workerVars, turn, stdin, stdinEnded, brokenPipe, stdout>>

(* The MCP client closes the server's stdin, calls in flight or not. *)
ClientLeaves ==
    /\ turn.at = "loop" /\ ~stdinEnded
    /\ stdinEnded' = TRUE
    /\ Quiet
    /\ UNCHANGED <<scenario, workerVars, calls, workerWaiters, workerFailure, turn,
                   stdin, brokenPipe, stdout, closed>>

-----------------------------------------------------------------------------
(* The worker's main thread. *)
Item(kind, job) == [kind |-> kind, job |-> job]
InWorker == /\ exit = "running"
            /\ UNCHANGED <<scenario, dispatcherVars, brokenPipe>>

(* What executor.submit is called for: the cancel scenario has one thread,   *)
(* and sends a gate before the job.                                          *)
Submissions(job) ==
    IF scenario = "worker-cancel" THEN <<Item("gate", job), Item("job", job)>>
    ELSE <<Item("job", job)>>

ReadMessage ==
    LET job == Head(stdin)
    IN  /\ InWorker
        /\ reader.at = "reading" /\ stdin # <<>>
        /\ stdin' = Tail(stdin)
        /\ queue' = queue \o Submissions(job)
        /\ reader' = IF scenario # "worker-cancel" THEN reader
                     ELSE [at |-> IF Odd(job) THEN "cancelling" ELSE "releasing",
                           job |-> job]
        /\ Quiet
        /\ UNCHANGED <<stdout, gates, pool, cancelled, written, exit>>

(* future.cancel(): true while the job is still queued, which then nobody    *)
(* takes any more.                                                           *)
CancelQueued ==
    LET job == reader.job
    IN  /\ InWorker
        /\ reader.at = "cancelling"
        /\ \/ \E i \in DOMAIN queue :
                 /\ queue[i] = Item("job", job)
                 /\ queue' = SubSeq(queue, 1, i - 1) \o SubSeq(queue, i + 1, Len(queue))
                 /\ cancelled' = cancelled \cup {job}
                 /\ reader' = [reader EXCEPT !.at = "cancelled"]
           \/ /\ \A i \in DOMAIN queue : queue[i] # Item("job", job)
              /\ reader' = [reader EXCEPT !.at = "cancellation lost"]
              /\ UNCHANGED <<queue, cancelled>>
        /\ Quiet
        /\ UNCHANGED <<stdin, stdout, gates, pool, written, exit>>

(* Wrong: a cancelled job is answered and not marked. *)
AnnounceUnmarked ==
    /\ InWorker
    /\ reader.at = "cancelled"
    /\ stdout' = Append(stdout, [job |-> reader.job, slot |-> calls[reader.job].slot,
                                 answer |-> "cancelled"])
    /\ reader' = [reader EXCEPT !.at = "releasing"]
    /\ Quiet
    /\ UNCHANGED <<stdin, queue, gates, pool, cancelled, written, exit>>

(* The marker and the answer of a cancelled job; a failing marker or print   *)
(* raises through the finally, which sets the gate.                          *)
AnnounceCancel ==
    LET job == reader.job
        cancel == Job("IPC_CANCEL", Reader, job)
    IN  /\ InWorker
        /\ reader.at = "cancelled"
        /\ \/ /\ Emits(cancel)
              /\ stdout' = Append(stdout,
                    [job |-> job, slot |-> calls[job].slot, answer |-> "cancelled"])
              /\ reader' = [reader EXCEPT !.at = "releasing"]
              /\ UNCHANGED gates
           \/ /\ Emits(cancel) \/ EmitFails(cancel, {"partial", "failed"})
              /\ gates' = gates \cup {job}
              /\ reader' = [reader EXCEPT !.at = "raised"]
              /\ UNCHANGED stdout
        /\ UNCHANGED <<stdin, queue, pool, cancelled, written, exit>>

SetGate ==
    /\ InWorker
    /\ reader.at \in {"releasing", "cancellation lost"}
    /\ gates' = gates \cup {reader.job}
    /\ reader' = [at |-> IF reader.at = "releasing" THEN "reading" ELSE "raised",
                  job |-> NoJob]
    /\ Quiet
    /\ UNCHANGED <<stdin, stdout, queue, pool, cancelled, written, exit>>

(* End of input, or an exception: the executor is shut down and waited for.  *)
Exit ==
    /\ InWorker
    /\ \/ reader.at = "reading" /\ stdin = <<>> /\ stdinEnded /\ exit' = "0"
       \/ reader.at = "raised" /\ exit' = "1"
    /\ queue = <<>> /\ \A t \in Workers : pool[t].at = "idle"
    /\ Quiet
    /\ UNCHANGED <<stdin, stdout, reader, queue, gates, pool, cancelled, written>>

-----------------------------------------------------------------------------
(* A thread of the pool.  The cancel scenario has one. *)
At(t, place) == pool' = [pool EXCEPT ![t].at = place]
Idle(t) == pool' = [pool EXCEPT ![t] = NoOne]
OnThread(t, place) == /\ InWorker
                      /\ pool[t].at = place
                      /\ UNCHANGED <<stdin, reader, cancelled>>

Take(t) ==
    /\ OnThread(t, "idle")
    /\ queue # <<>>
    /\ scenario = "worker-cancel" => \A u \in Workers : pool[u].at = "idle"
    /\ queue' = Tail(queue)
    /\ pool' = [pool EXCEPT ![t] =
          [at |-> Head(queue).kind, job |-> Head(queue).job, answer |-> "ok"]]
    /\ Quiet
    /\ UNCHANGED <<stdout, gates, written, exit>>

PassGate(t) ==
    /\ OnThread(t, "gate")
    /\ pool[t].job \in gates
    /\ Idle(t)
    /\ Quiet
    /\ UNCHANGED <<stdout, queue, gates, written, exit>>

(* execute: a marker that cannot be written whole raises out of the task. *)
MarkOrRaise(t, marker, place) ==
    /\ \/ Emits(marker) /\ At(t, place)
       \/ EmitFails(marker, {"partial", "failed"}) /\ At(t, "raised")
    /\ UNCHANGED <<stdout, queue, gates, written, exit>>

EnterJob(t) ==
    /\ OnThread(t, "job")
    /\ MarkOrRaise(t, Job("IPC_ENTER", t, pool[t].job), "entered")

(* The write of the slot, which can fail, on purpose or not. *)
Perform(t) ==
    LET job == pool[t].job
    IN  /\ OnThread(t, "entered")
        /\ emitted' = Effect(t, calls[job].context)
        /\ \/ /\ ~FailsOnPurpose(job)
              /\ written' = written \cup {job}
              /\ At(t, IF scenario = "worker-crash" THEN "crashing" ELSE "performed")
           \/ /\ pool' = [pool EXCEPT ![t] = [at |-> "performed", job |-> job, answer |->
                    IF FailsOnPurpose(job) THEN "expected failure" ELSE "error"]]
              /\ UNCHANGED written
        /\ UNCHANGED <<stdout, queue, gates, exit, faults>>

(* os._exit(EXIT_CRASH) in the middle of the bracket. *)
Crash(t) ==
    /\ OnThread(t, "crashing")
    /\ exit' = "23"
    /\ Quiet
    /\ UNCHANGED <<stdout, queue, gates, pool, written>>

(* The finally: an injected failure, or IPC_LEAVE and then mark(0). *)
LeaveJob(t) ==
    /\ OnThread(t, "performed")
    /\ \/ /\ scenario = "worker-fatal"
          /\ At(t, "raised")
          /\ Quiet
          /\ UNCHANGED <<stdout, queue, gates, written, exit>>
       \/ /\ scenario # "worker-fatal"
          /\ MarkOrRaise(t, Job("IPC_LEAVE", t, pool[t].job), "left")

ClearContext(t) ==
    /\ OnThread(t, "left")
    /\ MarkOrRaise(t, Marker("JS_CONTEXT", t, 0, 0),
                   IF scenario = "worker-failure" THEN "background" ELSE "answering")

(* An effect for nobody, on the thread that just worked for somebody; a      *)
(* short or failing write raises, with the job's bracket closed.             *)
Background(t) ==
    /\ OnThread(t, "background")
    /\ emitted' = Effect(t, 0)
    /\ At(t, "answering") \/ At(t, "unanswered")
    /\ UNCHANGED <<stdout, queue, gates, written, exit, faults>>

(* The print of the answer may raise as well. *)
Answer(t) ==
    LET job == pool[t].job
    IN  /\ OnThread(t, "answering")
        /\ \/ /\ stdout' = Append(stdout,
                    [job |-> IF scenario = "worker-wrong-response" THEN UnknownJob
                             ELSE job,
                     slot |-> calls[job].slot, answer |-> pool[t].answer])
              /\ Idle(t)
           \/ At(t, "unanswered") /\ UNCHANGED stdout
        /\ Quiet
        /\ UNCHANGED <<queue, gates, written, exit>>

(* check_task_failure: os._exit(EXIT_FATAL), whatever other threads do. *)
DieOfTask(t) ==
    /\ OnThread(t, "raised") \/ OnThread(t, "unanswered")
    /\ exit' = "24"
    /\ Quiet
    /\ UNCHANGED <<stdout, queue, gates, pool, written>>

-----------------------------------------------------------------------------
DispatcherStep == \/ MarkSend \/ WriteJob \/ EndTurn
                  \/ OnResponse \/ OnStdinError \/ OnClose
ReaderStep == ReadMessage \/ CancelQueued \/ AnnounceCancel \/ SetGate \/ Exit
ThreadStep(t) == \/ Take(t) \/ PassGate(t) \/ EnterJob(t) \/ Perform(t)
                 \/ Crash(t) \/ LeaveJob(t) \/ ClearContext(t) \/ Background(t)
                 \/ Answer(t) \/ DieOfTask(t)

IpcNext == \/ \E slot \in Slots : Call(slot)
           \/ ClientLeaves \/ DispatcherStep \/ ReaderStep
           \/ \E t \in Workers : ThreadStep(t)

(* The event loop turns, and the threads of the worker are scheduled.  No    *)
(* fairness for the client: it need not call, nor ever leave.                *)
IpcFairness == /\ WF_ipcVars(DispatcherStep)
               /\ WF_ipcVars(ReaderStep)
               /\ \A t \in Workers : WF_ipcVars(ThreadStep(t))

IpcSpec == IpcInit /\ [][IpcNext]_ipcVars /\ IpcFairness

-----------------------------------------------------------------------------
(* A call that succeeds tells the truth about its own job: its bytes are in  *)
(* the file, or it was meant to fail, or it was cancelled; and a cancelled   *)
(* job has written nothing, whichever thread got to it first.                *)
ResolvedIsDone ==
    /\ \A j \in DOMAIN calls : calls[j].ended = "resolved" =>
          j \in written \/ j \in cancelled \/ FailsOnPurpose(j)
    /\ cancelled \cap written = {}

(* The slot of a job is nobody else's while a thread works on it: the        *)
(* duplicate check of the dispatcher covers the whole life of a job in the   *)
(* worker.                                                                   *)
SlotsNotShared == \A t, u \in Workers :
    (t # u /\ pool[t].at \in {"entered", "performed"}
           /\ pool[u].at \in {"entered", "performed"}) =>
        calls[pool[t].job].slot # calls[pool[u].job].slot

(* No call waits for ever: it is answered, or rejected when the worker       *)
(* crashes, dies of a task, exits or answers nonsense.                       *)
EveryCallEnds == \A j \in Jobs :
    (j \in DOMAIN calls) ~> (j \in DOMAIN calls /\ calls[j].ended # "no")
=============================================================================
