-------------------------- MODULE WorkerAttribution --------------------------
(***************************************************************************)
(* Dispatcher, worker, their trace, and the attributor: the causal context *)
(* crosses a process boundary through IPC markers, and a worker that dies  *)
(* in the middle of a job leaves a capture that is refused.                *)
(***************************************************************************)
EXTENDS WorkerIpc, MarkerAttributor

(* The tracer follows both processes, and every context the bridge hands out *)
(* to a call, one more each time, is in request-map.jsonl.                   *)
ASSUME AttributionAssumption ==
    /\ {Main, Reader} \cup Workers \subseteq Tids
    /\ 1 .. Cardinality(Jobs) \subseteq Mapped

vars == <<ipcVars, attributorVars>>

Init == IpcInit /\ AttributorInit
Next == IpcNext /\ Observe(emitted')
Spec == Init /\ [][Next]_vars /\ IpcFairness

-----------------------------------------------------------------------------
(* An accepted capture binds every effect of the worker's threads to the     *)
(* request whose call sent the job, and what a thread does between jobs to   *)
(* no request at all, whatever markers were torn or lost.                    *)
AcceptedIsRight == Accepted => BoundToOwner

(* A worker that lost no marker and ended by itself leaves an accepted       *)
(* capture: cancelled, failed and wrongly answered jobs are closed too.      *)
CleanIsAccepted == (faults = {} /\ exit = "0") => Accepted

(* A job in the worker whose bracket is not closed: unread, queued, taken by *)
(* a thread, or entered and not left, or abandoned in the transition.        *)
Unfinished(j) ==
    \/ \E i \in DOMAIN stdin : stdin[i] = j
    \/ \E i \in DOMAIN queue : queue[i] = Item("job", j)
    \/ \E t \in Workers :
          /\ pool[t].at \in {"job", "entered", "crashing", "performed", "raised"}
          /\ pool[t].job = j

(* The comment in check_task_failure: termination leaves the broken bracket  *)
(* visible.  A worker that is gone, of itself, of os._exit or of a failed    *)
(* task, while any thread's job was unfinished or any job unread, never      *)
(* leaves a capture that is accepted.  One that died of its background write *)
(* or of the print of an answer, every bracket closed, may leave one.        *)
DeathIsRefused ==
    exit # "running" /\ "unseen" \notin faults /\ (\E j \in Jobs : Unfinished(j)) =>
        ~Accepted
=============================================================================
