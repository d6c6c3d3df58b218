---------------------------- MODULE WorkerRelay ----------------------------
(***************************************************************************)
(* The second hop of persistent_worker.py: in the relay and rights         *)
(* scenarios the worker does not write the slot of a job itself but        *)
(* delegates it to a second worker, the leaf, and waits up to 30 s.        *)
(*                                                                         *)
(* A thread of the pool registers a future and sends the job under         *)
(* relay_lock; one reader thread takes answers, in any order, pops the     *)
(* future under the lock and completes it outside.  When the leaf closes   *)
(* its output or answers for nobody, the reader fails whoever still waits. *)
(* The leaf may hang for ever, die, or answer with an error.               *)
(***************************************************************************)
EXTENDS Naturals, Sequences

CONSTANTS Jobs,         \* the jobs; each has a thread of the pool
          SlotOf        \* the slot each job is to write

ASSUME RelayAssumption == DOMAIN SlotOf = Jobs

VARIABLES thread,         \* per job: where delegate is, and how it ended
          relay_waiters,  \* jobs whose future is registered
          future,         \* per job: "pending", "ok" or "error"
          relay_failure,  \* the reader has failed
          reader,         \* where the reader thread is, with which futures
          toLeaf, leaf, leafLive, fromLeaf,
          written,        \* history: jobs whose slot the leaf has written
          upstream        \* the main thread of the first worker

relayVars == <<thread, relay_waiters, future, relay_failure, reader, toLeaf, leaf,
               leafLive, fromLeaf, written, upstream>>
leafVars == <<leaf, leafLive, written>>
lockedVars == <<relay_waiters, relay_failure>>

RelayInit ==
    /\ thread = [j \in Jobs |-> "none"]
    /\ relay_waiters = {} /\ future = [j \in Jobs |-> "pending"]
    /\ relay_failure = FALSE
    /\ reader = [at |-> "reading", jobs |-> {}, answer |-> "error"]
    /\ toLeaf = <<>> /\ fromLeaf = <<>>
    /\ leaf = [j \in Jobs |-> "none"] /\ leafLive = TRUE
    /\ written = {} /\ upstream = "serving"

Alive == upstream \notin {"exited", "failed", "dead"}
Ends == {"ok", "error", "timeout"}
Ended(j) == thread[j] \in Ends

(* The dispatcher's duplicate check: no job for a slot of one not answered. *)
SlotFree(j) == \A k \in Jobs \ {j} :
                  SlotOf[k] = SlotOf[j] => thread[k] = "none" \/ Ended(k)

-----------------------------------------------------------------------------
(* delegate *)

To(j, place) == thread' = [thread EXCEPT ![j] = place]

(* The lock is held from the check of relay_failure to the send.  A marker   *)
(* or a send that fails raises, and leaves the future registered.            *)
Registered(j) ==
    /\ relay_waiters' = relay_waiters \cup {j}
    /\ \/ /\ leafLive /\ toLeaf' = Append(toLeaf, j) /\ To(j, "waiting")
       \/ /\ UNCHANGED toLeaf /\ To(j, "error")

(* Jobs the executor has queued still start when the input has ended. *)
Starts(j) == upstream \in {"serving", "draining"} /\ thread[j] = "none" /\ SlotFree(j)

(* Wrong: the future is registered once the job is sent. *)
SendFirst(j) ==
    /\ \/ /\ Starts(j) /\ UNCHANGED relay_waiters
          /\ IF relay_failure \/ ~leafLive THEN To(j, "error") /\ UNCHANGED toLeaf
             ELSE To(j, "sent") /\ toLeaf' = Append(toLeaf, j)
       \/ /\ thread[j] = "sent" /\ UNCHANGED toLeaf
          /\ relay_waiters' = relay_waiters \cup {j} /\ To(j, "waiting")
    /\ UNCHANGED <<future, relay_failure, reader, leafVars, fromLeaf, upstream>>

Delegate(j) ==
    /\ Starts(j)
    /\ IF relay_failure THEN To(j, "error") /\ UNCHANGED <<relay_waiters, toLeaf>>
       ELSE Registered(j)
    /\ UNCHANGED <<future, relay_failure, reader, leafVars, fromLeaf, upstream>>

Waiting(j) == Alive /\ thread[j] = "waiting"

Resume(j) ==
    /\ Waiting(j) /\ future[j] # "pending"
    /\ To(j, future[j])
    /\ UNCHANGED <<lockedVars, future, reader, toLeaf, leafVars, fromLeaf, upstream>>

(* Wrong: an answer is waited for as long as the leaf lives. *)
TimeOutIfGone(j) ==
    /\ Waiting(j) /\ future[j] = "pending" /\ ~leafLive
    /\ To(j, "timeout")
    /\ UNCHANGED <<lockedVars, future, reader, toLeaf, leafVars, fromLeaf, upstream>>

(* After 30 s the future stays registered. *)
TimeOut(j) ==
    /\ Waiting(j) /\ future[j] = "pending"
    /\ To(j, "timeout")
    /\ UNCHANGED <<lockedVars, future, reader, toLeaf, leafVars, fromLeaf, upstream>>

-----------------------------------------------------------------------------
(* read_relay_responses *)

Reading == Alive /\ reader.at = "reading"

(* Wrong: an answer goes to whoever waits. *)
PopAny ==
    /\ Reading /\ fromLeaf # <<>> /\ relay_waiters # {}
    /\ \E j \in relay_waiters :
          /\ relay_waiters' = relay_waiters \ {j}
          /\ reader' = [at |-> "completing", jobs |-> {j}, answer |-> Head(fromLeaf).answer]
    /\ fromLeaf' = Tail(fromLeaf)
    /\ UNCHANGED <<thread, future, relay_failure, toLeaf, leafVars, upstream>>

(* A late answer finds its future, which nobody reads any more. *)
Pop ==
    /\ Reading /\ fromLeaf # <<>> /\ Head(fromLeaf).job \in relay_waiters
    /\ relay_waiters' = relay_waiters \ {Head(fromLeaf).job}
    /\ reader' = [at |-> "completing", jobs |-> {Head(fromLeaf).job},
                  answer |-> Head(fromLeaf).answer]
    /\ fromLeaf' = Tail(fromLeaf)
    /\ UNCHANGED <<thread, future, relay_failure, toLeaf, leafVars, upstream>>

(* The output ended, or the pop raised: everybody who waits is failed. *)
FailAll ==
    /\ Reading
    /\ IF fromLeaf = <<>> THEN ~leafLive ELSE Head(fromLeaf).job \notin relay_waiters
    /\ relay_failure' = TRUE /\ relay_waiters' = {}
    /\ reader' = [at |-> "failing", jobs |-> relay_waiters, answer |-> "error"]
    /\ UNCHANGED <<thread, future, toLeaf, leafVars, fromLeaf, upstream>>

(* set_result and set_exception, without the lock. *)
Complete ==
    /\ Alive /\ reader.at \in {"completing", "failing"}
    /\ future' = [j \in Jobs |-> IF j \in reader.jobs THEN reader.answer ELSE future[j]]
    /\ reader' = [reader EXCEPT !.jobs = {},
                     !.at = IF @ = "failing" THEN "ended" ELSE "reading"]
    /\ UNCHANGED <<thread, lockedVars, toLeaf, leafVars, fromLeaf, upstream>>

-----------------------------------------------------------------------------
(* The first worker ends. *)

(* Its input ends, and the executor waits for its threads; then the input of *)
(* the leaf is closed, and its exit waited for 5 s.  The interpreter waits   *)
(* for the reader thread, whatever main raised.                              *)
Shutdown ==
    /\ \/ upstream = "serving" /\ upstream' = "draining"
       \/ /\ upstream = "draining"
          /\ \A j \in Jobs : thread[j] = "none" \/ Ended(j)
          /\ upstream' = "closing"
       \/ /\ upstream = "closing"
          /\ upstream' = IF leafLive THEN "late" ELSE "joining"
       \/ /\ upstream \in {"late", "joining"} /\ reader.at = "ended"
          /\ upstream' = IF upstream = "late" THEN "failed" ELSE "exited"
    /\ UNCHANGED <<thread, lockedVars, future, reader, toLeaf, leafVars, fromLeaf>>

(* os._exit(EXIT_FATAL): a marker of some job could not be written. *)
Die ==
    /\ Alive /\ \E j \in Jobs : thread[j] # "none"
    /\ upstream' = "dead"
    /\ UNCHANGED <<thread, lockedVars, future, reader, toLeaf, leafVars, fromLeaf>>

-----------------------------------------------------------------------------
(* The leaf *)

LeafTakes ==
    /\ leafLive /\ toLeaf # <<>>
    /\ leaf' = [leaf EXCEPT ![Head(toLeaf)] = "running"]
    /\ toLeaf' = Tail(toLeaf)
    /\ UNCHANGED <<thread, lockedVars, future, reader, leafLive, fromLeaf, written, upstream>>

LeafAnswers(j) ==
    /\ leafLive /\ leaf[j] = "running"
    /\ leaf' = [leaf EXCEPT ![j] = "done"]
    /\ \E answer \in {"ok", "error"} :
          /\ written' = IF answer = "ok" THEN written \cup {j} ELSE written
          /\ fromLeaf' = Append(fromLeaf, [job |-> j, answer |-> answer])
    /\ UNCHANGED <<thread, lockedVars, future, reader, toLeaf, leafLive, upstream>>

(* End of its input, a fatal task, a message it cannot read, a crash. *)
LeafExits ==
    /\ leafLive /\ leafLive' = FALSE
    /\ UNCHANGED <<thread, lockedVars, future, reader, toLeaf, leaf, fromLeaf, written,
                   upstream>>

-----------------------------------------------------------------------------
Delegations == \E j \in Jobs : Delegate(j)
Waits == \E j \in Jobs : Resume(j) \/ TimeOut(j)
ReaderStep == Pop \/ FailAll \/ Complete
LeafStep == LeafTakes \/ LeafExits \/ \E j \in Jobs : LeafAnswers(j)

RelayNext == Delegations \/ Waits \/ ReaderStep \/ Shutdown \/ Die \/ LeafStep

(* The threads of the first worker are scheduled and its timers fire.        *)
(* Nothing is assumed of the leaf.                                           *)
Fairness == WF_relayVars(Waits) /\ WF_relayVars(ReaderStep)
            /\ WF_relayVars(upstream # "serving" /\ Shutdown)

RelaySpec == RelayInit /\ [][RelayNext]_relayVars /\ Fairness

-----------------------------------------------------------------------------
(* A delegation that succeeds was carried out: its own slot is written,      *)
(* however answers were reordered, late or lost; and two jobs of one slot    *)
(* are with the leaf at once only if a wait for one of them timed out.       *)
RelayedIsDone ==
    /\ \A j \in Jobs : thread[j] = "ok" => j \in written
    /\ \A j, k \in Jobs :
          j # k /\ SlotOf[j] = SlotOf[k] /\ leaf[j] = "running" /\ leaf[k] = "running"
              => "timeout" \in {thread[j], thread[k]}

(* When the reader has ended, nobody is left waiting for it: a future is     *)
(* registered before the reader fails and completed by it, or refused.       *)
NobodyForgotten ==
    reader.at = "ended" => \A j \in Jobs :
        thread[j] = "waiting" => future[j] # "pending"

(* Every delegation ends, whatever the leaf does, and the first worker too   *)
(* once the leaf has gone.                                                   *)
RelayEnds ==
    /\ \A j \in Jobs : (thread[j] # "none") ~> (Ended(j) \/ upstream = "dead")
    /\ (upstream # "serving" /\ ~leafLive) ~> ~Alive
=============================================================================
