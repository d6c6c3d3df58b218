--------------------------- MODULE MCWorkerRelay ---------------------------
EXTENDS WorkerRelay

(* Three jobs, two of them for one slot. *)
MCJobs == 1 .. 3
MCSlotOf == <<1, 1, 2>>
=============================================================================
