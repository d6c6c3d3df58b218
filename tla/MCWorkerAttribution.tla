------------------------- MODULE MCWorkerAttribution -------------------------
EXTENDS WorkerAttribution

CONSTANTS dispatcher, main, w1, w2, j1, j2, j3, unknown

AllScenarios == {"worker-context", "worker-failure", "worker-crash",
                 "worker-cancel", "worker-fatal", "worker-wrong-response"}
MCWorkers == {w1, w2}
MCTids == {dispatcher, main} \cup MCWorkers

(* Only the next event matters, never the last one; and a capture refused    *)
(* for something that went wrong stays refused, so that from then on only    *)
(* the two processes matter.                                                 *)
Processes == <<scenario, dispatcherVars, workerVars, stdin, stdout, brokenPipe, faults>>
UntilRefused ==
    <<Processes, IF errors # {} /\ faults # {} THEN <<>> ELSE attributorVars>>
==============================================================================
