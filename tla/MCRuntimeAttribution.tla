------------------------ MODULE MCRuntimeAttribution ------------------------
EXTENDS RuntimeAttribution, TLC

CONSTANTS main, w1, w2, k1, k2

MCThreads == {main, w1, w2}
MCTasks == {k1, k2}
Symmetry == Permutations({w1, w2}) \cup Permutations({k1, k2})

(* Only the next event matters, never the last one. *)
WithoutLastEvent ==
    <<owner, meant, stack, operation, pending, phase, scope, run, ending, task,
      faults, attributorVars>>

(* A capture refused for something that went wrong stays refused. *)
NotYetRefused == errors = {} \/ faults = {}
=============================================================================
