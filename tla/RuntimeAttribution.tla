------------------------- MODULE RuntimeAttribution -------------------------
(***************************************************************************)
(* The Rust runtime layer, its trace, and the attributor that reads it:    *)
(* does an accepted capture bind every effect to the request the program   *)
(* meant it for?  Every step of the program puts at most one event on the  *)
(* trace, and the attributor takes it in the same step.                    *)
(***************************************************************************)
EXTENDS RuntimeLayer, MarkerAttributor

(* The trace has every thread, and the registry has written the row of a     *)
(* request before it hands out the context.                                  *)
ASSUME AttributionAssumption == Threads \subseteq Tids /\ Requests \subseteq Mapped

vars == <<layerVars, attributorVars>>

Init == LayerInit /\ AttributorInit
Next == LayerNext /\ Observe(emitted')
Spec == Init /\ [][Next]_vars

-----------------------------------------------------------------------------
(* An accepted capture binds every effect to the request it was meant for,   *)
(* whatever markers were lost, torn or unseen, and whatever guard was held   *)
(* across an await: attribute.py fails closed or is right.                   *)
AcceptedIsRight == Accepted => BoundToOwner

(* A capture in which nothing went wrong and no poll is in progress is       *)
(* accepted: the layer's markers never contradict each other, however polls  *)
(* interleave and tasks migrate.                                             *)
CleanIsAccepted ==
    (faults = {} /\ \A t \in Threads : phase[t] = "idle") => Accepted

(* As long as nothing went wrong, the attributor's context of every thread   *)
(* is the layer's innermost frame, and that frame is for the request the     *)
(* code on the thread is meant for.                                          *)
AttributorFollows ==
    faults = {} =>
        \A t \in Threads :
            /\ state[t].request = Current(stack[t]).request
            /\ state[t].operation = Current(stack[t]).operation
            /\ phase[t] \in {"idle", "running"} =>
                    Current(stack[t]).request = Meant(t)
=============================================================================
