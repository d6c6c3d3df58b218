-------------------------- MODULE LibuvAttribution --------------------------
(***************************************************************************)
(* The Node bridge, its trace, and the attributor: does an accepted        *)
(* capture bind every effect of the main and pool threads to the request   *)
(* whose store the program ran it under?                                   *)
(***************************************************************************)
EXTENDS LibuvBridge, MarkerAttributor

(* The traced threads are the process's, and the mapping has its requests. *)
ASSUME AttributionAssumption ==
    Threads \subseteq Tids /\ 1 .. MaxContext \subseteq Mapped

vars == <<bridgeVars, attributorVars>>

Init == BridgeInit /\ AttributorInit
Next == BridgeNext /\ Observe(emitted')
Spec == Init /\ [][Next]_vars

-----------------------------------------------------------------------------
(* An accepted capture binds every effect to the request it ran for, also    *)
(* when a marker was torn or lost: attribute.py fails closed or is right.    *)
(* Unlike the Rust layer, which panics, emit only sets fatal_code and lets   *)
(* the callback go on, so a marker that was neither written nor seen failing *)
(* by the tracer leaves no evidence; that double fault is excluded.          *)
AcceptedIsRight == "unseen" \notin faults => (Accepted => BoundToOwner)

(* A process that lost no marker and ended normally leaves a capture that is *)
(* accepted, whatever was cancelled, reused or nested on the way.            *)
CleanIsAccepted == (faults = {} /\ exit = "normal") => Accepted
=============================================================================
