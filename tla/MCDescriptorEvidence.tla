------------------------ MODULE MCDescriptorEvidence ------------------------
(* Two ways of telling from the entries and returns of calls alone what a    *)
(* descriptor means.  They share nothing, so that each is explored while     *)
(* the other is at rest.                                                     *)
EXTENDS DescriptorTransfers, NativeDescriptors, TLC

CONSTANTS t1, t2, t3, d1, d2
MCThreads == {t1, t2, t3}
MCDebugged == {d1, d2}
MCNumbers == {3, 4}
Symmetry == Permutations(MCThreads)

TransfersAtRest ==
    clock = 1 /\ errors = {} /\ ~killed
    /\ \A t \in MCThreads : ~InCall(t)
    /\ \A f \in Flows, s \in Sides : count[f][s] = 0 /\ log[f][s] = <<>>
NativeAtRest ==
    /\ ~controls /\ closes = 0 /\ installs = 0 /\ references = {}
    /\ \A t \in MCDebugged : Doing(t, {"none"})

EvidenceNext == \/ NativeAtRest /\ Next /\ UNCHANGED nativeVars
                \/ TransfersAtRest /\ NativeNext /\ UNCHANGED vars
EvidenceInit == Init /\ NativeInit
EvidenceSpec == EvidenceInit /\ [][EvidenceNext]_<<vars, nativeVars>>

(* What rejects the channel is never taken back. *)
NotYetRejected ==
    /\ errors = {} /\ ~killed
    /\ \A f \in Flows, s \in Sides : Serialized(log[f][s])
=============================================================================
