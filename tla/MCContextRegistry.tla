-------------------------- MODULE MCContextRegistry --------------------------
(* Two sessions, three request ids, tags up to MaxTag - 1. *)
EXTENDS ContextRegistry, TLC

CONSTANTS s1, s2, i1, i2, i3

MCRegistries == {s1, s2}
MCRpcIds == {i1, i2, i3}
Symmetry == Permutations({i1, i2, i3}) \cup Permutations({s1, s2})
=============================================================================
