------------------------- MODULE MCLibuvAttribution -------------------------
EXTENDS LibuvAttribution, TLC

CONSTANTS main, p1, p2, a1, a2, c1

MCPool == {p1, p2}
MCTids == {main, p1, p2}
MCAddresses == {a1, a2}
Symmetry == Permutations({p1, p2}) \cup Permutations({a1, a2})

(* Only the next event matters, never the last one. *)
WithoutLastEvent ==
    <<records, operation, fatal, current, next, owners, hooks, mapped, frames,
      waiting, queued, running, finished, meantFor, exit, faults, attributorVars>>

(* Two contexts with work and faults; and without either, contexts enough    *)
(* for a join of joins.                                                      *)
Explored == \/ next <= 3 /\ Len(frames) <= 2
            \/ /\ operation = 1 /\ faults = {}
               /\ DOMAIN waiting = {} \/ next <= 4

(* A capture refused for something that went wrong stays refused, and after *)
(* a failure that left no evidence AcceptedIsRight promises nothing.         *)
NothingUnseen == (errors = {} \/ faults = {}) /\ "unseen" \notin faults
=============================================================================
