--------------------------- MODULE ContextAlgebra ---------------------------
(***************************************************************************)
(* What a provenance context is, for every producer of contexts in the     *)
(* repository: the Rust ContextRegistry (context.rs) and the JavaScript    *)
(* request wrapper (instrument.mjs).  A session hands out tags.  A request *)
(* tag owns itself; a join tag owns the union of what its parents own, so  *)
(* ownership is flat: the owners of any context are request tags.          *)
(* The two producers are shown to implement this module.                   *)
(***************************************************************************)
EXTENDS FiniteSets

CONSTANTS Sessions,   \* capture sessions, each with its own name space of tags
          Numbers     \* the tags a session may hand out

VARIABLE owners       \* owners[s] maps every tag handed out in s to request tags

-----------------------------------------------------------------------------
(* f extended, or overwritten, at x. *)
With(f, x, v) == [y \in DOMAIN f \cup {x} |-> IF y = x THEN v ELSE f[y]]

AlgebraInit == owners = [s \in Sessions |-> [c \in {} |-> {}]]

(* A new request: a fresh tag that is its own single owner. *)
Register(s, c) ==
    /\ c \notin DOMAIN owners[s]
    /\ owners' = [owners EXCEPT ![s] = With(owners[s], c, {c})]

(* Shared work: a fresh tag owned by all owners of at least one parent. *)
Combine(s, c, parents) ==
    /\ c \notin DOMAIN owners[s]
    /\ parents # {}
    /\ owners' = [owners EXCEPT ![s] =
                    With(owners[s], c, UNION {owners[s][p] : p \in parents})]

AlgebraNext == \E s \in Sessions, c \in Numbers :
            \/ Register(s, c)
            \/ \E parents \in SUBSET DOMAIN owners[s] : Combine(s, c, parents)

AlgebraSpec == AlgebraInit /\ [][AlgebraNext]_owners

-----------------------------------------------------------------------------
(* Every session keeps one table, and a table maps tags to sets of tags.    *)
AlgebraTypes == /\ DOMAIN owners = Sessions
          /\ \A s \in Sessions :
                /\ owners[s] = [c \in DOMAIN owners[s] |-> owners[s][c]]
                /\ DOMAIN owners[s] \subseteq Numbers
                /\ \A c \in DOMAIN owners[s] : owners[s][c] \subseteq Numbers

(* Ownership is grounded and flat: every context has an owner, and every     *)
(* owner is a request of the same session that owns exactly itself.  This is *)
(* what lets the attributor print the request ids of a joined effect without *)
(* walking a graph (roots: BTreeSet in context.rs, owners in attribute.py).  *)
Grounded == \A s \in Sessions : \A c \in DOMAIN owners[s] :
                /\ owners[s][c] # {}
                /\ \A o \in owners[s][c] :
                        o \in DOMAIN owners[s] /\ owners[s][o] = {o}

(* A tag keeps its owners for the whole session: no step rebinds it, so an   *)
(* effect bound early and one bound late agree on what the tag means.        *)
KeepsOwners == \A s \in Sessions : \A c \in DOMAIN owners[s] :
                  c \in DOMAIN owners'[s] /\ owners'[s][c] = owners[s][c]
Immutable == [][KeepsOwners]_owners
=============================================================================
