--------------------------- MODULE ContextRegistry ---------------------------
(***************************************************************************)
(* The trusted request registry of crates/causpan-runtime/src/context.rs.  *)
(* A registry numbers the requests of one session, joins the contexts of   *)
(* shared work, and appends one row per context to request-map.jsonl while *)
(* holding its mutex.  Every action below is one critical section: join    *)
(* computes the roots before it takes the lock, but from values that never *)
(* change (CausalContext is immutable).                                    *)
(*                                                                         *)
(* Hard part: writeln! on an unbuffered File is many write calls, so a     *)
(* failing one leaves nothing, a prefix of the row, or the row without its *)
(* newline; the tag and the request id are consumed all the same, and the  *)
(* next row continues the unfinished line.                                 *)
(***************************************************************************)
EXTENDS RequestMapping, FiniteSets

CONSTANTS Registries,   \* the sessions: one registry, one file each
          RpcIds,       \* request ids that are strings or integers
          MaxTag        \* u64::MAX

ASSUME RegistryAssumption == /\ MaxTag \in Nat \ {0}
                             /\ NoRpc \notin RpcIds

VARIABLES next,         \* next[r]: RegistryState.next
          requestIds,   \* requestIds[r]: RegistryState.request_ids
          lines,        \* lines[r]: the lines of request-map.jsonl
          terminated,   \* terminated[r]: the last line has its newline
          issued        \* the CausalContexts handed to callers

vars == <<next, requestIds, lines, terminated, issued>>

Tags == 1 .. MaxTag
Context == [namespace : Registries, tag : Tags, roots : SUBSET Tags]

Init ==
    /\ next = [r \in Registries |-> 1]
    /\ requestIds = [r \in Registries |-> {}]
    /\ lines = [r \in Registries |-> <<>>]
    /\ terminated = [r \in Registries |-> TRUE]
    /\ issued = {}

-----------------------------------------------------------------------------
(* The file of r after text is appended to it: a new line, or the rest of a  *)
(* line an earlier failed write left unfinished.                             *)
Appended(r, text) ==
    IF terminated[r] THEN Append(lines[r], text)
    ELSE [lines[r] EXCEPT ![Len(lines[r])] = Garbage]

WriteRow(r, row) ==
    /\ lines' = [lines EXCEPT ![r] = Appended(r, row)]
    /\ terminated' = [terminated EXCEPT ![r] = TRUE]

(* A failed writeln!: text is the row without its newline or a prefix of it. *)
WriteFails(r, row) ==
    \/ UNCHANGED <<lines, terminated>>
    \/ \E text \in {row, Garbage} :
          /\ lines' = [lines EXCEPT ![r] = Appended(r, text)]
          /\ terminated' = [terminated EXCEPT ![r] = FALSE]

IssueSameTag(r, row, roots) ==
    /\ next[r] < MaxTag
    /\ \/ /\ WriteRow(r, row)
          /\ issued' = issued \cup
                {[namespace |-> r, tag |-> next[r], roots |-> roots]}
       \/ WriteFails(r, row) /\ UNCHANGED issued
    /\ UNCHANGED next

(* Take the next tag, write its row, and hand the context out only if the    *)
(* write succeeded.  checked_add refuses the last tag.                       *)
Issue(r, row, roots) ==
    /\ next[r] < MaxTag
    /\ next' = [next EXCEPT ![r] = next[r] + 1]
    /\ \/ /\ WriteRow(r, row)
          /\ issued' = issued \cup
                {[namespace |-> r, tag |-> next[r], roots |-> roots]}
       \/ WriteFails(r, row) /\ UNCHANGED issued

(* Wrong: the result of HashSet::insert is ignored. *)
RequestUnchecked(r, id) ==
    /\ requestIds' = [requestIds EXCEPT ![r] = requestIds[r] \cup {id}]
    /\ \/ Issue(r, RequestRow(next[r], id), {next[r]})
       \/ /\ next[r] = MaxTag
          /\ UNCHANGED <<next, lines, terminated, issued>>

(* ContextRegistry::request.  The id is remembered before anything can fail. *)
Request(r, id) ==
    /\ id \notin requestIds[r]
    /\ requestIds' = [requestIds EXCEPT ![r] = requestIds[r] \cup {id}]
    /\ \/ Issue(r, RequestRow(next[r], id), {next[r]})
       \/ /\ next[r] = MaxTag
          /\ UNCHANGED <<next, lines, terminated, issued>>

(* Wrong: a join names its parents, not their roots. *)
ParentsOf(parents) == {p.tag : p \in parents}

RootsOf(parents) == UNION {p.roots : p \in parents}

(* Wrong: a context of another session may be joined. *)
JoinForeign(r, parents) ==
    /\ parents # {}
    /\ Issue(r, JoinRow(next[r], RootsOf(parents)), RootsOf(parents))
    /\ UNCHANGED requestIds

(* ContextRegistry::join.  Foreign contexts and an empty slice are refused;  *)
(* the refusals change nothing.                                              *)
Join(r, parents) ==
    /\ parents # {}
    /\ \A p \in parents : p.namespace = r
    /\ Issue(r, JoinRow(next[r], RootsOf(parents)), RootsOf(parents))
    /\ UNCHANGED requestIds

Next == \E r \in Registries :
            \/ \E id \in RpcIds : Request(r, id)
            \/ \E parents \in SUBSET issued : Join(r, parents)

Spec == Init /\ [][Next]_vars

-----------------------------------------------------------------------------
(* The types of the registry: in particular its counter stays a tag, so the  *)
(* u64 never wraps, and every line of the file is of a known kind.           *)
TypeOK ==
    /\ next \in [Registries -> Tags]
    /\ requestIds \in [Registries -> SUBSET RpcIds]
    /\ lines \in [Registries ->
            Seq([kind : {"request", "join", "garbage"}, context : 0 .. MaxTag,
                 rpc : RpcIds \cup {NoRpc}, parents : SUBSET Tags])]
    /\ terminated \in [Registries -> BOOLEAN]
    /\ issued \subseteq Context

Readable(r) == \A i \in DOMAIN lines[r] : lines[r][i].kind # "garbage"

(* A file with no torn line always passes load_request_mapping, whatever     *)
(* failures came between: no tag appears twice, and a join names only        *)
(* contexts of earlier rows.                                                 *)
ReadableIsLoadable == \A r \in Registries : Readable(r) => Loadable(lines[r])

(* The ownership attribute.py recomputes from an accepted file is the one    *)
(* the program carried in its contexts, for every context in anyone's hands. *)
MappingAgrees == \A r \in Registries : Loadable(lines[r]) =>
    \A c \in issued : c.namespace = r =>
        /\ c.tag \in DOMAIN Owners(lines[r])
        /\ Owners(lines[r])[c.tag] = c.roots

(* A request id names at most one row of the session, also when the write of *)
(* an earlier attempt failed half way: the attributor counts the rows of an  *)
(* id against the tools/call messages it saw.                                *)
OneRowPerId == \A r \in Registries : \A i, j \in DOMAIN lines[r] :
    (lines[r][i].kind = "request" /\ lines[r][j].kind = "request"
        /\ lines[r][i].rpc = lines[r][j].rpc) => i = j

(* The ownership a session has handed out; see ContextAlgebra. *)
Handed(r) == {c.tag : c \in {d \in issued : d.namespace = r}}
RootsHeld(r, tag) ==
    (CHOOSE c \in issued : c.namespace = r /\ c.tag = tag).roots

Algebra == INSTANCE ContextAlgebra WITH
    Sessions <- Registries, Numbers <- Tags,
    owners <- [r \in Registries |-> [c \in Handed(r) |-> RootsHeld(r, c)]]

(* The registry implements the abstract session: fresh tags, flat ownership, *)
(* nothing rebound, and a failed call hands out nothing.                     *)
ImplementsAlgebra == Algebra!AlgebraSpec
=============================================================================
