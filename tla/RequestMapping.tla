--------------------------- MODULE RequestMapping ---------------------------
(***************************************************************************)
(* How attribute.py reads request-map.jsonl back after the run: the        *)
(* validation of load_request_mapping and the ownership table that         *)
(* Attributor._initialize builds from the rows, in file order.             *)
(***************************************************************************)
EXTENDS Naturals, Sequences

NoRpc == "no rpc id"     \* the rpc_id of a join row, which has none

RequestRow(tag, id) == [kind |-> "request", context |-> tag,
                        rpc |-> id, parents |-> {}]
JoinRow(tag, roots) == [kind |-> "join", context |-> tag,
                        rpc |-> NoRpc, parents |-> roots]

(* A line json.loads refuses: a prefix of a row, or two rows on one line. *)
Garbage == [kind |-> "garbage", context |-> 0, rpc |-> NoRpc, parents |-> {}]

ContextsBefore(lines, i) == {lines[j].context : j \in 1 .. (i - 1)}

(* load_request_mapping raises unless every line passes these checks. *)
Accepts(lines, i) ==
    /\ lines[i].kind \in {"request", "join"}
    /\ lines[i].context # 0
    /\ lines[i].context \notin ContextsBefore(lines, i)
    /\ lines[i].kind = "join" =>
            /\ lines[i].parents # {}
            /\ lines[i].parents \subseteq ContextsBefore(lines, i)

Loadable(lines) == \A i \in DOMAIN lines : Accepts(lines, i)

(* self.owners after the rows, as a function of the context.  A later join   *)
(* unions what the table already says about its parents.                     *)
Owners(lines) ==
    LET after[n \in 0 .. Len(lines)] ==
          IF n = 0 THEN [c \in {} |-> {}]
          ELSE LET row == lines[n]
                   old == after[n - 1]
                   own == IF row.kind = "request" THEN {row.context}
                          ELSE UNION {old[p] : p \in row.parents}
               IN  [c \in DOMAIN old \cup {row.context} |->
                        IF c = row.context THEN own ELSE old[c]]
    IN  after[Len(lines)]
=============================================================================
