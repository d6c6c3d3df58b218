----------------------------- MODULE Baselines -----------------------------
(***************************************************************************)
(* What analyze.py and compare_baselines.py make of a session without      *)
(* markers: the candidates each strategy names for a system call of the    *)
(* server, and the count of how they fare against the request whose file   *)
(* it is.  A position in history stands for its time.                      *)
(***************************************************************************)
EXTENDS McpSession, FiniteSetsExt

RowsOf(r, kinds) == {i \in DOMAIN history : history[i].id = r /\ history[i].kind \in kinds}

Calls == {history[i].id : i \in {j \in DOMAIN history : history[j].kind = "request"}}

Start(r) == Min(RowsOf(r, {"request"}))
Ended(r) == RowsOf(r, {"answer", "error"}) # {}
End(r) == Max(RowsOf(r, {"answer", "error"}))

(* System calls on the files of the sandbox. *)
Data == {i \in DOMAIN history : history[i].kind \in {"open", "read", "close"}}

(* Every call names a file of its own, so the file of a system call tells    *)
(* whose it is.                                                              *)
Oracle(e) == history[e].id

Covering(time) == {r \in Calls : Ended(r) /\ Start(r) <= time /\ time <= End(r)}

(* strategy_camflow, strategy_otel and request_window of analyze.py. *)
Window(e) == Covering(e)

(* build_fd_epoch: a number keeps the time of its first open. *)
Opens(d) == {i \in Data : history[i].kind = "open" /\ history[i].fd = d}
Epoch(d) == Min(Opens(d))

(* An open names its file by path, not by a descriptor. *)
HasEpoch(e) == history[e].kind # "open" /\ Opens(history[e].fd) # {}

TetragonFd(e) == IF HasEpoch(e) THEN Covering(Epoch(history[e].fd)) ELSE {}
TetragonBest(e) == IF HasEpoch(e) THEN TetragonFd(e) ELSE Window(e)

(* evaluate_strategy, for the candidates a strategy named. *)
Evaluate(candidates, labelled) ==
    LET right == {e \in labelled : candidates[e] = {Oracle(e)}}
        among == {e \in labelled : Oracle(e) \in candidates[e]} \ right
        none == {e \in labelled : candidates[e] = {}}
    IN  [oracle_labelled |-> Cardinality(labelled),
         unattributed |-> Cardinality(none),
         correct_singleton |-> Cardinality(right),
         truth_in_candidates |-> Cardinality(among),
         wrong_candidates |-> Cardinality(labelled \ (right \cup among \cup none))]

(* analyze: an experiment with nothing recorded, a call without an answer,   *)
(* or an error is refused.                                                   *)
AnalysisPasses ==
    /\ Calls # {} /\ Data # {}
    /\ \A r \in Calls : Ended(r) /\ RowsOf(r, {"error"}) = {}

-----------------------------------------------------------------------------
(* Every system call of an answered call lies in the window the proxy logged *)
(* for it: evaluated on those, the window strategies leave nothing           *)
(* unattributed and never miss the truth, and neither does tetragon_best     *)
(* where no descriptor number was opened twice.                              *)
WindowsHoldTruth ==
    LET answered == {e \in Data : Ended(Oracle(e))}
        steady == {e \in answered : Cardinality(Opens(history[e].fd)) = 1}
        Fair(result) == result.unattributed = 0 /\ result.wrong_candidates = 0
    IN  /\ Fair(Evaluate([e \in answered |-> Window(e)], answered))
        /\ Fair(Evaluate([e \in steady |-> TetragonBest(e)], steady))
=============================================================================
