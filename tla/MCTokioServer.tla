---------------------------- MODULE MCTokioServer ----------------------------
EXTENDS TokioServer

(* The requests of each run, from one with every field at its default. *)
Ask(tool) == [id |-> "fresh", method |-> "tools/call", tool |-> tool,
              slot |-> 0, rounds |-> 1, width |-> 1,
              joined |-> FALSE, detached |-> FALSE, cancel |-> FALSE]

Batch(slots, widths) ==
    {[Ask("batch_io") EXCEPT !.slot = s, !.width = w, !.joined = j] :
        s \in slots, w \in widths, j \in BOOLEAN}

(* A job that runs after its caller was answered, and one that fails then. *)
DetachedIo == [Ask("slot_io") EXCEPT !.detached = TRUE]
DetachedFailure == [DetachedIo EXCEPT !.rounds = 0]

(* Shared writes of three slots, beside work on one of them. *)
BatchRequests == Batch({0, 2}, {3}) \cup
    {[Ask("batch_io") EXCEPT !.slot = 1, !.width = 3],
     [Ask("batch_io") EXCEPT !.width = 2],
     [Ask("slot_io") EXCEPT !.slot = 1]}

(* Detached jobs, which may fail, and barriers. *)
JobRequests == {DetachedIo, DetachedFailure, Ask("barrier"),
                [Ask("slot_io") EXCEPT !.slot = 1]}

(* Every tool and every way to be refused, for one blocking thread. *)
PoolRequests == {[Ask("slot_io") EXCEPT !.rounds = 2], DetachedIo, DetachedFailure,
                 [Ask("slot_io") EXCEPT !.id = "invalid or reused"],
                 [Ask("slot_io") EXCEPT !.method = "not JSON"],
                 [Ask("cancel_probe") EXCEPT !.cancel = TRUE], Ask("fail_probe"),
                 [Ask("files") EXCEPT !.rounds = 2], Ask("barrier"),
                 Ask("spawn_slot"), Ask("unknown"),
                 [Ask("batch_io") EXCEPT !.width = 2],
                 [Ask("batch_io") EXCEPT !.width = 0],
                 [Ask("unknown") EXCEPT !.method = "answered at once"]}

(* What a second call may be on that thread. *)
Followers == {[Ask("slot_io") EXCEPT !.rounds = 2], DetachedIo, DetachedFailure,
              Ask("barrier"), [Ask("batch_io") EXCEPT !.width = 2]}
MCRequests == BatchRequests \cup JobRequests \cup PoolRequests
Received == {lines[n].request : n \in DOMAIN lines}

(* What is done to the file does not depend on when replies are printed or   *)
(* on when stdin is closed, and the background loop, in competing for        *)
(* threads, can only delay the others.                                       *)
NothingPrinted ==
    /\ runs[Background].at = "ready" /\ printed = {} /\ writer = "up"
    /\ serve.at = "reading"

(* Bounds: on one thread one of PoolRequests and one of Followers, and on    *)
(* more MaxLines of BatchRequests or of JobRequests.  On one thread it cuts  *)
(* off only lines a client need not send.                                    *)
OnOneThread == /\ Received \subseteq PoolRequests /\ Len(lines) <= 2
               /\ Len(lines) = 2 => lines[2].request \in Followers
OnMore == /\ Received \subseteq BatchRequests \/ Received \subseteq JobRequests
          /\ NothingPrinted
Explored == IF serve.threads = 1 THEN OnOneThread ELSE OnMore
==============================================================================
