------------------------- MODULE MCSocketOwnership -------------------------
EXTENDS SocketOwnership

MCTids == {1, 2}
MCFds == {3, 4}

(* The program starts by opening a socket for request 1, so that the calls   *)
(* left before MaxCalls all have something to work on.                       *)
StartsWithSocket ==
    /\ calls = 1 => meant[Main] = 1 \/
          \E i \in DOMAIN entered : entered[i].op = "mark" /\ entered[i].request = 1
    /\ calls = 2 => IsOpen(Main, 3) \/
          \E i \in DOMAIN entered : entered[i].op = "socket"

(* Nothing is claimed after two calls raced. *)
Considered == ~raced /\ StartsWithSocket
=============================================================================
