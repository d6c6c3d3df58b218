------------------------ MODULE DescriptorTransfers ------------------------
(***************************************************************************)
(* One AF_UNIX datagram channel between traced processes, and the pairing  *)
(* of its messages by descriptor_transfers.py, which follows SCM_RIGHTS    *)
(* descriptors from the message that sent them to the one that received    *)
(* them without reading a payload.                                         *)
(*                                                                         *)
(* The kernel keeps a flow in order: message n of a flow is its n-th       *)
(* enqueue, and the n-th dequeue takes it.  The trace shows only when a    *)
(* call was entered and when it returned, on a clock that may show the     *)
(* same time for several steps.                                            *)
(***************************************************************************)
EXTENDS Naturals, Sequences

CONSTANTS Threads, Flows,
          MaxTime,          \* bound on the clock
          MaxMessages       \* bound on the messages of a flow

ASSUME TransferAssumption ==
    Flows # {} /\ MaxTime \in Nat /\ MaxMessages \in Nat

Sides == {"send", "receive"}

VARIABLES clock,
          call,       \* the call each thread is in
          count,      \* messages enqueued and dequeued, per flow and side
          carries,    \* per flow and message, whether it carries descriptors
          log,        \* message events, per flow and side
          errors,     \* channel['errors']
          killed      \* a thread died in a call that had taken effect

vars == <<clock, call, count, carries, log, errors, killed>>

NoCall == [phase |-> "none", flow |-> CHOOSE f \in Flows : TRUE,
           side |-> "send", start |-> 0, message |-> 0, rights |-> FALSE]

InCall(t) == call[t].phase # "none"
Entered(t) == call[t].phase = "entered"
Effective(t) == call[t].phase = "effective"

Init ==
    /\ clock = 1
    /\ call = [t \in Threads |-> NoCall]
    /\ count = [f \in Flows |-> [s \in Sides |-> 0]]
    /\ carries = [f \in Flows |-> <<>>]
    /\ log = [f \in Flows |-> [s \in Sides |-> <<>>]]
    /\ errors = {} /\ killed = FALSE

Tick == /\ clock < MaxTime
        /\ clock' = clock + 1
        /\ UNCHANGED <<call, count, carries, log, errors, killed>>

(* rights: a sendmsg that passes descriptors, a recvmsg that takes control.  *)
EnterCall(t) ==
    /\ ~InCall(t)
    /\ \E f \in Flows, s \in Sides, r \in BOOLEAN :
          call' = [call EXCEPT ![t] = [phase |-> "entered", flow |-> f, side |-> s,
                             start |-> clock, message |-> 0, rights |-> r]]
    /\ UNCHANGED <<clock, count, carries, log, errors, killed>>

(* What call c has done to message n of its flow. *)
Done(c, n, rights) == [phase |-> "effective", flow |-> c.flow, side |-> c.side,
                       start |-> c.start, message |-> n, rights |-> rights]

Counted(f, s) == [count EXCEPT ![f][s] = @ + 1]

Enqueue(t) ==
    LET c == call[t]
        n == count[c.flow]["send"] + 1
    IN  /\ Entered(t) /\ c.side = "send" /\ n <= MaxMessages
        /\ count' = Counted(c.flow, "send")
        /\ carries' = [carries EXCEPT ![c.flow] = Append(@, c.rights)]
        /\ call' = [call EXCEPT ![t] = Done(c, n, c.rights)]
        /\ UNCHANGED <<clock, log, errors, killed>>

(* A receive that takes no control drops the descriptors of its message. *)
Dequeue(t) ==
    LET c == call[t]
        n == count[c.flow]["receive"] + 1
    IN  /\ Entered(t) /\ c.side = "receive" /\ n <= count[c.flow]["send"]
        /\ count' = Counted(c.flow, "receive")
        /\ call' = [call EXCEPT ![t] = Done(c, n, c.rights /\ carries[c.flow][n])]
        /\ UNCHANGED <<clock, carries, log, errors, killed>>

(* The call returns what it did; a receive may find its control truncated. *)
ReturnCall(t) ==
    LET c == call[t] IN
    /\ Effective(t)
    /\ log' = [log EXCEPT ![c.flow][c.side] = Append(@,
                  [start |-> c.start, done |-> clock, message |-> c.message,
                   rights |-> c.rights])]
    /\ call' = [call EXCEPT ![t] = NoCall]
    /\ \/ UNCHANGED errors
       \/ c.rights /\ c.side = "receive" /\ errors' = errors \cup {"truncated"}
    /\ UNCHANGED <<clock, count, carries, killed>>

(* It fails without effect, which the pairing passes over, or is restarted   *)
(* and the trace does not say what it returned.                              *)
FailCall(t) ==
    /\ Entered(t)
    /\ call' = [call EXCEPT ![t] = NoCall]
    /\ UNCHANGED <<clock, count, carries, log, errors, killed>>

LoseOutcome(t) ==
    /\ InCall(t)
    /\ call' = [call EXCEPT ![t] = NoCall]
    /\ errors' = errors \cup {"unknown outcome"}
    /\ UNCHANGED <<clock, count, carries, log, killed>>

(* The thread is killed in the call.  The parser drops the call: it is       *)
(* terminal_interrupted, which refuses nothing.                              *)
Kill(t) ==
    /\ InCall(t)
    /\ call' = [call EXCEPT ![t] = NoCall]
    /\ killed' = (killed \/ Effective(t))
    /\ UNCHANGED <<clock, count, carries, log, errors>>

(* Traffic no message event shows: sendmmsg, recvmmsg, splice, io_uring, an  *)
(* endpoint that was itself passed on.                                       *)
HiddenTraffic(f, s) ==
    /\ count[f][s] < IF s = "send" THEN MaxMessages ELSE count[f]["send"]
    /\ count' = Counted(f, s)
    /\ carries' = IF s = "send" THEN [carries EXCEPT ![f] = Append(@, TRUE)]
                  ELSE carries
    /\ errors' = errors \cup {"unsupported"}
    /\ UNCHANGED <<clock, call, log, killed>>

Next == \/ Tick
        \/ \E t \in Threads :
              \/ EnterCall(t) \/ Enqueue(t) \/ Dequeue(t) \/ ReturnCall(t)
              \/ FailCall(t) \/ LoseOutcome(t) \/ Kill(t)
        \/ \E f \in Flows, s \in Sides : HiddenTraffic(f, s)

Spec == Init /\ [][Next]_vars

-----------------------------------------------------------------------------
(* Wrong: calls that share a moment count as ordered. *)
TouchingSerialized(events) ==
    \A i, j \in DOMAIN events :
        i < j => \/ events[i].done <= events[j].start
                 \/ events[j].done < events[i].start

(* No two calls of a side share a moment.  The code sorts by start and looks *)
(* at neighbours; of calls that share none, the order of starting is the     *)
(* order of returning, in which log has them.                                *)
Serialized(events) ==
    \A i, j \in DOMAIN events :
        i < j => \/ events[i].done < events[j].start
                 \/ events[j].done < events[i].start

Balanced(f) == Len(log[f].send) = Len(log[f].receive)

(* A message that shows descriptors on one side only is incomplete. *)
RightsAgree(f) ==
    \A i \in DOMAIN log[f].send \cap DOMAIN log[f].receive :
        log[f].send[i].rights = log[f].receive[i].rights

(* Received no earlier than sent. *)
Causal(f) ==
    \A i \in DOMAIN log[f].send \cap DOMAIN log[f].receive :
        log[f].send[i].start <= log[f].receive[i].done

ChannelAccepted ==
    /\ errors = {}
    /\ \A f \in Flows :
          /\ Balanced(f) /\ RightsAgree(f) /\ Causal(f)
          /\ \A s \in Sides : Serialized(log[f][s])

(* pair_transfers: message i sent with message i received, where descriptors *)
(* were passed.                                                              *)
Pairs(f) == IF ~ChannelAccepted THEN {}
            ELSE {i \in DOMAIN log[f].send : log[f].send[i].rights}

Quiet == \A t \in Threads : ~InCall(t)

(* Every descriptor transfer reported joins the send and the receive of one  *)
(* message, whatever calls failed, were interrupted, overlapped or went by   *)
(* unseen, unless a thread was killed in a call that had taken effect: a     *)
(* channel is understood completely or not at all.                           *)
PairsAreTransfers ==
    Quiet /\ ~killed =>
        \A f \in Flows : \A i \in Pairs(f) :
            log[f].send[i].message = log[f].receive[i].message
=============================================================================
