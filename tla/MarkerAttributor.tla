-------------------------- MODULE MarkerAttributor --------------------------
(***************************************************************************)
(* The state machine of experiments/mcp/attribute.py that turns the        *)
(* ordered kernel trace back into causal context.  It reads two kinds of   *)
(* events: marker writes of the runtime bridges and of the IPC peers, and  *)
(* the effects (all other syscalls), which it binds to the context their   *)
(* thread is in.  The tool runs after the capture; since it is a fold over *)
(* the trace, it is modelled as a consumer that keeps up with it.          *)
(*                                                                         *)
(* A lost or torn marker must make the whole capture refused: see Observe. *)
(***************************************************************************)
EXTENDS TraceEvents, FiniteSets

CONSTANTS Tids,       \* traced threads
          Mapped      \* contexts of request-map.jsonl, all different from 0

VARIABLES state,        \* per thread: the context it runs in
          operations,   \* per submitted operation: its life cycle
          activeWork,   \* per thread: operations entered and not left
          runtimeSpans, \* per runtime span: the request that owns it
          ipcJobs,      \* per IPC job sent: its life cycle
          ipcActive,    \* per thread: the IPC job it executes, or NoJob
          errors,       \* reasons to refuse the capture
          bound         \* rows written so far, as <<true owner, context>>

attributorVars == <<state, operations, activeWork, runtimeSpans,
                    ipcJobs, ipcActive, errors, bound>>

TRANSITIONS == {"JS_CONTEXT", "WORK_ENTER", "WORK_LEAVE", "DONE_ENTER",
                "DONE_LEAVE"}

NoContext == [request |-> 0, operation |-> 0, origin |-> "unobserved",
              job |-> NoJob]

AttributorInit ==
    /\ state = [t \in Tids |-> NoContext]
    /\ operations = [o \in {} |-> {}]
    /\ activeWork = [t \in Tids |-> <<>>]
    /\ runtimeSpans = [s \in {} |-> 0]
    /\ ipcJobs = [j \in {} |-> {}]
    /\ ipcActive = [t \in Tids |-> NoJob]
    /\ errors = {}
    /\ bound = {}

-----------------------------------------------------------------------------
Put(f, x, v) == [y \in DOMAIN f \cup {x} |-> IF y = x THEN v ELSE f[y]]
Refusal(bad, reason) == IF bad THEN {reason} ELSE {}
(* Wrong: request 0, no request at all, must be in the mapping too. *)
UnmappedRequest(e) == Refusal(e.request \notin Mapped, "unknown request context")

UnknownRequest(e) ==
    Refusal(e.request # 0 /\ e.request \notin Mapped, "unknown request context")

(* The last step of _process_marker for the five transition kinds. *)
EnterContext(e, refusals) ==
    /\ state' = [state EXCEPT ![e.tid] =
          [request |-> e.request, operation |-> e.operation, job |-> NoJob,
           origin |-> CASE e.kind = "WORK_ENTER" -> "worker"
                        [] e.kind = "DONE_ENTER" -> "completion"
                        [] OTHER -> "async_context"]]
    /\ errors' = errors \cup refusals \cup UnknownRequest(e)
          \cup Refusal(ipcActive[e.tid] # NoJob, "transition inside IPC job")

OnSubmit(e) ==
    /\ e.kind = "SUBMIT"
    /\ operations' = Put(operations, e.operation,
          [request |-> e.request, started |-> FALSE, finished |-> FALSE,
           completed |-> FALSE, status |-> "none"])
    /\ runtimeSpans' = IF e.span = 0 \/ e.span \in DOMAIN runtimeSpans
                       THEN runtimeSpans
                       ELSE Put(runtimeSpans, e.span, e.request)
    /\ errors' = errors \cup UnknownRequest(e)
          \cup Refusal(e.operation \in DOMAIN operations, "duplicate operation")
          \cup Refusal(e.span # 0 /\ runtimeSpans'[e.span] # e.request,
                       "span changed identity")
    /\ UNCHANGED <<state, activeWork, ipcJobs, ipcActive, bound>>

OnWorkEnter(e) ==
    LET op == e.operation
        invalid == \/ op \notin DOMAIN operations
                   \/ operations[op].request # e.request
                   \/ operations[op].started
    IN  /\ e.kind = "WORK_ENTER"
        /\ operations' = IF invalid THEN operations
                         ELSE [operations EXCEPT ![op].started = TRUE]
        /\ activeWork' = [activeWork EXCEPT ![e.tid] = Append(@, op)]
        /\ EnterContext(e, Refusal(invalid, "invalid work entry"))
        /\ UNCHANGED <<runtimeSpans, ipcJobs, ipcActive, bound>>

OnWorkLeave(e) ==
    LET work == activeWork[e.tid]
        top == LastOf(work)
    IN  /\ e.kind = "WORK_LEAVE"
        /\ activeWork' = IF work = <<>> THEN activeWork
              ELSE [activeWork EXCEPT ![e.tid] = FrontOf(work)]
        /\ operations' = IF work = <<>> \/ top \notin DOMAIN operations
                         THEN operations
                         ELSE [operations EXCEPT ![top].finished = TRUE]
        /\ EnterContext(e, Refusal(work = <<>>, "leave without enter"))
        /\ UNCHANGED <<runtimeSpans, ipcJobs, ipcActive, bound>>

OnContext(e) ==
    /\ e.kind \in TRANSITIONS \ {"WORK_ENTER", "WORK_LEAVE"}
    /\ EnterContext(e, {})
    /\ UNCHANGED <<operations, activeWork, runtimeSpans, ipcJobs, ipcActive, bound>>

OnComplete(e) ==
    LET op == e.operation
        invalid == \/ op \notin DOMAIN operations
                   \/ operations[op].completed
                   \/ operations[op].request # e.request
    IN  /\ e.kind = "COMPLETE"
        /\ operations' = IF invalid THEN operations
              ELSE [operations EXCEPT ![op].completed = TRUE,
                                      ![op].status = e.status]
        /\ errors' = errors \cup Refusal(invalid, "invalid completion")
                            \cup UnknownRequest(e)
        /\ UNCHANGED <<state, activeWork, runtimeSpans, ipcJobs, ipcActive, bound>>

OnFailure(e) ==
    /\ e.kind \in {"INVARIANT_FAILURE", "DUPLICATE_WORK"}
    /\ errors' = errors \cup {e.kind}
    /\ UNCHANGED <<state, operations, activeWork, runtimeSpans, ipcJobs,
                   ipcActive, bound>>

OnIpcSend(e) ==
    LET invalid == e.job \in DOMAIN ipcJobs
    IN  /\ e.kind = "IPC_SEND"
        /\ ipcJobs' = IF invalid THEN ipcJobs
              ELSE Put(ipcJobs, e.job, [request |-> e.request,
                        started |-> FALSE, finished |-> FALSE])
        /\ errors' = errors \cup UnknownRequest(e)
              \cup Refusal(invalid, "duplicate IPC job")
              \cup Refusal(state[e.tid] = NoContext \/
                           state[e.tid].request # e.request,
                           "IPC sender context mismatch")
        /\ UNCHANGED <<state, operations, activeWork, runtimeSpans, ipcActive, bound>>

(* A job that may still start or be cancelled, sent for this request. *)
Pending(e) == /\ e.job \in DOMAIN ipcJobs
              /\ ~ipcJobs[e.job].started
              /\ ~ipcJobs[e.job].finished
              /\ ipcJobs[e.job].request = e.request

OnIpcCancel(e) ==
    /\ e.kind = "IPC_CANCEL"
    /\ ipcJobs' = IF Pending(e) THEN [ipcJobs EXCEPT ![e.job].finished = TRUE]
                  ELSE ipcJobs
    /\ errors' = errors \cup UnknownRequest(e)
                        \cup Refusal(~Pending(e), "invalid IPC cancellation")
    /\ UNCHANGED <<state, operations, activeWork, runtimeSpans, ipcActive, bound>>

OnIpcEnter(e) ==
    LET valid == Pending(e) /\ ipcActive[e.tid] = NoJob
    IN  /\ e.kind = "IPC_ENTER"
        /\ ipcJobs' = IF valid THEN [ipcJobs EXCEPT ![e.job].started = TRUE]
                      ELSE ipcJobs
        /\ ipcActive' = IF valid THEN [ipcActive EXCEPT ![e.tid] = e.job]
                        ELSE ipcActive
        /\ state' = [state EXCEPT ![e.tid] =
              [request |-> e.request, operation |-> 0,
               origin |-> "ipc_worker", job |-> e.job]]
        /\ errors' = errors \cup UnknownRequest(e)
                            \cup Refusal(~valid, "invalid IPC entry")
        /\ UNCHANGED <<operations, activeWork, runtimeSpans, bound>>

OnIpcLeave(e) ==
    LET valid == /\ e.job \in DOMAIN ipcJobs
                 /\ ipcActive[e.tid] = e.job
                 /\ state[e.tid].request = e.request
    IN  /\ e.kind = "IPC_LEAVE"
        /\ ipcJobs' = IF valid THEN [ipcJobs EXCEPT ![e.job].finished = TRUE]
                      ELSE ipcJobs
        /\ ipcActive' = IF valid THEN [ipcActive EXCEPT ![e.tid] = NoJob]
                        ELSE ipcActive
        /\ state' = [state EXCEPT ![e.tid] =
              [request |-> 0, operation |-> 0,
               origin |-> "async_context", job |-> NoJob]]
        /\ errors' = errors \cup UnknownRequest(e)
                            \cup Refusal(~valid, "invalid IPC leave")
        /\ UNCHANGED <<operations, activeWork, runtimeSpans, bound>>

(* Wrong: the row names the operation of its thread. *)
OnEffectOperation(e) ==
    /\ e.kind = "EFFECT"
    /\ bound' = bound \cup {<<e.request, state[e.tid].operation>>}
    /\ UNCHANGED <<state, operations, activeWork, runtimeSpans, ipcJobs,
                   ipcActive, errors>>

(* _process_trace for an effect of a traced thread: a row with its context. *)
OnEffect(e) ==
    /\ e.kind = "EFFECT"
    /\ bound' = bound \cup {<<e.request, state[e.tid].request>>}
    /\ UNCHANGED <<state, operations, activeWork, runtimeSpans, ipcJobs,
                   ipcActive, errors>>

-----------------------------------------------------------------------------
(* A marker that is on the native log and not in the trace (or the other way *)
(* round) differs in _validate_invariants; a torn one is no JSON; a failed   *)
(* write the tracer saw raises in marker().  A failed write nobody saw       *)
(* leaves no evidence at all.                                                *)
Unusable(e) == ~(e.captured /\ e.written = "whole")

Observe(e) ==
    \/ e.kind = "NONE" /\ UNCHANGED attributorVars
    \/ /\ Unusable(e)
       /\ errors' = errors \cup
             Refusal(e.captured \/ e.written # "failed", "incomplete capture")
       /\ UNCHANGED <<state, operations, activeWork, runtimeSpans, ipcJobs,
                      ipcActive, bound>>
    \/ /\ ~Unusable(e)
       /\ \/ OnSubmit(e)  \/ OnWorkEnter(e) \/ OnWorkLeave(e) \/ OnContext(e)
          \/ OnComplete(e) \/ OnFailure(e) \/ OnEffect(e)
          \/ OnIpcSend(e) \/ OnIpcCancel(e) \/ OnIpcEnter(e) \/ OnIpcLeave(e)

(* Wrong: IPC jobs may be left open. *)
JobsIgnored == TRUE
JobsClosed == /\ \A t \in Tids : ipcActive[t] = NoJob
              /\ \A j \in DOMAIN ipcJobs : ipcJobs[j].finished

(* _validate_invariants over the tables, at the end of the capture. *)
CompleteLifeCycles ==
    /\ \A o \in DOMAIN operations :
          /\ operations[o].completed
          /\ operations[o].status = "ok" =>
                operations[o].started /\ operations[o].finished
          /\ operations[o].status = "cancelled" => ~operations[o].started
    /\ \A t \in Tids : activeWork[t] = <<>>
    /\ JobsClosed

(* report['valid'] if the capture ended in this state. *)
Accepted == errors = {} /\ CompleteLifeCycles

(* No row of an accepted capture names an owner other than the true one. *)
BoundToOwner == \A row \in bound : row[2] = row[1]
=============================================================================
