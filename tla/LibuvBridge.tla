----------------------------- MODULE LibuvBridge -----------------------------
(***************************************************************************)
(* The Node bridge: experiments/mcp/native/context.cc, which wraps libuv's *)
(* work submission, and experiments/mcp/instrument.mjs, which keeps the    *)
(* native context of the main thread equal to AsyncLocalStorage's store.   *)
(*                                                                         *)
(* External, modelled by what the bridge sees of it: libuv (a queue, pool  *)
(* threads, done callbacks on the main loop, cancellation of queued work), *)
(* Node's async resources (a callback runs with the store it was created   *)
(* under, between a before and an after hook), and the application.        *)
(* The request the program means is always the store.                      *)
(***************************************************************************)
EXTENDS TraceEvents, FiniteSets

CONSTANTS Pool, Main,     \* libuv's threads and the main thread
          Addresses,      \* addresses of uv_work_t / uv__work structures
          Callbacks,      \* async resources the application may create
          MaxContext,     \* bound on the contexts instrument.mjs numbers
          MaxOperation,   \* bound on submitted work
          MaxDepth        \* bound on frames nested on the main thread

Nothing == "nothing"

ASSUME BridgeAssumption == /\ Main \notin Pool /\ Nothing \notin Addresses
                           /\ {MaxContext, MaxOperation, MaxDepth} \subseteq Nat

VARIABLES
    records,     \* context.cc: work address -> its submitter's context
    operation,   \* context.cc: next_operation
    fatal,       \* context.cc: fatal_code
    current,     \* context.cc: current_request, current_operation per thread
    next,        \* instrument.mjs: next
    owners,      \* instrument.mjs: owners
    hooks,       \* instrument.mjs: stack, what the before hooks saved
    mapped,      \* contexts with a row in request-map.jsonl
    frames,      \* the main thread: nested callbacks, scopes and done calls
    waiting,     \* async resources created and not yet called: their store
    queued,      \* libuv: work not yet taken by a thread
    running,     \* libuv: the work each pool thread executes
    finished,    \* libuv: work whose done callback is due, with its status
    meantFor,    \* history: the store under which each work was submitted
    exit,        \* how the process ended, "no" while it runs
    faults,      \* history: what went wrong in the capture
    emitted      \* the event of the last step

bridgeVars == <<records, operation, fatal, current, next, owners, hooks, mapped,
                frames, waiting, queued, running, finished, meantFor, exit,
                faults, emitted>>

Outside == [request |-> 0, operation |-> 0]
Threads == Pool \cup {Main}

BridgeInit ==
    /\ records = [a \in {} |-> Outside]
    /\ operation = 1
    /\ fatal = 0
    /\ current = [t \in Threads |-> Outside]
    /\ next = 1
    /\ owners = [c \in {} |-> {}]
    /\ hooks = <<>>
    /\ mapped = {}
    /\ frames = <<>>
    /\ waiting = [c \in {} |-> 0]
    /\ queued = {}
    /\ running = [t \in Pool |-> Nothing]
    /\ finished = {}
    /\ meantFor = [a \in {} |-> 0]
    /\ exit = "no"
    /\ faults = {}
    /\ emitted = Silence(Main)

-----------------------------------------------------------------------------
Extend(f, x, v) == [y \in DOMAIN f \cup {x} |-> IF y = x THEN v ELSE f[y]]
Without(f, x) == [y \in DOMAIN f \ {x} |-> f[y]]

(* emit: a marker that is not written whole sets fatal_code and returns.     *)
(* "unseen": the write failed and the tracer missed the failing call too.    *)
Emit(marker) ==
    \/ /\ emitted' \in Delivered(marker)
       /\ faults' = IF emitted'.captured THEN faults ELSE faults \cup {"capture"}
       /\ UNCHANGED fatal
    \/ /\ emitted' \in Undelivered(marker)
       /\ faults' = faults \cup
             IF emitted'.written = "failed" /\ ~emitted'.captured
             THEN {"unseen"} ELSE {"marker"}
       /\ fatal' = 86

Quiet == emitted' = Silence(Main) /\ UNCHANGED <<fatal, faults>>

(* set_context *)
SetContext(t, context, kind) ==
    /\ current' = [current EXCEPT ![t] = context]
    /\ Emit(Marker(kind, t, context.request, context.operation))

(* native.context(request), called from JavaScript: a marker only on change. *)
NativeContext(request) ==
    IF current[Main] = [request |-> request, operation |-> 0]
    THEN Quiet /\ UNCHANGED current
    ELSE SetContext(Main, [request |-> request, operation |-> 0], "JS_CONTEXT")

(* The main thread's nesting.  A frame knows the store its code runs under   *)
(* and what it must restore.                                                 *)
NewFrame(kind, store, saved) ==
    [kind |-> kind, store |-> store, saved |-> saved, stage |-> "called",
     work |-> Nothing, status |-> "ok", operation |-> 0]
Top == LastOf(frames)
InFrame(kinds) == exit = "no" /\ frames # <<>> /\ Top.kind \in kinds
Javascript == {"callback", "request", "parents", "without"}
Store == IF frames = <<>> THEN 0 ELSE Top.store
Push(frame) == Len(frames) < MaxDepth /\ frames' = Append(frames, frame)
Pop == frames' = FrontOf(frames)

workVars == <<records, operation, queued, running, finished, meantFor>>
scriptVars == <<next, owners, mapped>>

-----------------------------------------------------------------------------
(* before: the hook of an async resource whose callback starts. *)
Before(store) ==
    /\ NativeContext(store)
    /\ hooks' = Append(hooks, current[Main].request)
    /\ Push(NewFrame("callback", store, Outside))
    /\ UNCHANGED <<workVars, scriptVars, exit>>

(* Data arrives on stdin: its resource was created outside any request. *)
Receive ==
    /\ exit = "no" /\ frames = <<>> /\ next <= MaxContext
    /\ Before(0)
    /\ UNCHANGED waiting

(* A timer, promise continuation or runInAsyncScope of the application. *)
RunCallback(c) ==
    /\ exit = "no" /\ c \in DOMAIN waiting
    /\ (frames # <<>> => Top.stage # "entered")
    /\ Before(waiting[c])
    /\ waiting' = Without(waiting, c)

Defer(c) ==
    /\ InFrame(Javascript) /\ c \notin DOMAIN waiting
    /\ waiting' = Extend(waiting, c, Store)
    /\ Quiet
    /\ UNCHANGED <<workVars, scriptVars, current, hooks, frames, exit>>

(* after: restore what the matching before hook displaced. *)
After ==
    /\ InFrame({"callback"})
    /\ NativeContext(IF hooks = <<>> THEN 0 ELSE LastOf(hooks))
    /\ hooks' = IF hooks = <<>> THEN hooks ELSE FrontOf(hooks)
    /\ Pop
    /\ UNCHANGED <<workVars, scriptVars, waiting, exit>>

(* const request = next++; owners.set(request, roots) *)
Number(roots) ==
    /\ next' = next + 1
    /\ owners' = Extend(owners, next, roots)

(* Protocol._onrequest for tools/call: number the request, write its row,    *)
(* and run the handler under it.  A throwing writeSync leaves no row and     *)
(* never enters the scope.  stdio delivers messages outside any request.     *)
OnRequest ==
    /\ InFrame({"callback"}) /\ Store = 0
    /\ next <= MaxContext
    /\ Number({next})
    /\ \/ /\ mapped' = mapped \cup {next}
          /\ NativeContext(next)
          /\ Push(NewFrame("request", next, Outside))
       \/ /\ Quiet
          /\ UNCHANGED <<mapped, current, frames>>
    /\ UNCHANGED <<workVars, hooks, waiting, exit>>

(* Wrong: the finally of _onrequest is missing. *)
EndRequestAsIs ==
    /\ InFrame({"request"})
    /\ Quiet /\ UNCHANGED current
    /\ Pop
    /\ UNCHANGED <<workVars, scriptVars, hooks, waiting, exit>>

(* finally { native.context(0n) }: cleared, not restored. *)
EndRequest ==
    /\ InFrame({"request"})
    /\ NativeContext(0)
    /\ Pop
    /\ UNCHANGED <<workVars, scriptVars, hooks, waiting, exit>>

(* Wrong: joined parents are not resolved to requests. *)
ParentsThemselves(parents) == parents

(* parents.flatMap(parent => [...owners.get(parent)]) as a set *)
RootsOf(parents) == UNION {owners[p] : p \in parents}

(* withParents: one root is that request itself, several are a new join.     *)
(* Parents come from causpanContext.current(): contexts that were entered.   *)
WithParents(parents) ==
    LET roots == RootsOf(parents)
        scope(context) ==
            /\ NativeContext(context)
            /\ Push(NewFrame("parents", context, current[Main]))
    IN  /\ InFrame(Javascript)
        /\ parents # {} /\ parents \subseteq mapped
        /\ IF Cardinality(roots) = 1
           THEN /\ scope(CHOOSE root \in roots : TRUE)
                /\ UNCHANGED scriptVars
           ELSE /\ next <= MaxContext
                /\ Number(roots)
                /\ \/ mapped' = mapped \cup {next} /\ scope(next)
                   \/ Quiet /\ UNCHANGED <<mapped, current, frames>>
        /\ UNCHANGED <<workVars, hooks, waiting, exit>>

(* withoutRequest: deliberate background work. *)
WithoutRequest ==
    /\ InFrame(Javascript)
    /\ NativeContext(0)
    /\ Push(NewFrame("without", 0, [request |-> Store, operation |-> 0]))
    /\ UNCHANGED <<workVars, scriptVars, hooks, waiting, exit>>

(* Wrong: cleared as at the end of a request. *)
EndScopeCleared ==
    /\ InFrame({"parents", "without"})
    /\ NativeContext(0)
    /\ Pop
    /\ UNCHANGED <<workVars, scriptVars, hooks, waiting, exit>>

(* finally { native.context(previous) } of both. *)
EndScope ==
    /\ InFrame({"parents", "without"})
    /\ NativeContext(Top.saved.request)
    /\ Pop
    /\ UNCHANGED <<workVars, scriptVars, hooks, waiting, exit>>

-----------------------------------------------------------------------------
(* wrapped_submit and wrapped_queue.  An address still in records is a bug:  *)
(* the marker is written and the process exits.                              *)
InUse(a) == \/ a \in queued \/ \E t \in Pool : running[t] = a
            \/ \E f \in finished : f.work = a
            \/ \E i \in DOMAIN frames : frames[i].work = a /\ frames[i].stage = "entered"

Submit(a) ==
    LET record == [request |-> current[Main].request, operation |-> operation]
    IN  /\ InFrame(Javascript)
        /\ ~InUse(a)
        /\ fatal = 0 /\ operation <= MaxOperation
        /\ operation' = operation + 1
        /\ \/ /\ a \notin DOMAIN records
              /\ records' = Extend(records, a, record)
              /\ Emit(Marker("SUBMIT", Main, record.request, record.operation))
              /\ queued' = queued \cup {a}
              /\ meantFor' = Extend(meantFor, a, Store)
              /\ UNCHANGED exit
           \/ /\ a \in DOMAIN records
              /\ Emit(Marker("DUPLICATE_WORK", Main, 0, 0))
              /\ exit' = "duplicate"
              /\ UNCHANGED <<records, queued, meantFor>>
        /\ UNCHANGED <<running, finished, current, scriptVars, hooks, frames, waiting>>

(* The deferred _exit: only a later submission looks at fatal_code. *)
SubmitAfterFailure ==
    /\ InFrame(Javascript)
    /\ fatal # 0
    /\ exit' = "fatal"
    /\ Quiet
    /\ UNCHANGED <<workVars, current, scriptVars, hooks, frames, waiting>>

(* uv_cancel succeeds only for work no thread has taken. *)
Cancel(a) ==
    /\ InFrame(Javascript) /\ a \in queued
    /\ queued' = queued \ {a}
    /\ finished' = finished \cup {[work |-> a, status |-> "cancelled"]}
    /\ Quiet
    /\ UNCHANGED <<records, operation, running, meantFor, current, scriptVars, hooks,
                   frames, waiting, exit>>

(* Wrong: lookup(work, true) where the record is needed again. *)
Erased(a) == Without(records, a)

(* lookup, for wrapped_work and for wrapped_done.  WorkKeepsSubmitter says   *)
(* that it never misses, so its failure path is not an action.               *)
LookupForWork(a) == records
LookupForDone(a) == Without(records, a)

(* wrapped_work, up to the call of the wrapped function. *)
WorkEnter(t, a) ==
    /\ exit = "no" /\ running[t] = Nothing /\ a \in queued
    /\ a \in DOMAIN records
    /\ queued' = queued \ {a}
    /\ running' = [running EXCEPT ![t] = a]
    /\ records' = LookupForWork(a)
    /\ SetContext(t, records[a], "WORK_ENTER")
    /\ UNCHANGED <<operation, finished, meantFor, scriptVars, hooks,
                   frames, waiting, exit>>

(* ... and after it: a pool thread had no context before. *)
WorkLeave(t) ==
    /\ exit = "no" /\ running[t] # Nothing
    /\ running' = [running EXCEPT ![t] = Nothing]
    /\ finished' = finished \cup {[work |-> running[t], status |-> "ok"]}
    /\ SetContext(t, Outside, "WORK_LEAVE")
    /\ UNCHANGED <<records, operation, queued, meantFor, scriptVars, hooks,
                   frames, waiting, exit>>

(* wrapped_done on the loop: forget the address, then DONE_ENTER, *)
DoneEnter(f) ==
    /\ exit = "no" /\ frames = <<>> /\ f \in finished
    /\ f.work \in DOMAIN records
    /\ records' = LookupForDone(f.work)
    /\ finished' = finished \ {f}
    /\ frames' = <<[NewFrame("done", meantFor[f.work], current[Main]) EXCEPT
                      !.stage = "entered", !.work = f.work, !.status = f.status,
                      !.operation = records[f.work].operation]>>
    /\ SetContext(Main, records[f.work], "DONE_ENTER")
    /\ UNCHANGED <<operation, queued, running, meantFor, scriptVars, hooks, waiting, exit>>

(* Wrong: the status libuv reports is not passed on. *)
DoneCompleteOk ==
    /\ InFrame({"done"}) /\ Top.stage = "entered"
    /\ Emit(Marker("COMPLETE", Main, current[Main].request, Top.operation))
    /\ frames' = <<[Top EXCEPT !.stage = "completed"]>>
    /\ UNCHANGED <<workVars, current, scriptVars, hooks, waiting, exit>>

(* then COMPLETE.  From here on the owner may free or reuse the address; *)
DoneComplete ==
    /\ InFrame({"done"}) /\ Top.stage = "entered"
    /\ Emit([Marker("COMPLETE", Main, current[Main].request, Top.operation)
               EXCEPT !.status = Top.status])
    /\ frames' = <<[Top EXCEPT !.stage = "completed"]>>
    /\ UNCHANGED <<workVars, current, scriptVars, hooks, waiting, exit>>

(* the done callback, which may call JavaScript under the store the work was *)
(* submitted under;                                                          *)
DoneCallback ==
    /\ InFrame({"done"}) /\ Top.stage = "completed"
    /\ NativeContext(Store)
    /\ hooks' = Append(hooks, current[Main].request)
    /\ frames' = <<[Top EXCEPT !.stage = "called"],
                   NewFrame("callback", Store, Outside)>>
    /\ UNCHANGED <<workVars, scriptVars, waiting, exit>>

(* and DONE_LEAVE. *)
DoneLeave ==
    /\ InFrame({"done"}) /\ Top.stage # "entered"
    /\ SetContext(Main, Top.saved, "DONE_LEAVE")
    /\ Pop
    /\ UNCHANGED <<workVars, scriptVars, hooks, waiting, exit>>

-----------------------------------------------------------------------------
MainEffect ==
    /\ exit = "no" /\ (frames # <<>> => Top.kind \in Javascript)
    /\ emitted' = Effect(Main, Store)
    /\ UNCHANGED <<workVars, scriptVars, fatal, current, hooks, frames, waiting,
                   exit, faults>>

PoolEffect(t) ==
    /\ exit = "no" /\ running[t] # Nothing
    /\ emitted' = Effect(t, meantFor[running[t]])
    /\ UNCHANGED <<workVars, scriptVars, fatal, current, hooks, frames, waiting,
                   exit, faults>>

(* The loop has nothing left, and the server returns from main. *)
ExitNormally ==
    /\ exit = "no" /\ frames = <<>> /\ waiting = <<>>
    /\ queued = {} /\ finished = {} /\ \A t \in Pool : running[t] = Nothing
    /\ exit' = "normal"
    /\ Quiet
    /\ UNCHANGED <<workVars, current, scriptVars, hooks, frames, waiting>>

BridgeNext ==
    \/ Receive \/ OnRequest \/ EndRequest \/ After \/ WithoutRequest \/ EndScope
    \/ \E c \in Callbacks : Defer(c) \/ RunCallback(c)
    \/ \E parents \in SUBSET mapped : WithParents(parents)
    \/ \E a \in Addresses : Submit(a) \/ Cancel(a)
    \/ SubmitAfterFailure
    \/ \E t \in Pool, a \in Addresses : WorkEnter(t, a)
    \/ \E t \in Pool : WorkLeave(t) \/ PoolEffect(t)
    \/ \E f \in finished : DoneEnter(f)
    \/ DoneComplete \/ DoneCallback \/ DoneLeave
    \/ MainEffect \/ ExitNormally

BridgeSpec == BridgeInit /\ [][BridgeNext]_bridgeVars

-----------------------------------------------------------------------------
(* Whenever JavaScript runs, the native context of the main thread is the    *)
(* store: hooks, request scopes and done callbacks nest and restore.         *)
NativeIsStore == InFrame(Javascript) => current[Main].request = Store

(* A pool thread works in the context its work was submitted under, and      *)
(* lookup never misses: whatever libuv still holds has its own record, also  *)
(* when the address was cancelled, completed and reused in between.          *)
WorkKeepsSubmitter ==
    /\ \A t \in Pool : running[t] # Nothing =>
            /\ current[t].request = meantFor[running[t]]
            /\ running[t] \in DOMAIN records
            /\ records[running[t]] = current[t]
    /\ \A a \in queued \cup {f.work : f \in finished} :
            a \in DOMAIN records /\ records[a].request = meantFor[a]

(* instrument.mjs hands out contexts as ContextAlgebra says.  The second      *)
(* conjunct is [][Next]_owners: a step that leaves owners alone is no step.  *)
Algebra == INSTANCE ContextAlgebra WITH
    Sessions <- {"run"}, Numbers <- 1 .. MaxContext, owners <- [s \in {"run"} |-> owners]
BridgeImplementsAlgebra ==
    Algebra!AlgebraInit /\ [][owners' # owners => Algebra!AlgebraNext]_owners
=============================================================================
