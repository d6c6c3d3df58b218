---------------------------- MODULE RuntimeLayer ----------------------------
(***************************************************************************)
(* The tracing layer of crates/causpan-runtime/src/lib.rs under a Tokio    *)
(* runtime.  Worker threads poll tasks; a task's future enters its spans   *)
(* at the start of every poll and leaves them at the end, on whatever      *)
(* thread polls it.  The layer keeps a stack of frames per thread and      *)
(* writes a marker at every boundary.  Each marker is a system call of its *)
(* own, so an enter or an exit is two steps, other threads in between.     *)
(*                                                                         *)
(* The scheduler, the tasks and the code they run are external; they are   *)
(* modelled by what the layer can see of them.  meant records the request  *)
(* the program means a span to run for: the request field of an explicit   *)
(* scope, and for a task's own span the request meant by the code that     *)
(* spawned it.  The layer knows only its stack.                            *)
(***************************************************************************)
EXTENDS TraceEvents

CONSTANTS Threads,      \* the worker threads and Main
          Main,         \* the thread of block_on: it spawns, it polls no task
          Tasks, NoTask,
          Requests,     \* contexts of the registry (positive numbers)
          MaxOperation, \* bound on execution intervals
          MaxSpan       \* bound on spans created

ASSUME RuntimeAssumption ==
    /\ Main \in Threads /\ NoTask \notin Tasks
    /\ Requests \subseteq Nat \ {0}

VARIABLES
    owner,      \* SpanOwner.request of every span created, in order
    meant,      \* history: the request the program means each span for
    stack,      \* STACK of every thread: frames, the innermost last
    operation,  \* the shared AtomicU64
    pending,    \* per thread: the frame between the two markers of a boundary
    phase,      \* per thread: what it does next
    scope,      \* per thread: the spans the code on it is inside of
    run,        \* per thread: the task it polls
    ending,     \* per thread: what becomes of the poll once its spans are left
    task,       \* per task: its status and the spans of its future
    faults,     \* history: what went wrong in the program or its capture
    emitted     \* the event the last step put on the trace

layerVars == <<owner, meant, stack, operation, pending, phase, scope, run,
               ending, task, faults, emitted>>

NoFrame == [span |-> 0, request |-> 0, operation |-> 0]

LayerInit ==
    /\ owner = <<>>
    /\ meant = <<>>
    /\ stack = [t \in Threads |-> <<>>]
    /\ operation = 1
    /\ pending = [t \in Threads |-> NoFrame]
    /\ phase = [t \in Threads |-> "idle"]
    /\ scope = [t \in Threads |-> <<>>]
    /\ run = [t \in Threads |-> NoTask]
    /\ ending = [t \in Threads |-> "ready"]
    /\ task = [k \in Tasks |->
          [status |-> "absent", spans |-> <<>>, holds |-> FALSE]]
    /\ faults = {}
    /\ emitted = Silence(Main)

-----------------------------------------------------------------------------
(* current(): the innermost frame of the thread. *)
Current(frames) == IF frames = <<>> THEN NoFrame ELSE LastOf(frames)

(* The request the code on thread t runs for, by the program's own structure. *)
Meant(t) == IF scope[t] = <<>> THEN 0 ELSE meant[LastOf(scope[t])]

(* emit: whole, or the panic of a failed or short write. *)
Emits(marker) ==
    /\ emitted' \in Delivered(marker)
    /\ faults' = IF emitted'.captured THEN faults ELSE faults \cup {"capture"}
EmitFails(marker) ==
    /\ emitted' \in Undelivered(marker)
    /\ faults' = faults \cup {"marker"}

SpanMarker(kind, t, frame, span) ==
    [Marker(kind, t, frame.request, frame.operation) EXCEPT !.span = span]

Spans(t) == task[run[t]].spans

(* The thread is done with its poll: the scheduler gets it back. *)
ReturnToScheduler(t, status) ==
    /\ phase' = [phase EXCEPT ![t] = "idle"]
    /\ run' = [run EXCEPT ![t] = NoTask]
    /\ task' = [task EXCEPT ![run[t]].status = status]

(* What follows a boundary when the thread is still inside the spans `inside`. *)
(* A future that returned, or panicked in its poll, is dropped at once, and    *)
(* Instrumented enters its spans again to do so (its destructors are silent).  *)
Continue(t, inside, fate) ==
    IF inside # <<>>
    THEN /\ phase' = [phase EXCEPT ![t] =
               IF fate = "resume" THEN "running" ELSE "leaving"]
         /\ ending' = [ending EXCEPT ![t] = fate]
         /\ UNCHANGED <<run, task>>
    ELSE IF fate \in {"done", "panicked"}
    THEN /\ phase' = [phase EXCEPT ![t] = "entering"]
         /\ ending' = [ending EXCEPT ![t] =
               IF fate = "done" THEN "dropping" ELSE "unwinding"]
         /\ UNCHANGED <<run, task>>
    ELSE /\ ReturnToScheduler(t, IF fate = "ready" THEN "ready" ELSE "done")
         /\ ending' = [ending EXCEPT ![t] = fate]

Abort == /\ phase' = [s \in Threads |-> "aborted"]
         /\ UNCHANGED <<run, task, ending>>

(* Unwinding leaves the spans the code is inside of, and then Tokio catches  *)
(* the panic; a second panic on the way aborts the process.                  *)
Panic(t, inside) ==
    IF ending[t] \in {"panicked", "unwinding"} THEN Abort
    ELSE Continue(t, inside,
                  IF ending[t] = "dropping" THEN "unwinding" ELSE "panicked")

-----------------------------------------------------------------------------
(* Wrong: an explicit parent is ignored, as if every span were contextual. *)
OwnerFromThread(t, field, parent) ==
    IF field # 0 THEN field ELSE Current(stack[t]).request

(* on_new_span: an explicit field, else the explicit parent's owner, else    *)
(* the request current on the creating thread.                               *)
OwnerOfNew(t, field, parent) ==
    IF field # 0 THEN field
    ELSE IF parent # 0 THEN owner[parent] ELSE Current(stack[t]).request
MeantOfNew(t, field, parent) ==
    IF field # 0 THEN field
    ELSE IF parent # 0 THEN meant[parent] ELSE Meant(t)

(* tokio::spawn(future) or tokio::spawn(future.instrument(context.span())):  *)
(* the task's runtime.spawn span, and the request span its future carries.   *)
Spawn(t, k, field) ==
    LET new == IF field = 0 THEN <<0>> ELSE <<0, field>>
    IN  /\ phase[t] = IF t = Main THEN "idle" ELSE "running"
        /\ task[k].status = "absent"
        /\ Len(owner) + Len(new) <= MaxSpan
        /\ owner' = owner \o [i \in DOMAIN new |-> OwnerOfNew(t, new[i], 0)]
        /\ meant' = meant \o [i \in DOMAIN new |-> MeantOfNew(t, new[i], 0)]
        /\ task' = [task EXCEPT ![k] =
              [status |-> "ready", holds |-> FALSE,
               spans |-> [i \in DOMAIN new |-> Len(owner) + i]]]
        /\ emitted' = Silence(t)
        /\ UNCHANGED <<stack, operation, pending, phase, scope, run, ending, faults>>

Poll(t, k) ==
    /\ t # Main /\ phase[t] = "idle"
    /\ task[k].status = "ready"
    /\ run' = [run EXCEPT ![t] = k]
    /\ task' = [task EXCEPT ![k].status = "polled"]
    /\ phase' = [phase EXCEPT ![t] = "entering"]
    /\ ending' = [ending EXCEPT ![t] = "ready"]
    /\ emitted' = Silence(t)
    /\ UNCHANGED <<owner, meant, stack, operation, pending, scope, faults>>

(* self.operation.fetch_add(1) *)
NextOperation == operation + 1

(* on_enter, first marker; a new interval of span, owned by request. *)
Submit(t, span, request) ==
    LET frame == [span |-> span, request |-> request, operation |-> operation]
    IN  /\ operation <= MaxOperation
        /\ operation' = NextOperation
        /\ \/ /\ Emits(SpanMarker("SUBMIT", t, frame, span))
              /\ pending' = [pending EXCEPT ![t] = frame]
              /\ phase' = [phase EXCEPT ![t] = "submitted"]
              /\ UNCHANGED <<run, task, ending>>
           \/ /\ EmitFails(SpanMarker("SUBMIT", t, frame, span))
              /\ Panic(t, scope[t])
              /\ UNCHANGED pending
        /\ UNCHANGED <<stack, scope>>

EnterNext(t) ==
    /\ phase[t] = "entering"
    /\ LET span == Spans(t)[Len(scope[t]) + 1] IN Submit(t, span, owner[span])
    /\ UNCHANGED <<owner, meant>>

(* span.in_scope(..) inside the task: a span made and entered at once. *)
OpenScope(t, field, parent) ==
    LET request == OwnerOfNew(t, field, parent)
    IN  /\ phase[t] = "running" /\ t # Main
        /\ Len(owner) < MaxSpan
        /\ owner' = Append(owner, request)
        /\ meant' = Append(meant, MeantOfNew(t, field, parent))
        /\ Submit(t, Len(owner) + 1, request)

(* A future that held a guard is dropped inside its spans: the guard's        *)
(* on_exit finds the frame just entered, and panics while unwinding.         *)
DropsGuard(t, inside) == /\ Len(inside) = Len(Spans(t))
                         /\ ending[t] = "unwinding" /\ task[run[t]].holds

(* on_enter, second marker, and the push onto STACK. *)
EnterWork(t) ==
    LET frame == pending[t]
    IN  /\ phase[t] = "submitted"
        /\ \/ /\ Emits(SpanMarker("WORK_ENTER", t, frame, frame.span))
              /\ stack' = [stack EXCEPT ![t] = Append(stack[t], frame)]
              /\ scope' = [scope EXCEPT ![t] = Append(scope[t], frame.span)]
              /\ IF DropsGuard(t, scope'[t])
                 THEN Abort
                 ELSE /\ phase' = [phase EXCEPT ![t] =
                            IF Len(scope'[t]) < Len(Spans(t)) THEN "entering"
                            ELSE IF ending[t] \in {"dropping", "unwinding"}
                            THEN "leaving" ELSE "running"]
                      /\ UNCHANGED <<run, task, ending>>
           \/ /\ EmitFails(SpanMarker("WORK_ENTER", t, frame, frame.span))
              /\ Panic(t, scope[t])
              /\ UNCHANGED <<stack, scope>>
        /\ UNCHANGED <<owner, meant, operation, pending>>

(* A system call of the code on t, or of the runtime when t is idle. *)
DoEffect(t) ==
    /\ phase[t] \in {"idle", "running"}
    /\ emitted' = Effect(t, Meant(t))
    /\ UNCHANGED <<owner, meant, stack, operation, pending, phase, scope, run,
                   ending, task, faults>>

(* The code starts to leave: one inner scope, or its own spans because the   *)
(* future returns (done) or waits (ready).                                   *)
StartLeaving(t, fate) ==
    /\ phase[t] = "running" /\ t # Main
    /\ IF Len(scope[t]) > Len(Spans(t)) THEN fate = "resume"
       ELSE fate \in {"ready", "done"}
    /\ ending' = [ending EXCEPT ![t] = fate]
    /\ phase' = [phase EXCEPT ![t] = "leaving"]
    /\ emitted' = Silence(t)
    /\ UNCHANGED <<owner, meant, stack, operation, pending, scope, run, task, faults>>

(* The misuse context.rs warns of: the future waits with an inner scope      *)
(* still entered, so its own spans are left while that frame is on STACK.    *)
WaitHoldingGuard(t) ==
    /\ phase[t] = "running" /\ t # Main
    /\ Len(scope[t]) > Len(Spans(t))
    /\ scope' = [scope EXCEPT ![t] = SubSeq(scope[t], 1, Len(Spans(t)))]
    /\ task' = [task EXCEPT ![run[t]].holds = TRUE]
    /\ ending' = [ending EXCEPT ![t] = "ready"]
    /\ phase' = [phase EXCEPT ![t] = "leaving"]
    /\ faults' = faults \cup {"guard"}
    /\ emitted' = Silence(t)
    /\ UNCHANGED <<owner, meant, stack, operation, pending, run>>

(* Wrong: WORK_LEAVE names the frame it leaves. *)
LeftFrame(frames) == Current(frames)

(* The frame a thread returns to when it leaves its innermost one. *)
RestoredFrame(frames) ==
    IF frames = <<>> THEN NoFrame ELSE Current(FrontOf(frames))

(* The frame popped is that of the span which is left. *)
InOrder(t) == Current(stack[t]).span = LastOf(scope[t])

(* on_exit: pop, check the restoration order, and the first marker, which    *)
(* names the frame the thread returns to.                                    *)
ExitLeave(t) ==
    LET frame == Current(stack[t])
        inside == FrontOf(scope[t])
        leave == SpanMarker("WORK_LEAVE", t, RestoredFrame(stack[t]), frame.span)
    IN  /\ phase[t] = "leaving"
        /\ stack' = [stack EXCEPT ![t] = IF @ = <<>> THEN @ ELSE FrontOf(@)]
        /\ scope' = [scope EXCEPT ![t] = inside]
        /\ \/ /\ InOrder(t)
              /\ Emits(leave)
              /\ pending' = [pending EXCEPT ![t] = frame]
              /\ phase' = [phase EXCEPT ![t] = "left"]
              /\ UNCHANGED <<run, task, ending>>
           \/ /\ InOrder(t)
              /\ EmitFails(leave)
              /\ Panic(t, inside)
              /\ UNCHANGED pending
           \/ /\ ~InOrder(t)
              /\ emitted' = Silence(t)
              /\ Panic(t, inside)
              /\ UNCHANGED <<pending, faults>>
        /\ UNCHANGED <<owner, meant, operation>>

(* on_exit, second marker: the interval that ended. *)
ExitComplete(t) ==
    LET frame == pending[t]
        complete == SpanMarker("COMPLETE", t, frame, frame.span)
    IN  /\ phase[t] = "left"
        /\ \/ Emits(complete) /\ Continue(t, scope[t], ending[t])
           \/ EmitFails(complete) /\ Panic(t, scope[t])
        /\ UNCHANGED <<owner, meant, stack, operation, pending, scope>>

ThreadStep(t) ==
    \/ \E k \in Tasks : Poll(t, k)
    \/ \E k \in Tasks, field \in Requests \cup {0} : Spawn(t, k, field)
    \/ \E field \in Requests \cup {0}, parent \in 0 .. Len(owner) :
            OpenScope(t, field, parent)
    \/ \E fate \in {"resume", "ready", "done"} : StartLeaving(t, fate)
    \/ EnterNext(t) \/ EnterWork(t) \/ ExitLeave(t) \/ ExitComplete(t)
    \/ WaitHoldingGuard(t) \/ DoEffect(t)

LayerNext == \E t \in Threads : ThreadStep(t)
=============================================================================
