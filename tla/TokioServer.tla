----------------------------- MODULE TokioServer -----------------------------
(***************************************************************************)
(* The Tokio MCP server, crates/causpan-tokio-server/src/main.rs: serve    *)
(* reads a line at a time and gives each tools/call a task; tools hand     *)
(* their I/O to Tokio's blocking pool, batch_io gathers the contributions  *)
(* of several calls into shared writes, slot_io may be detached from its   *)
(* call, barrier waits for what was detached; a thread of its own prints   *)
(* the replies; at the end of the input everything is waited for.          *)
(***************************************************************************)
EXTENDS Naturals, Sequences, FiniteSets

CONSTANTS Requests,      \* what a client may send, see Request
          MaxLines,      \* bound on the lines sent
          PoolSizes,     \* values of --blocking-threads
          MaxSlot,       \* MAX_SLOT
          Instrumented   \* CAUSPAN_INSTRUMENTED: there is a context registry

PoolTools == {"slot_io", "files", "cancel_probe", "fail_probe"}
Request == [id : {"fresh", "invalid or reused"},
            method : {"tools/call", "answered at once", "not JSON"},
            tool : PoolTools \cup {"batch_io", "spawn_slot", "barrier", "unknown"},
            slot : Nat, rounds : Nat, width : Nat,
            joined : BOOLEAN, detached : BOOLEAN, cancel : BOOLEAN]

ASSUME ServerAssumption ==
    /\ Requests \subseteq Request
    /\ MaxLines \in Nat /\ PoolSizes \subseteq Nat \ {0} /\ MaxSlot \in Nat
    /\ Instrumented \in BOOLEAN

VARIABLES
    lines,     \* the lines received: where the task of each is, its answer
    serve,     \* its options; where it is, the task it awaits, the handles it drains
    batch,     \* State.batch: the calls that wait for a full batch
    flushes,   \* per spawned flush_batch: who spawned it, what is to be written
    detached,  \* State.detached: the handles of detached jobs
    runs,      \* per user of the blocking pool: its current piece of work
    queue,     \* the queue of the blocking pool
    file,      \* slots.bin: what each slot begins with
    writes,    \* history: the shared writes done
    writer,    \* the thread that prints: up, or dead of a failed write
    printed    \* lines whose reply is on stdout

vars == <<lines, serve, batch, flushes, detached, runs, queue, file, writes,
          writer, printed>>

Line(request, at, answer, scheduled) ==
    [request |-> request, at |-> at, answer |-> answer,
     handles |-> <<>>,         \* the jobs a barrier has still to await, or drops
     scheduled |-> scheduled]  \* history: jobs reported before it was received

(* The users of the pool.  A piece of work is handed over, queued, run, and,  *)
(* in slot_io, read back.                                                     *)
CallOf(n) == <<"call", n>>
JobOf(n) == <<"job", n>>
FlushOf(m) == <<"flush", m>>
Background == <<"background", 0>>
Piece(at, left, result) == [at |-> at, left |-> left, result |-> result]

Init ==
    /\ lines = <<>>
    /\ \E n \in PoolSizes :
          serve = [threads |-> n, at |-> "reading", next |-> 1, handles |-> <<>>]
    /\ batch = <<>> /\ flushes = <<>> /\ detached = <<>>
    /\ runs = [k \in {Background} |-> Piece("ready", 1, "ok")]
    /\ queue = <<>>
    /\ file = [s \in 0..MaxSlot |-> "fixture"]
    /\ writes = {}
    /\ writer = "up" /\ printed = {}

Up == serve.at \notin {"ended", "failed"}
Slot(n) == lines[n].request.slot
Slots(group) == {Slot(group[i]) : i \in DOMAIN group}
Members(group) == {group[i] : i \in DOMAIN group}

-----------------------------------------------------------------------------
(* The blocking pool: first come first served, serve.threads at a time; a piece   *)
(* aborted in time is never run.                                             *)
WithRun(k, piece) ==
    runs' = [u \in DOMAIN runs \cup {k} |-> IF u = k THEN piece ELSE runs[u]]

Submit(k) ==
    /\ Up /\ runs[k].at = "ready"
    /\ k = Background => serve.at # "stopping"
    /\ queue' = Append(queue, k)
    /\ runs' = [runs EXCEPT ![k].at = "queued"]
    /\ UNCHANGED <<lines, serve, batch, flushes, detached, file, writes, writer,
                   printed>>

OnThread == {k \in DOMAIN runs : runs[k].at \in {"running", "written"}}

(* Wrong: stdin is read on the pool. *)
BusyWithStdin == Cardinality(OnThread) + IF serve.at = "reading" THEN 1 ELSE 0

(* Stdin has a thread of its own. *)
Busy == Cardinality(OnThread)

TakeWork ==
    /\ Up /\ queue # <<>>
    /\ Busy < serve.threads
    /\ queue' = Tail(queue)
    /\ LET k == Head(queue) IN
       runs' = [runs EXCEPT ![k] =
           IF runs[k].at = "aborted" THEN Piece("done", 0, "cancelled")
           ELSE [@ EXCEPT !.at = "running"]]
    /\ UNCHANGED <<lines, serve, batch, flushes, detached, file, writes, writer,
                   printed>>

(* A piece is over: the user has another one, or collects the result.  The   *)
(* background loop unwraps: an error ends it.                                *)
Over(k, result) ==
    LET left == IF k = Background THEN 1 ELSE runs[k].left - 1 IN
    IF result = "ok" /\ left > 0 THEN Piece("ready", left, "ok")
    ELSE Piece("done", left, result)

(* What a piece of work writes, unless it fails: the bytes of a batch start   *)
(* at the slot of its first member, one slot for each.                       *)
Tool(k) == IF k[1] \in {"call", "job"} THEN lines[k[2]].request.tool ELSE k[1]
Target(k) ==
    CASE Tool(k) \in {"slot_io", "cancel_probe"} -> <<Slot(k[2])>>
      [] Tool(k) = "flush" ->
            LET group == flushes[k[2]].group
            IN  [i \in DOMAIN group |-> Slot(group[1]) + i - 1]
      [] OTHER -> <<>>

(* Scalar writes carry the context flush_batch was spawned in, that of the   *)
(* call that filled the batch; joined ones that of their members.            *)
Owners(flush) ==
    CASE ~Instrumented -> {}
      [] Instrumented /\ lines[flush.group[1]].request.joined -> Members(flush.group)
      [] Instrumented /\ ~lines[flush.group[1]].request.joined -> {flush.by}

Perform(k) ==
    LET target == Target(k) IN
    /\ Up /\ runs[k].at = "running"
    /\ \/ /\ file' = [s \in 0..MaxSlot |->
                IF \E i \in DOMAIN target : target[i] = s THEN Tool(k) ELSE file[s]]
          /\ runs' = [runs EXCEPT ![k] = IF Tool(k) = "slot_io"
                                         THEN [@ EXCEPT !.at = "written"]
                                         ELSE Over(k, "ok")]
          /\ writes' = IF Tool(k) # "flush" THEN writes
                       ELSE writes \cup {[flush |-> k[2],
                                          members |-> Members(flushes[k[2]].group),
                                          slots |-> {target[i] : i \in DOMAIN target},
                                          owners |-> Owners(flushes[k[2]])]}
       \/ /\ runs' = [runs EXCEPT ![k] = Over(k, "error")]
          /\ UNCHANGED <<file, writes>>
    /\ UNCHANGED <<lines, serve, batch, flushes, detached, queue, writer, printed>>

(* slot_io reads back what it wrote. *)
ReadBack(k) ==
    /\ Up /\ runs[k].at = "written"
    /\ \E result \in {IF file[Slot(k[2])] = "slot_io" THEN "ok" ELSE "mismatch",
                      "error"} :
          runs' = [runs EXCEPT ![k] = Over(k, result)]
    /\ UNCHANGED <<lines, serve, batch, flushes, detached, queue, file, writes,
                   writer, printed>>

-----------------------------------------------------------------------------
(* The task of a call: its answer goes to the writer's channel, and there is *)
(* none any more when the writer is dead.                                    *)
WithAnswer(n, answer) ==
    [lines EXCEPT ![n].at = IF writer = "up" THEN "answered" ELSE "panicked",
                  ![n].answer = answer]
Answer(n, answer) == lines' = WithAnswer(n, answer)

InCall(n, tools, place) ==
    /\ Up
    /\ lines[n].at = place /\ lines[n].request.tool \in tools

(* A batch sorted by slot, calls for one slot in the order they came. *)
SortedBySlot(entries) ==
    LET Before(i, j) == \/ Slot(entries[i]) < Slot(entries[j])
                        \/ Slot(entries[i]) = Slot(entries[j]) /\ i < j
    IN  [place \in DOMAIN entries |->
            entries[CHOOSE j \in DOMAIN entries :
                Cardinality({i \in DOMAIN entries : Before(i, j)}) = place - 1]]

ContributeCopied(n) ==
    /\ InCall(n, {"batch_io"}, "called")
    /\ batch' = Append(batch, n)
    /\ lines' = [lines EXCEPT ![n].at = "contributed"]
    /\ flushes' = IF Len(batch') < lines[n].request.width THEN flushes
                  ELSE Append(flushes, [by |-> n, at |-> "next", group |-> <<>>,
                                        pending |-> SortedBySlot(batch')])
    /\ UNCHANGED <<serve, detached, runs, queue, file, writes, writer, printed>>

(* batch_io: the call that fills the batch has it flushed. *)
Contribute(n) ==
    LET request == lines[n].request
        entries == Append(batch, n)
    IN  /\ InCall(n, {"batch_io"}, "called")
        /\ IF ~(request.slot < MaxSlot) \/ request.width = 0
           THEN Answer(n, "invalid") /\ UNCHANGED <<batch, flushes>>
           ELSE /\ lines' = [lines EXCEPT ![n].at = "contributed"]
                /\ IF Len(entries) >= request.width
                   THEN /\ batch' = <<>>
                        /\ flushes' = Append(flushes,
                              [by |-> n, at |-> "next", group |-> <<>>,
                               pending |-> SortedBySlot(entries)])
                   ELSE batch' = entries /\ UNCHANGED flushes
        /\ UNCHANGED <<serve, detached, runs, queue, file, writes, writer, printed>>

(* The oneshot reply of flush_batch reaches the call. *)
EndContribution(n) ==
    /\ InCall(n, {"batch_io"}, "replied")
    /\ Answer(n, lines[n].answer)
    /\ UNCHANGED <<serve, batch, flushes, detached, runs, queue, file, writes,
                   writer, printed>>

(* The tools that use the pool: arguments are checked, then as many pieces   *)
(* of work as there are rounds.                                              *)
Started(request) ==
    IF request.slot > MaxSlot \/ request.rounds = 0 THEN Piece("done", 0, "invalid")
    ELSE Piece("ready", request.rounds, "ok")

BeginWork(n) ==
    LET request == lines[n].request IN
    /\ InCall(n, PoolTools, "called")
    /\ request.tool = "slot_io" => ~request.detached
    /\ WithRun(CallOf(n), Started(request))
    /\ lines' = [lines EXCEPT ![n].at =
           IF request.tool = "cancel_probe" /\ request.cancel THEN "aborting"
           ELSE "working"]
    /\ UNCHANGED <<serve, batch, flushes, detached, queue, file, writes, writer,
                   printed>>

(* handle.abort(): of no use once the pool runs the work. *)
Abort(n) ==
    LET k == CallOf(n) IN
    /\ InCall(n, {"cancel_probe"}, "aborting")
    /\ runs[k].at # "ready"
    /\ runs' = IF runs[k].at = "queued" THEN [runs EXCEPT ![k].at = "aborted"] ELSE runs
    /\ lines' = [lines EXCEPT ![n].at = "working"]
    /\ UNCHANGED <<serve, batch, flushes, detached, queue, file, writes, writer,
                   printed>>

EndWork(n) ==
    /\ InCall(n, PoolTools, "working")
    /\ runs[CallOf(n)].at = "done"
    /\ Answer(n, runs[CallOf(n)].result)
    /\ UNCHANGED <<serve, batch, flushes, detached, runs, queue, file, writes,
                   writer, printed>>

(* A detached slot_io: a task of its own, whose handle is pushed once the    *)
(* lock is free.                                                             *)
Detach(n) ==
    /\ InCall(n, {"slot_io"}, "called") /\ lines[n].request.detached
    /\ WithRun(JobOf(n), Started(lines[n].request))
    /\ lines' = [lines EXCEPT ![n].at = "scheduling"]
    /\ UNCHANGED <<serve, batch, flushes, detached, queue, file, writes, writer,
                   printed>>

PushHandle(n) ==
    /\ InCall(n, {"slot_io"}, "scheduling")
    /\ detached' = Append(detached, n)
    /\ Answer(n, "ok")
    /\ UNCHANGED <<serve, batch, flushes, runs, queue, file, writes, writer, printed>>

(* barrier takes the handles, and awaits one after the other; an error drops *)
(* those left.                                                               *)
TakeHandles(n) ==
    /\ InCall(n, {"barrier"}, "called")
    /\ lines' = [lines EXCEPT ![n].at = "draining", ![n].handles = detached]
    /\ detached' = <<>>
    /\ UNCHANGED <<serve, batch, flushes, runs, queue, file, writes, writer, printed>>

(* All of the handles are awaited, or one of them has failed. *)
Drained(handles) == handles = <<>>
NextDone(handles) == handles # <<>> /\ runs[JobOf(Head(handles))].at = "done"
NextFailed(handles) ==
    NextDone(handles) /\ runs[JobOf(Head(handles))].result # "ok"

(* Wrong: only the first handle is awaited. *)
AwaitFirst(n) ==
    LET handles == lines[n].handles IN
    /\ InCall(n, {"barrier"}, "draining")
    /\ \/ (Drained(handles) \/ NextDone(handles)) /\ Answer(n, "ok")
       \/ NextFailed(handles) /\ Answer(n, "error")
    /\ UNCHANGED <<serve, batch, flushes, detached, runs, queue, file, writes,
                   writer, printed>>

AwaitHandle(n) ==
    LET handles == lines[n].handles IN
    /\ InCall(n, {"barrier"}, "draining")
    /\ \/ Drained(handles) /\ Answer(n, "ok")
       \/ NextFailed(handles) /\ Answer(n, "error")
       \/ /\ NextDone(handles) /\ ~NextFailed(handles)
          /\ lines' = [lines EXCEPT ![n].handles = Tail(handles)]
    /\ UNCHANGED <<serve, batch, flushes, detached, runs, queue, file, writes,
                   writer, printed>>

(* spawn_slot waits for a child, which writes the slot or fails. *)
RunChild(n) ==
    /\ InCall(n, {"spawn_slot"}, "called")
    /\ \/ /\ Slot(n) <= MaxSlot
          /\ file' = [file EXCEPT ![Slot(n)] = "spawn_slot"]
          /\ Answer(n, "ok")
       \/ Answer(n, "error") /\ UNCHANGED file
    /\ UNCHANGED <<serve, batch, flushes, detached, runs, queue, writes, writer,
                   printed>>

UnknownTool(n) ==
    /\ InCall(n, {"unknown"}, "called")
    /\ Answer(n, "error")
    /\ UNCHANGED <<serve, batch, flushes, detached, runs, queue, file, writes,
                   writer, printed>>

-----------------------------------------------------------------------------
(* Wrong: calls for later slots are taken along. *)
AscendingIn(entries, length) ==
    \A i \in 2..length : Slot(entries[i]) > Slot(entries[i - 1])

(* flush_batch: calls for adjacent slots share a write, ... *)
AdjacentIn(entries, length) ==
    \A i \in 2..length : Slot(entries[i]) = Slot(entries[i - 1]) + 1
GroupOf(entries) ==
    LET length == CHOOSE l \in DOMAIN entries :
            /\ AdjacentIn(entries, l)
            /\ l < Len(entries) => ~AdjacentIn(entries, l + 1)
    IN  SubSeq(entries, 1, length)

(* ... and its result.                                                       *)
Replied(group, answer) ==
    lines' = [n \in DOMAIN lines |->
        IF n \in Members(group)
        THEN [lines[n] EXCEPT !.at = "replied", !.answer = answer] ELSE lines[n]]

Refused(group) ==
    LET joined(i) == lines[group[i]].request.joined
    IN  \/ \E i \in DOMAIN group : joined(i) # joined(1)
        \/ joined(1) /\ ~Instrumented

(* The next group: refused, or joined (which may fail), and handed over. *)
FlushNext(m) ==
    LET group == GroupOf(flushes[m].pending) IN
    /\ Up /\ flushes[m].at = "next" /\ flushes[m].pending # <<>>
    /\ \/ /\ Refused(group) \/ lines[group[1]].request.joined
          /\ Replied(group, "error")
          /\ flushes' = [flushes EXCEPT ![m].pending =
                SubSeq(@, Len(group) + 1, Len(@))]
          /\ UNCHANGED runs
       \/ /\ ~Refused(group)
          /\ flushes' = [flushes EXCEPT
                ![m].at = "writing", ![m].group = group,
                ![m].pending = SubSeq(@, Len(group) + 1, Len(@))]
          /\ WithRun(FlushOf(m), Piece("ready", 1, "ok"))
          /\ UNCHANGED lines
    /\ UNCHANGED <<serve, batch, detached, queue, file, writes, writer, printed>>

FlushWritten(m) ==
    /\ Up /\ flushes[m].at = "writing"
    /\ runs[FlushOf(m)].at = "done"
    /\ Replied(flushes[m].group, runs[FlushOf(m)].result)
    /\ flushes' = [flushes EXCEPT ![m].at = "next"]
    /\ UNCHANGED <<serve, batch, detached, runs, queue, file, writes, writer, printed>>

-----------------------------------------------------------------------------
(* serve: a line is refused, answered at once, or a call, which is issued a  *)
(* context and gets a task.  What fails here ends the server: a line that is *)
(* not JSON, a row of the registry that cannot be written, a dead writer.    *)
(* Requests without an id are passed over.                                   *)
ServeAt(place) == serve' = [serve EXCEPT !.at = place]

Reported == {n \in DOMAIN lines :
                JobOf(n) \in DOMAIN runs /\ lines[n].at = "answered"}
IsCall(request) == request.id = "fresh" /\ request.method = "tools/call"

Receive(request) ==
    /\ serve.at = "reading"
    /\ Len(lines) < MaxLines
    /\ \/ /\ request.method = "not JSON"
          /\ ServeAt("failed") /\ UNCHANGED lines
       \/ /\ request.method # "not JSON" /\ ~IsCall(request)
          /\ IF writer = "up"
             THEN /\ lines' = Append(lines, Line(request, "answered",
                        IF request.id = "fresh" THEN "ok" ELSE "error", Reported))
                  /\ UNCHANGED serve
             ELSE ServeAt("failed") /\ UNCHANGED lines
       \/ /\ IsCall(request)
          /\ \/ /\ lines' = Append(lines, Line(request, "called", "none", Reported))
                /\ UNCHANGED serve
             \/ Instrumented /\ ServeAt("failed") /\ UNCHANGED lines
    /\ UNCHANGED <<batch, flushes, detached, runs, queue, file, writes, writer,
                   printed>>

(* The client closes stdin: the tasks are awaited in the order they came, a  *)
(* panic among them ends the server; ...                                     *)
EndOfInput ==
    /\ serve.at = "reading"
    /\ ServeAt("awaiting")
    /\ UNCHANGED <<lines, batch, flushes, detached, runs, queue, file, writes,
                   writer, printed>>

AwaitTask ==
    /\ serve.at = "awaiting" /\ serve.next <= Len(lines)
    /\ \/ lines[serve.next].at = "answered" /\ serve' = [serve EXCEPT !.next = @ + 1]
       \/ lines[serve.next].at = "panicked" /\ ServeAt("failed")
    /\ UNCHANGED <<lines, batch, flushes, detached, runs, queue, file, writes,
                   writer, printed>>

(* ... a last barrier drains the detached jobs left, ...                     *)
TakeLastHandles ==
    /\ serve.at = "awaiting" /\ serve.next > Len(lines)
    /\ serve' = [serve EXCEPT !.at = "draining", !.handles = detached]
    /\ detached' = <<>>
    /\ UNCHANGED <<lines, batch, flushes, runs, queue, file, writes, writer, printed>>

AwaitLastHandle ==
    /\ serve.at = "draining"
    /\ \/ Drained(serve.handles) /\ ServeAt("stopping")
       \/ NextFailed(serve.handles) /\ ServeAt("failed")
       \/ /\ NextDone(serve.handles) /\ ~NextFailed(serve.handles)
          /\ serve' = [serve EXCEPT !.handles = Tail(@)]
    /\ UNCHANGED <<lines, batch, flushes, detached, runs, queue, file, writes,
                   writer, printed>>

(* ... and the writer ends when no sender is left and its channel is empty.  *)
Sent == {n \in DOMAIN lines : lines[n].at = "answered"}

(* Wrong: the process ends under the writer. *)
LeaveWriter ==
    /\ serve.at = "stopping"
    /\ ServeAt("ended")
    /\ UNCHANGED <<lines, batch, flushes, detached, runs, queue, file, writes,
                   writer, printed>>

JoinWriter ==
    /\ serve.at = "stopping"
    /\ \/ writer = "up" /\ Sent \subseteq printed /\ ServeAt("ended")
       \/ writer = "dead" /\ ServeAt("failed")
    /\ UNCHANGED <<lines, batch, flushes, detached, runs, queue, file, writes,
                   writer, printed>>

(* The writer prints what was sent; a write that fails kills it. *)
PrintReply(n) ==
    /\ Up /\ writer = "up" /\ n \in Sent \ printed
    /\ \/ printed' = printed \cup {n} /\ UNCHANGED writer
       \/ writer' = "dead" /\ UNCHANGED printed
    /\ UNCHANGED <<lines, serve, batch, flushes, detached, runs, queue, file, writes>>

-----------------------------------------------------------------------------
TaskStep(n) ==
    \/ Contribute(n) \/ EndContribution(n) \/ BeginWork(n) \/ Abort(n)
    \/ EndWork(n) \/ Detach(n) \/ PushHandle(n) \/ TakeHandles(n)
    \/ AwaitHandle(n) \/ RunChild(n) \/ UnknownTool(n)
RunStep(k) == Submit(k) \/ Perform(k) \/ ReadBack(k)
FlushStep(m) == FlushNext(m) \/ FlushWritten(m)
ServeStep == AwaitTask \/ TakeLastHandles \/ AwaitLastHandle \/ JoinWriter

Next ==
    \/ \E request \in Requests : Receive(request)
    \/ EndOfInput \/ ServeStep \/ TakeWork
    \/ \E n \in DOMAIN lines : TaskStep(n) \/ PrintReply(n)
    \/ \E k \in DOMAIN runs : RunStep(k)
    \/ \E m \in DOMAIN flushes : FlushStep(m)

Spec == Init /\ [][Next]_vars

(* Tokio polls every task that can go on, the pool runs its queue, the       *)
(* client reads what is printed.  It need not close stdin.                   *)
RunKeys == {Background} \cup {<<who, n>> : who \in {"call", "job", "flush"},
                                          n \in 1..MaxLines}
Fairness ==
    /\ WF_vars(ServeStep) /\ WF_vars(TakeWork)
    /\ \A n \in 1..MaxLines :
          /\ WF_vars(n \in DOMAIN lines /\ TaskStep(n))
          /\ WF_vars(n \in DOMAIN lines /\ PrintReply(n))
          /\ WF_vars(n \in DOMAIN flushes /\ FlushStep(n))
    /\ \A k \in RunKeys : WF_vars(k \in DOMAIN runs /\ RunStep(k))
FairSpec == Spec /\ Fairness

-----------------------------------------------------------------------------
(* flush_batch: a shared write covers the slots of its members and no other, *)
(* and when joined it is owned by all of its members and nobody else.        *)
WritesAreOwned == \A w \in writes :
    /\ w.slots = {Slot(n) : n \in w.members}
    /\ (Instrumented /\ \E n \in w.members : lines[n].request.joined)
          => w.owners = w.members

(* A batch_io call that succeeds contributed to one shared write, neither    *)
(* lost nor written twice, however the batch was cut into groups.            *)
ContributedOnce == \A n \in DOMAIN lines :
    lines[n].request.tool = "batch_io" /\ lines[n].answer = "ok" /\ IsCall(lines[n].request)
    => Cardinality({w \in writes : n \in w.members}) = 1

(* A barrier that succeeds has waited for every job reported as scheduled    *)
(* before it was received.  Only a job still in the hands of another barrier *)
(* may run on: one that awaits it, or failed on another job and dropped it.  *)
JobEnded(n) == runs[JobOf(n)].at = "done"
Barriers == {n \in DOMAIN lines :
                IsCall(lines[n].request) /\ lines[n].request.tool = "barrier"}
Holds(b, n) == n \in Members(lines[b].handles)
BarrierDrains == \A b \in Barriers : lines[b].at = "answered" /\ lines[b].answer = "ok" =>
    \A n \in lines[b].scheduled :
        \/ JobEnded(n)
        \/ \E c \in Barriers \ {b} :
              /\ Holds(c, n)
              /\ lines[c].at = "draining" \/ lines[c].answer = "error"

(* A server that ends without an error has printed the answer of every line, *)
(* left no contribution in the batch, and ended every detached job but those *)
(* that a barrier held when another of its jobs failed.                      *)
EndsAnswered == serve.at = "ended" =>
    /\ printed = DOMAIN lines
    /\ batch = <<>>
    /\ \A n \in DOMAIN lines : JobOf(n) \in DOMAIN runs =>
          JobEnded(n) \/ \E b \in Barriers : lines[b].answer = "error" /\ Holds(b, n)

(* Even with one blocking thread, which the background loop uses too, every  *)
(* call is answered in the end, but for those that wait for a batch to fill, *)
(* and once stdin is closed the server ends unless the batch never fills.    *)
CallsEnd ==
    /\ \A n \in 1..MaxLines : n \in DOMAIN lines ~>
          \/ n \in DOMAIN lines /\ lines[n].at \in {"answered", "panicked"}
          \/ n \in Members(batch) \/ ~Up
    /\ serve.at = "awaiting" ~> (~Up \/ batch # <<>>)
==============================================================================
