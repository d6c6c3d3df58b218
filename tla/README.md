# Causpan in TLA+

Causpan records which request caused which system call. A traced server writes
*markers* (small JSON lines, each one system call) at the boundaries where work
for a request begins and ends; `strace` sees the markers among the effects; an
offline *attributor* replays the trace and binds every effect to a request, or
refuses the whole capture. Everything of value in this repository is a claim of
the form "what was accepted is right" or "nothing is lost silently", made by
code that runs on many threads and may fail at every write. This directory
models that code, checks the models with TLC and proves part of it with TLAPS.

- [Inventory](#inventory): the parts of the system, their state, what is hard
- [Modules](#modules): which module models what, and how
- [Runs](#runs): what is checked, the bounds, the fairness
- [Divergences](#divergences): where the code and its words disagree
- [Proofs](#proofs): what holds for every value of the constants
- [Plan](#plan): what was done in which order, what is left
- [Not modelled](#not-modelled)

Run a check with `tlc -config MCTokioServer.cfg MCTokioServer`, a proof with
`tlapm TokioServerProofs.tla`.

## Inventory

| part | source | state | operations |
|---|---|---|---|
| context registry | `crates/causpan-runtime/src/context.rs` | next tag, ids seen, the file `request-map.jsonl`, contexts handed out | `request`, `join` |
| runtime layer | `crates/causpan-runtime/src/lib.rs` | per thread a stack of frames, an operation counter, per span its owner | `on_new_span`, `on_enter`, `on_exit`, `on_close`, `emit` |
| Node/libuv bridge | `experiments/mcp/native/context.cc`, `instrument.mjs` | per thread the current request, submitted work by address, `fatal_code`, saved contexts of the async hooks, owners of contexts | hooks before/after, `enter`/`exit`, `runNewContext`, `withParents`, submission, work, done, cancel |
| worker dispatcher | `experiments/mcp/control-server.mjs` | waiters, failure, pipes | `worker_slot`, answers, error and close events |
| persistent worker | `experiments/mcp/persistent_worker.py` | main loop, executor queue, gates, pool threads; as a relay, futures of a second worker | read a job, cancel, execute, delegate, answer, die |
| Tokio server | `crates/causpan-tokio-server/src/main.rs` | lines read, tasks, batch, detached handles, blocking pool, printing thread | every tool, `flush_batch`, `serve` |
| attributor | `experiments/mcp/attribute.py` | per thread its context, open operations, work on pool threads, jobs, spans, errors | one handler per marker, one per effect, the final checks |
| sockets and descriptors | `attribute.py` 314-588 | descriptor tables, sockets and their users, by process and number | create, dup, close, exec, clone, read, write; reads settled afterwards |
| published report | `attribute.py`, `query.py`, `merge_graphs.py` | three files of a run directory | invalidate, write, hash, publish, retract; read; rewrite |
| MCP session | `run.py`, `run_openai_agent.py`, `proxy.py` | calls in flight, pipes, two pumps, the protocol log, a child | call, time out, leave, record, drain, kill |
| experiment | `run.py`, `matrix.py` | stages, manifest, a row of the matrix | drive, analyse, attribute, score, write; time out, kill |
| parser and baselines | `analyze.py`, `compare_baselines.py` | events in order of entry, time windows, descriptor epochs | order, name candidates, score |
| shared ring | `shared_ring.c`, `shared_ring_adapter.py`, `ring_helper.py`, `ring_observations.py` | batches, submission and completion queue, a sidecar log | prepare, submit, complete, flush; join offline |
| descriptor transfers | `descriptor_transfers.py` | channels and their datagrams | pair sends and receives |
| native ring evidence | `native_*.py`, `inspect_native_*.py` | none (offline joins) | join debugger logs |
| first experiment | `crates/workload`, `collector`, `evaluator`, `experiment-runner` | files | produce, collect, score |
| oracles, views, probes | the rest of `experiments/mcp` | files | compare, format |

How they interact. The registry numbers requests and joins; its file is the only
thing by which the attributor knows which contexts exist. The runtime layer and
the Node bridge carry a context over to the threads that work for it, and write
markers. The dispatcher, the worker and the relay carry it across process
boundaries by markers with a job id, the shared ring across a queue of the
kernel by rows of its own. The attributor consumes all of these, in the order of
the trace, and publishes. The server produces the load: its tasks and its pool
are what the layer sees. A session puts a client, a recording proxy and a traced
server in a row; an experiment is a session, the analysis of what it recorded,
and a manifest that says whether to believe it.

What is hard, and which properties are about it:

- *interleaving*: tasks move between threads at any await, pool threads run
  beside the main loop, addresses of freed requests are reused, markers of one
  boundary are several system calls with other threads in between
  (`AttributorFollows`, `WorkKeepsSubmitter`, `NativeIsStore`, `SlotsNotShared`);
- *system calls that overlap*: a trace shows when a call was entered and when it
  returned, never when it took effect (`OwnersFollowDescriptors`,
  `ReadsBoundToSoleUser`, `PairsAreTransfers`, `ReferencesNameResources`);
- *numbers used again*: descriptors, addresses of work, positions of a ring
  (the same, and `RingOwnersRight`);
- *failure of one step of several*: a marker or a registry row is written in
  part; a job is left half done; an analysis dies between two files; a case is
  killed while it writes its manifest (`AcceptedIsRight`, `ReadableIsLoadable`,
  `MappingAgrees`, `OneRowPerId`, `DeathIsRefused`, `ReportVouches`,
  `CompleteIsRecorded`);
- *not refusing too much*: a capture in which nothing went wrong must be accepted
  however it interleaved, cancellation included (`CleanIsAccepted`,
  `CleanRingAccepted`);
- *races with an answer*: cancellation against the executor, a late answer
  against a timeout, a query against an analysis, a barrier against another
  barrier, an analysis against the server it is about (`ResolvedIsDone`,
  `RelayedIsDone`, `AnsweredIsPerformed`, `PrintedIsOneAnalysis`,
  `BarrierDrains`, `AnalysisSeesWholeTrace`);
- *something must happen*: callers of a worker that dies, threads that wait for a
  second worker, callers on a pool of one thread, replies printed before the end,
  jobs of a partial batch, a session whose server is silent (`EveryCallEnds`,
  `NobodyForgotten`, `RelayEnds`, `CallsEnd`, `EndsAnswered`, `RingEnds`,
  `SessionEnds`);
- *shared work*: a join of joins, a write for several requests
  (`BridgeImplementsAlgebra`, `ImplementsAlgebra`, `WritesAreOwned`,
  `ContributedOnce`);
- *what can be known without markers*: the time window of a call holds the truth,
  whatever the proxy and the server do around it (`WindowsHoldTruth`).

`PROJECT.json` lists each hazard at its line, with the properties that would
notice it.

## Modules

```
ContextAlgebra                      what a registry of contexts promises
  ^ implemented by ContextRegistry    (Rust; EXTENDS RequestMapping, its file)
  ^ implemented by LibuvBridge        (JavaScript and C++)

TraceEvents                         an event of the trace, delivered or not
  RuntimeLayer   LibuvBridge   WorkerIpc      who writes markers
  MarkerAttributor                            who reads them
  RuntimeAttribution = RuntimeLayer /\ MarkerAttributor
  LibuvAttribution   = LibuvBridge  /\ MarkerAttributor
  WorkerAttribution  = WorkerIpc    /\ MarkerAttributor
WorkerRelay                         the second hop of the worker

SocketTables                        attribute.py's tables, one call at a time
  SocketOwnership = a kernel of overlapping calls /\ SocketTables
RingAdapter                         what is said of a ring's operations
  SharedRing      = the ring's program and kernel /\ RingAdapter
DescriptorTransfers, NativeDescriptors   descriptors, from entries and returns

ReportProtocol                      the three files, writers and readers
TokioServer                         the server and its blocking pool
McpSession                          client, proxy and server
  Baselines                           what is made of it without markers
    Experiment                        run.py and matrix.py around it
```

`M`Proofs holds the theorems about `M`; `ProtocolProofs` those about ReportProtocol,
WorkerRelay and NativeDescriptors, and `DescriptorEvidenceProofs` those about
DescriptorTransfers and SharedRing. `MC`M instantiates `M` for TLC.

**ContextAlgebra.** One variable, `owners`: context -> the requests that own it.
A request owns itself, a join is owned by all owners of its parents. It is what
`CausalContext` promises, and both languages implement it.

**ContextRegistry** is `ContextRegistry` of `context.rs`, one action per critical
section. `writeln!` on a `File` is many writes, so a failing one leaves nothing,
a prefix, or a row without newline, and the next row continues that line; the
tag is consumed in every case. **RequestMapping** is the other end of the file:
`load_request_mapping` and what the attributor makes of join rows.

**TraceEvents.** A step of a program puts one event on the trace: an effect, a
marker, or nothing. A marker is written whole, in part or not at all
(`written`), and the tracer sees it or not (`captured`). That separates what the
program did from the evidence of it.

**MarkerAttributor** is the replay in `attribute.py`: one operator per kind of
marker, the errors it records, the checks at the end (`CompleteLifeCycles`), and
the rows it binds. `bound` pairs the request an effect was bound to with the one
the program meant, which the attributor never sees: `BoundToOwner` says they are
equal.

**RuntimeLayer** is `lib.rs` under Tokio: a task's future enters its spans at the
start of each poll and leaves them at the end. An enter is two steps, the stack
and the marker. `emit` panics on a failed write, Tokio catches the panic. What
the program means a span for (`meant`) is kept as history, from the program's
own structure; the layer knows only its stack.

**LibuvBridge** is the interposed `uv_queue_work` family and the async hooks:
`records` by work address, `current` per thread, the hook stack, contexts and
their owners, cancellation, and the fatal code. libuv and Node are external:
queue, pool threads, done callbacks on the main loop, hooks around callbacks.

**WorkerIpc** is `worker_slot` and the worker process, with every value of
`CAUSPAN_SCENARIO` of its own: crash, cancel, fatal, wrong response, failure. The
event loop's turn, the reader thread, the gate that makes cancellation
deterministic, and the pool's threads are separate steps.

**WorkerRelay** is that worker when it hands its jobs to a second one, the leaf:
`delegate` registers a future and sends under the lock, waits up to 30 s, and
one reader thread pops futures under the lock and completes them outside it. The
timeout may fire whenever there is no result. The leaf may answer in any order,
late, with an error, for nobody, or never, and may close its output.

**SocketTables** maps the attributor's record of descriptors and sockets and one
call to the next record, as `_process_trace` does; `BoundTo` is
`_bind_socket_reads`. **SocketOwnership** is a kernel whose calls take effect some
time after they were entered, beside those tables, which see the calls in order
of entry once they and all before them have returned. The kernel's tables and
`users` are the truth. `raced` tells where the order of entry was not that of
effect.

**RingAdapter** reads the rows, markers and `io_uring_enter`s of a ring's program
and binds its operations; **SharedRing** is that program in two modes
(`shared_ring.c` serving many requests, `io_uring_probe.c` started for one), the
kernel that completes in any order, an interrupted wait, failing calls, and a
tracer that may miss one call. The operations per job, three in the C code, are a
write and a read of a number that is not open.

**DescriptorTransfers** is a datagram queue whose sends and receives overlap, fail,
are interrupted, or go by unseen, and `pair_transfers` over the log of them.
**NativeDescriptors** is a kernel under a debugger that stops threads where they
enter and return from `socket`, `eventfd` and `close`, with the projections of
`native_socket_lifetimes.py` and `native_close_epochs.py` run along. Line numbers
are compared there with "was a close entered since"; the model keeps those sets.
The program may close a number twice, or one it never got.

**ReportProtocol** is the life of the three files. `write_text` is truncate and
write; only the final report is replaced atomically. An analysis may be killed
or raise between any two steps; `query.py` may run beside it; `merge_graphs.py`
rewrites the graph. Contents are told apart by the analysis they came from; a
digest stands for its content.

**TokioServer** is `main.rs`. A line read is refused, answered at once, or a call
with a task; `lines[n]` holds where its task is. I/O goes to the blocking pool
piece by piece (`runs`, `queue`); `batch_io` gathers calls, `flush_batch` sorts
them by slot, cuts them into groups of adjacent slots and writes each at once;
detached jobs leave handles that a barrier takes; a thread prints what tasks
send. `file` holds, per slot, which tool wrote it last. An error of a write
leaves the file as it was: a partly written slot is not modelled. A barrier that
failed keeps in `handles`, as history, the jobs it dropped. What is left
of the runtime once `serve` has failed is not modelled either.

**McpSession** is client, proxy and server over pipes. The client is the replay of
`run.py` (waves of calls in flight, 60 s each, then close, terminate, kill), the
loop of `run_openai_agent.py`, or Codex. The proxy logs a line before it passes
it on, waits for a pump or the child to end, then for the child up to 10 s, then
terminates it and waits for it without a bound. What it terminates is, of a
traced server, `strace -o FILE PROG` (`proxy.py:36`), which ignores SIGTERM while
it runs a command: only an untraced server (`server.traced`) ends of it.
`history` merges the protocol log and the trace. **Baselines** is
what `analyze.py` and `compare_baselines.py` name as candidates for an effect,
by time window, descriptor or both. **Experiment** adds the stages of `run.py`,
the manifest written in two steps, and `matrix.py` with its time limit and its
killing of the process group.

In every module with mutants, an operator commented "Wrong:" stands before the
definition it perverts. It is used by no specification; it exists to show that
the properties notice that bug.

## Runs

Model values stand for threads, ids and addresses; symmetry is declared where
they are interchangeable and no liveness is checked. Some runs declare a VIEW
that hides the last event (`emitted` is read only within the step that writes
it), or a CONSTRAINT that stops where nothing more can happen: a capture that is
refused stays refused. `CHECK_DEADLOCK FALSE` throughout: every program here may
end.

| run | instance | shows |
|---|---|---|
| `context_registry` | 2 sessions, 3 ids, 4 tags | the registry implements the algebra; a file without a torn row loads, and agrees with memory; one row per id |
| `runtime_attribution` | 2 workers and main, 2 tasks, 2 requests, 4 intervals, 3 spans | `AcceptedIsRight`, `CleanIsAccepted`, `AttributorFollows` |
| `libuv_attribution` | 2 pool threads, 2 addresses, 2 pieces of work, depth 3, 4 contexts | the first two for the Node bridge; reuse of an address never mixes two pieces of work; the C++ context is the AsyncLocalStorage store; joins of joins implement the algebra |
| `worker_attribution` | 3 calls, 2 slots, 2 threads, six scenarios | the attributor on the worker's markers; a death while a job is unread or open is refused; what a caller is told, and that it is told |
| `worker_relay` | 3 jobs, two for one slot | a relayed answer is that job's; nobody waits for a reader that has gone; everything ends |
| `report_protocol` | 3 analyses, 1 query that restarts | a valid report vouches for its files; a query prints one analysis |
| `report_retracted` | the same | violated, see [Divergences](#divergences) |
| `tokio_server` | 3 lines, 1 and 2 blocking threads, slots 0..2 | shared writes cover and own exactly their members, once each; a barrier waits for what was scheduled unless another barrier holds it; calls are answered, and printed before the end |
| `socket_ownership` | 2 threads or processes, numbers {3, 4}, 2 requests, 6 calls | whom an effect on a socket is charged to, and when a read may be charged at all |
| `descriptor_evidence` | 3 threads and 3 messages; 2 threads, 2 numbers, 3 installations, 3 closes | a reported pair is one message; a ring operation is on what its descriptor is linked to |
| `experiment` | one wave of 2 calls, 1 descriptor, 2 effects, all clients | windows hold the truth; a replay is analysed whole; "complete" was recorded; replays end, and so do sessions whose server is untraced or exits |
| `shared_ring` | 3 jobs, batches of 2, a queue of 4, 2 faults | owners of ring operations; no clean run refused; an answered job is done; the program ends |

`descriptor_evidence` explores its two modules each with the other at rest: they
share nothing. `libuv_attribution` explores work and faults with two contexts,
and four contexts without either (`Explored`).

**Why the bounds suffice.** Two threads and two tasks are the least with which a
task can be polled in turn by two threads while another uses the first; three
spans nest one explicit scope in a task and leave one for a task it spawns; a
fourth interval lets a task migrate twice. Two pieces of work are the least that
can use one address in turn or two at once, for two requests. Four contexts make
a join of a join; what a join is given does not depend on work. Depth 3 is a
scope inside a request inside a callback. In the registry, four tags reach the
overflow after three requests or a join of two. Two calls on two threads reach
every race in the worker; a third comes after a thread is used again. Three
relayed jobs are one that times out, a second for the same slot, and one beside
them. Three analyses are: one that published, one that fails or is killed over
its outputs, one that starts over what that left. Three calls in a batch make
one group, two groups, duplicates and gaps; a barrier, a job before it and a
second job or barrier are the races of `detached`. With one blocking thread a
second user of the pool already has to wait, so there two lines of every kind
are enough; with two threads the three lines are contributions, or jobs and
barriers, and nothing is printed (`NothingPrinted`), which also keeps the writer
alive. Six calls on sockets, of which the first two enter a request and open
one, are a duplicate, a close, a reuse and a fork with one to spare. Three
messages and three threads overlap two sends and one receive, or the reverse;
an installation, its close and a reuse of the number, with a second close beside
them, are what a descriptor's evidence can get wrong. Two calls in one wave
overlap, with an effect of each; two waves follow each other, which the proofs
cover. A batch of two and a partial one, on a queue of four positions that
wraps, are the batches there are.

**Restrictions in properties.** `AcceptedIsRight` of the Node bridge excludes the
double fault "unseen": `emit` failed to write *and* the tracer missed the failing
call. Then no evidence exists, and the bridge, unlike the Rust layer which
panics, lets the callback run. `DeathIsRefused` excludes it too, and speaks of a
worker that is gone while some job was unread, queued or between its markers. The
background write and the answer may also raise (`persistent_worker.py:163-170`),
after the bracket was closed: the worker then exits with 24, and a capture in
which every bracket is closed may be accepted. Its bindings are right
(`AcceptedIsRight` has no such exclusion). `ReportVouches`
and `PrintedIsOneAnalysis` hold while `Undisturbed`: no merge rewrote the graph
and no analysis failed after it had published, the first divergences below.
`BarrierDrains` excepts exactly the jobs that are in the hands of another barrier
when the first is answered, one that awaits them still or has dropped them in
failing (`Holds`). The socket properties
claim nothing once calls `raced`: `analyze.py:119` orders by entry, and where two
calls on one table took effect the other way round the trace does not tell.
`PairsAreTransfers` holds unless a thread was killed inside a send that took
effect. `ReferencesNameResources` excludes a close that `evaded` the log, and
epochs of numbers whose close was interrupted. `WindowsHoldTruth` of the descriptor
strategy is claimed of numbers opened once.

**Fairness.** Safety runs have none. `worker_attribution` assumes of the event
loop, the worker's reader and each of its threads that a step they can take they
take in the end: node runs its callbacks, the operating system its threads. The
client need not leave. `worker_relay` assumes that the first worker's threads are
scheduled and its timers fire, its reader runs, and its shutdown goes on once it
has begun; of the leaf, nothing. `tokio_server` assumes weak fairness of each
task, each piece of work, each flush, `serve`'s awaits and the printing thread:
Tokio polls what was woken, the pool is a FIFO queue, and the client reads what
is printed. It is *not* assumed that the client closes stdin, nor that it fills a
batch: a contributor to a batch that never fills waits for ever, and the
property says so, as does `docs/runtime-findings.md` (the batch "waits for an
explicit batch width"). `experiment` assumes that the client's and the proxy's
event loops and timers go on, the one of `matrix.py` that ends in SIGKILL among
them, and that SIGTERM ends a server that is not traced: none of the servers
handles it. Of a traced server that was terminated, of one that works, and of the
rest of the matrix nothing is assumed. `SessionEnds` therefore promises the end
of a replay, which kills a proxy that does not stop, and of the loop of
`run_openai_agent.py` and Codex only where the server is untraced or has exited:
the proxy of a traced server that hangs waits for it for ever (`proxy.py:92`), and
`run_openai_agent.py:186` waits for that proxy. `shared_ring` assumes that the program runs
and the kernel completes what was submitted.

## Divergences

One has a run that TLC finds violated. `report_retracted`: `query.py:126` refuses
an "Analysis changed while reading". A failure after publication empties the
outputs (`attribute.py:797`) before it invalidates the report, so a query can
print rows over an emptied graph.

The others are in the models, where a property excludes them by name, and need
no exploration to see.

- The merged graph "can be queried by query.py" (`merge_graphs.py:13`). Its
  digest in the report is stale after the merge, and `query.py` refuses it.
- "all work drained" (`main.rs:305`): a barrier beside another, or after one that
  failed, answers so while scheduled jobs run (the handles are taken, 301).
- "Capture failure is fatal" (`context.cc:87`), yet `fatal_code` is only looked at
  by later submissions: a process without one ends normally.
- `batch_io` refuses slot 99999 (`main.rs:171`), which its schema allows (325).
- Messages are "never guessed" (`descriptor_transfers.py:1-7`): the parser drops
  the call of a thread that was killed in it (`analyze.py:88`), so a message that
  was sent is not counted and later ones pair wrongly.
- "Any observed close attempt invalidates the projection"
  (`native_socket_lifetimes.py:35`): not one that was under way before the
  installation was entered, frees what it installed, and returns before it. Line
  25 asks for closes entered since, or not over. Dropping `evaded` from
  `ReferencesNameResources` shows it in seven steps; it takes a program that
  closes a number twice.
- The descriptor epoch of a number used again is kept from its first open
  (`compare_baselines.py:106`), though lines 18-20 and 96 say epochs follow opens.
- A `connect` that failed is taken for a connection (`attribute.py:371`); a thread
  id used again keeps the state of the thread before it.
- `run_agent.py:14` says that it "produces causal attribution"; it runs no
  analysis, and takes Codex's exit status for the outcome.

Also seen while modelling, and reflected in what the properties claim: nobody
waits for the proxy of a Codex session, so its analysis may read an unfinished
trace; a case killed while writing its manifest leaves half a file, on which
`matrix.py:69` raises and ends the whole matrix; `run_openai_agent.py` waits for
an answer without bound and says complete also when its turns were used up; a
replay that kills its proxy leaves the server an orphan; `proxy.py:84` waits for
the response pump without bound.

## Proofs

Assumptions are the named ones on the constants in each module; TLC evaluates
them in every run.

**ContextRegistryProofs**, for any set of registries and ids and any maximal tag.
`TypeCorrect` is inductive with `OpenLine`: a file that does not end in a newline
has a last line, the one the next write continues. `ReadableFilesLoad` says that
a file whose lines are all whole is one `load_request_mapping` accepts. It is not
inductive: it says nothing of files with a torn row, and a row appended to such a
file must not make it readable. The strengthening `FileInv` relates each readable
file to the registry: every line is the row of a tag below the counter, tags
strictly increase along the file, a join row names only tags of earlier rows
(`SoundLines`), and the roots of each context handed out have rows in it
(`Rooted`). A file with a garbage line never becomes readable, because text is
only appended. The lemmas `SoundAppend`, `RootedAppend` and `OtherSessions` say
what one append does to this, `IssueSound` and `StepFile` put them together.
`IdsNameOneRow` needs that every id in the file is one the registry remembers
(`Remembered`): then a fresh id cannot be in it, and a torn row only ever becomes
garbage.

`FilesTellOwnership` (`MappingAgrees`): what `attribute.py` computes along the
file is what the program carried in its contexts. `Owners` is a recursive
function, so the proof needs what it computes for a file of any length. It is
characterised by the sequence of tables after each row (`Tables`); that there is
one and no other (`TablesExist`, `TablesUnique`) is shown by the least row for
which it would fail, `LeastNumber`, which follows from the well-foundedness of <
and needs no induction rule over an operator. `OwnersAppend` then says what one
more row does. `MapInv` is: in a readable file the table has exactly tags below
the counter, every context handed out has its roots there, and roots are
requests, which own themselves. The last makes a join of joins come out flat.

The same module, about the promise itself and that it is kept. `OwnershipGrounded`:
owners are always registered requests, proved together with the algebra's types,
which are inductive with it: a join takes the union over parents that are
contexts already. `OwnershipImmutable` is an action property and follows from
the form of the two actions under that invariant. `RegistryImplementsAlgebra`:
under the mapping that
reads the contexts in callers' hands as a table of owners, each call is a
`Register` or `Combine` of ContextAlgebra or stutters. The mapping picks a
context by its tag, so the invariant is that tags lie below the counter and none
is handed out twice (`TagInv`); `TableExtended` says that one more context
extends one table at a fresh tag and moves no other entry. With the theorems
above it follows that what the Rust registry hands out is grounded and never
rebound.

**ProtocolProofs**, first for any number of analyses and queries. `Inv` is the
conjunction of the types, `AnalyserInv` (which file holds what at each step of
an analysis), `ReportInv` (a valid report and what it vouches for) and
`QueryInv` (what a query knows at each step: as long as its report is still the
one on disk, what it has verified and read is what that report vouches for).
The last is the point of reading the report again: nothing is claimed of a query
whose report was replaced, until `RereadReport` compares. Each conjunct has a
lemma, and `QueryStep` is split by who moves. `ReportsVouch` and
`QueriesPrintOneAnalysis` are the two properties of the run `report_protocol`.

Then, of WorkerRelay, for any jobs and slots. `RelayInv` adds four things to the
types: a thread that waits has a future that is registered, completed, or in the
reader's hands (`WaiterKnown`); an "ok", wherever it is on its way, means that the
slot was written (`AnswersTrue`); a job is answered once (`OnceEach`); and what is
with the leaf has a thread that waits or has given up (`FlightKnown`). The first
gives `NobodyIsForgotten`: the reader fails whoever is registered, under the lock
under which `delegate` looks whether the reader has failed. The others give
`RelayedJobsAreDone`.

Last NativeDescriptors, for any threads, numbers, calls and references of a kernel
under a debugger. `Witnessed`: a close beside an installation was around it when
it began, or was seen coming. Hence `Standing`: what an installation is about to return is still
there, unless its number's close was seen, or evaded. Hence `Links`: a link is to
what the number means, and nobody is closing it. `Epochal` says the same of
epochs: within one, a number means what it meant or its close is under way. One
lemma per action keeps all four; `EvidenceNamesResources` is the run's property.

**RuntimeAttributionProofs**, for any threads, tasks, requests, spans and intervals.
The attributor sees the layer through markers, any of which may be lost, torn,
or fail without a trace of it. `AttributionInv` has three parts. The layer by
itself (`LayerInv`): a thread is inside spans that exist, in the order they were
made, those of its task first. Then either the attributor's tables *mirror* the
layer's stacks (`Mirrored`: each frame is an operation entered and not left,
`activeWork` is the stack, an interval is on one stack or between the two markers
of a boundary, and rows so far are right), or the capture is *doomed*: there is
an error, or an operation is open that no thread has any more and that none can
complete. Doom is never undone (`DoomedStep`), and the end refuses it; so what is
accepted is mirrored, and right (`AcceptedCapturesAreRight`). That a failed `emit`
panics is what the second kind of doom needs: the interval it was for never
completes. Third, while nothing went wrong (`Clean`), no guard is held across a
wait, frames and scopes agree in number, and an operation that is not open went
its way to the end: `CleanCapturesAreAccepted`, `AttributorFollowsLayer`. One
lemma per kind of marker says what the attributor makes of it
(`AttributorStep`), one per step of the layer what the mirror makes of both.

**LibuvAttributionProofs**, for any pool, addresses, callbacks, contexts and depth of
nesting. The bridge by itself first (`BridgeInv`). On the main thread three things
displace a context and save it in three places: a callback on the stack of the
hooks, a scope in its own frame, and a request nowhere, since it ends in no
request. `Nested` says of each frame what store is below it; `Hooked` that the
hooks hold, for the callbacks among the frames and in their order, exactly those
stores. So whatever ends gives back the store below it: `NativeContextIsStore`. In
libuv a piece of work is queued, run by one thread, or due for its done callback
(`Placed`), and has its record, with a number of its own, as long as it is in one
of these places and no longer (`Recorded`): an address comes back only when its
record has gone, which is `WorkKeepsItsSubmitter`.

Beside it the attributor (`AttributionInv`). What went wrong with a marker was
refused, or left no evidence (`Refused`). While nothing went wrong its tables are
those of the bridge (`Followed`): each thread's request, the operation a pool
thread is in, and of each record whether it was begun and is through; an
operation nobody has any more went its way to the end (`AllClosed`). Each step of
the bridge is one marker, one effect or neither, so a lemma per kind of event
says what the tables become, and one lemma per step (`...Bridge`, `...Sound`) puts
both together. `AcceptedCapturesAreRight` and `CleanCapturesAreAccepted` follow, the
second because a process that ends normally holds no work. `BridgeIsAlgebra`: the
two actions that number a context are `Register` and `Combine`, since the parents
of a join are numbered already and the next number is not. Assumed of the
constants: the main thread is not of the pool, threads are traced, contexts have
rows in the mapping, and "nothing" is no address.

**WorkerAttributionProofs**, for any calls, slots and threads. `OncePlaced`: on its
way a job is in one place, being sent, in the pipe, in the queue, or with a
thread, once; no answer to it exists yet, and two jobs on their way have two
slots. Hence `SlotsAreOwned`, and with what each answer stands for (`AnswersTrue`)
`CallsResolveTruly`. The attributor's table of jobs mirrors those places or has
an error: a job that may yet be entered or cancelled is in it and fresh
(`Expected`, `Fresh`), and the job of a thread is that thread's `ipcActive`
(`Followed`). `AcceptedWorkersAreRight` follows, and `DeathsAreRefused`: a job that
is unread or queued when the worker goes is in the table and was never entered,
and one whose thread crashes or raises between its markers is open there; a
thread whose background write or answer raised is as good as idle. Unlike the runtime,
"doomed" is only "an error": a marker lost or torn is one at once, and one that
failed without a trace ends the work it was for, in dispatcher and worker. `CleanWorkersAreAccepted` needs that while nothing went
wrong every job is finished or on its way. That the program's contexts and
threads are known to the attributor are the assumptions `AttributionAssumption`.

**TokioServerProofs**, for any lines of input, slots, sizes of the batch and of the
pool. `ServerInv` has eleven parts. Types and queue: every piece of work a task or
the loop waits for is queued, running or done, and a task is where its tool goes
(`QueueKnown`, `RunsKnown`). The batch: `flush_batch` is spawned by each call that
fills a batch and by nothing else (`main.rs:185-188`), and several of them run at
once, beside calls that contribute to the next batch. A contribution is
in the batch, or pending in one flush, or in the group that flush is writing
(`HeldOnce`), and a group has the slots of a contiguous run (`GroupsRight`, hence
`SharedWritesAreOwned`). A write's members are still in the group of the flush
that wrote it or have been replied to (`WritesKnown`), so none of them is in
another write: `ContributionsWrittenOnce`. What `flush_batch` computes is first
shown in operators of its own: sorting is a permutation (`SortSteps`), a group is
a prefix that leaves the rest as it was (`GroupSteps`, `GroupSlots`). Detached
jobs: one that has not ended is in the handles, with a barrier that awaits it or
failed, or with the end (`JobsKept`, `HandlesKnown`); one reported before a barrier
was received is detached until that barrier, or another, takes it, and then in
the hands of some barrier until it has ended (`BarrierKnows`): `BarriersDrain`,
for any number of barriers that race. `ServeKnown` says how far the end has come, and
gives `AnsweredAtTheEnd`. An argument that failed corrected the model: a line that
is no call may name the tool `barrier`, and was counted among `Barriers`.

**DescriptorEvidenceProofs**, first for any threads, flows and clock. `TransferInv`: the
clock orders what a call did between its entry and its return (`Moments`), every
message that took effect is in a call, in the log, or has left an error
(`Traced`), and effects are numbered in order (`Numbered`). On an accepted channel
every entry of the log ends before the next begins, so by `Moments` the i-th
entry of a side is the i-th effect; `PairsJoinOneMessage` is the run's
property. What the error cases are for is that without them `Traced` fails.

Then the ring, in both modes, for any jobs, width and faults. `KernelInv`: the
jobs in hand are the last ones taken, what is still to be called is the rest of
a plan that the batch determines, and each operation is in flight, completed or
seen; hence `AnsweredJobsPerformed`. `EvidenceInv` adds what was written of it:
rows name operations by numbers no other job has (`CallsKnown`), what the kernel
was given is in the worker's file (`SubmissionsWritten`), the markers around a
row are those of the job in hand unless one was missed, which shows
(`MarkersMatch`, `JobsRight`), and a number denotes at each enter the file it
still denotes, or none that is known, because files are opened and replaced only
before the first enter (`FilesEarly`, `FilesRight`). From what the adapter checks,
`RingReportsAreRight` follows: it is the run's property. That no whole capture
is refused is a second invariant beside it, `faults = {} => Clean`, whose parts
are what each check of the adapter counts. While nothing went wrong every call is
in the trace and its rows in the file (`CleanCalls`); the batch of a row is told
by how many enters precede it, and a submission precedes its enter, which a
completion follows (`CleanPlaces`); the rows are those of the operations prepared
and completed, each once, and a batch that is over has both rows of each
(`CleanRows`); an enter counts the submissions written since the one before, and
the file is known at it (`CleanEnters`); and what was answered is what was taken
and is no longer in hand (`CleanAnswers`). It is inductive only with
`EvidenceInv`, which says what is still to be called. A step that writes rows
is one lemma per state of the program (`NextSubmission`, `NextCompletion`), and the
two modes meet the same five parts. `CleanCapturesAccepted` follows, with
`RingReportsAreRight`'s argument for what is reported.

**ExperimentProofs**, for any waves of calls, descriptors and length of a session.
A manifest is written by a process that saw neither the log nor the server, so
the invariant follows the evidence: every answer in the log comes after its
request (`Preceded`); what the server has of a call was logged before
(`Logging`), and what the client was told is in the log (`Answering`); a replay
that leaves without failure has every answer and leaves nothing running
(`Leaving`); each stage keeps what the first one knew, on a log that grows no
more (`Staging`), and the manifest says complete only at the end of them
(`Writing`). `ReplaysAreSeenWhole` and `CompleteWasRecorded` follow. `WindowsHold`
adds to them that a call waits in one place until the server takes it, and is
taken once (`TakenOnce`), and that what the server does for it comes after its
row in the log and before its answer's (`Enclosed`); the sets the baselines score
are then compared by their cardinalities.

Out of the prover's reach, and left to TLC: liveness and ENABLED; and anything
about a RECURSIVE operator (the proved modules declare none). The library's
induction rules, which take an operator, cannot be instantiated; where a fact
about a recursive function is needed, the least counterexample does.

Only model-checked: the two invariants of SocketOwnership.
They compare the tables of a kernel, whose calls take effect between entry and
return, with the tables that `attribute.py` folds over the calls in order of
entry, after the run: the proof would need that calls which overlap may be
exchanged, for a fold over a sequence that is sorted first. Of the liveness properties (`CallsEnd`, `EveryCallEnds`, `RelayEnds`,
`RingEnds`, `SessionEnds`) nothing is proved.

## Plan

The order was by importance: the promise of the registry and its file; trace
events and the attributor; the two bridges; the worker; the report; the Tokio
server; then socket ownership, the relay, the session with its baselines and
experiment, descriptor transfers, the shared ring, and the evidence about
descriptors under a debugger. All of these exist. The proofs went first
where a small instance is least convincing, because lengths and numbers of
participants are unbounded (files, queries, jobs, messages, waves, closes), and
then to the three bridges, whose claims carry the rest.

Worth doing next, in this order: `OwnersFollowDescriptors` of the sockets; descriptors passed with relayed
jobs, which would join `WorkerRelay`, `DescriptorTransfers` and `SocketTables`; the
watcher queue of `native_watcher_queue.py` over a model of libuv's loop.

## Not modelled

Wording, layout, logging and command lines throughout. Oracles (`score_*.py`)
compare two files, and shaped the properties instead: `score_batch.py`'s expected
parent sets are `WritesAreOwned`. Probes are not part of the running system. The
first experiment's crates are independent tasks, text parsing and metrics; its
files are joined after the run, with nothing beside it. Evidence and results are
data. `native_agent.py`, `benchmark.py`, `build_tokio.py` and the recorders for
one native binary start processes and do nothing the modelled ones do not.
`run_agent.py` is a separate command line around Codex.

Of the native ring evidence: the watcher queue, preparations, retries and the
graph built from them follow one event loop through a log that the debugger has
serialised, and refuse what does not match. Of the shared ring: the snapshots of
ring memory (`ring_memory*`, `validate_scoped_ring`), coverage counts and
`ring_baselines.py`. Of the sockets: joined contexts as owners, addresses, and
descriptors received by SCM_RIGHTS, whose pairing is DescriptorTransfers but
whose table entry is not in SocketTables. Of the worker: passing a descriptor
with a job, a worker per job; of `control-server.mjs` its network and `uring`
tools and its timer-driven `batch_io`. Marker writes that are interrupted are
repeated (`lib.rs:90-103`, `context.cc:89`) before they count as made or failed; the
repetition itself is not modelled. The ring is taken to be large enough for a
batch (`RingAssumption`): `shared_ring.c` asks for 512 entries, refuses a width
above 128, which is 384 of them, and drains each batch before the next, so its
check for a full ring (81) cannot fail. Of a session: effects of detached jobs,
which lie outside every window.
