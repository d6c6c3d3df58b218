----------------------------- MODULE RingAdapter -----------------------------
(***************************************************************************)
(* What the attributor may say of operations a program submitted through   *)
(* an io_uring: shared_ring_adapter.py for the worker that serves many     *)
(* requests with one ring, ring_helper.py for the process started for one  *)
(* request, and ring_observations.py, which both use.                      *)
(*                                                                         *)
(* The operations are no system calls.  The program writes a row for each  *)
(* submission and each completion, and the trace of those writes, of the   *)
(* markers and of io_uring_enter is all there is.  One thread makes every  *)
(* call, so that the trace is a sequence and a position stands for both    *)
(* the time of entry and that of completion.                               *)
(***************************************************************************)
EXTENDS Naturals, Integers, Sequences, FiniteSets, SequencesExt

NoFile == "no file"
NoJob == 0
Unresolved == "unresolved_descriptor"
Invalid == "invalid_descriptor"
BadFd == -1

(* A call: "setup", "open", "close", "enter", "write" (rows) or a marker.    *)
(* The result of a call the process died in is unknown.                      *)
Call(name) == [call |-> name, fd |-> 0, file |-> NoFile, rows |-> <<>>,
               job |-> NoJob, count |-> 0, result |-> "ok"]
Markers == {"IPC_ENTER", "IPC_LEAVE"}

Row(kind, id, op, fd, result, batch) ==
    [kind |-> kind, id |-> id, op |-> op, fd |-> fd, result |-> result, batch |-> batch]

Rows(trace) == FlattenSeq([i \in DOMAIN trace |-> trace[i].rows])
MarkersOf(trace) ==
    FlattenSeq([i \in DOMAIN trace |->
                    IF trace[i].call \in Markers THEN <<trace[i]>> ELSE <<>>])
OfKind(rows, kind) == SelectSeq(rows, LAMBDA r : r.kind = kind)
Places(trace, names) == {i \in DOMAIN trace : trace[i].call \in names}
Latest(places) == CHOOSE i \in places : \A k \in places : k <= i

(* The job of the thread at a place of the trace, by its markers. *)
JobAt(trace, i) ==
    LET marks == {k \in Places(trace, Markers) : k < i}
    IN  IF marks = {} \/ trace[Latest(marks)].call = "IPC_LEAVE" THEN NoJob
        ELSE trace[Latest(marks)].job

-----------------------------------------------------------------------------
(* ring_observations.py *)

(* join_observations: every identity is submitted once and completed once,   *)
(* later; matched by identity, never by the order of completions.            *)
Joinable(rows) ==
    /\ \A a, b \in DOMAIN rows :
          rows[a].kind = rows[b].kind /\ rows[a].id = rows[b].id => a = b
    /\ \A c \in DOMAIN rows : rows[c].kind = "cqe" =>
          \E s \in 1 .. c - 1 : rows[s].kind = "sqe" /\ rows[s].id = rows[c].id
    /\ \A s \in DOMAIN rows : rows[s].kind = "sqe" =>
          \E c \in DOMAIN rows : rows[c].kind = "cqe" /\ rows[c].id = rows[s].id

(* Wrong: the nth completion is that of the nth submission. *)
PairsInOrder(rows) ==
    {p \in (DOMAIN rows) \X (DOMAIN rows) :
       /\ rows[p[1]].kind = "sqe" /\ rows[p[2]].kind = "cqe"
       /\ Len(OfKind(SubSeq(rows, 1, p[1]), "sqe")) = Len(OfKind(SubSeq(rows, 1, p[2]), "cqe"))}

RowPairs(rows) == {p \in (DOMAIN rows) \X (DOMAIN rows) :
                      /\ rows[p[1]].kind = "sqe" /\ rows[p[2]].kind = "cqe"
                      /\ rows[p[1]].id = rows[p[2]].id}

Joined(rows) == {[id |-> rows[p[1]].id, op |-> rows[p[1]].op, fd |-> rows[p[1]].fd,
                  result |-> rows[p[2]].result] : p \in RowPairs(rows)}

(* observed_file_resource: the last thing that happened to the number before *)
(* the ring was entered; an unknown result may have happened to any number.  *)
Resource(trace, fd, before) ==
    LET changes == {k \in 1 .. before - 1 :
            \/ trace[k].call \in {"open", "setup", "close"} /\ trace[k].fd = fd
            \/ trace[k].call \in {"open", "setup"} /\ trace[k].result = "unknown"}
    IN  IF fd = BadFd THEN Invalid
        ELSE IF changes = {} THEN Unresolved
        ELSE LET last == trace[Latest(changes)]
             IN  IF last.call = "open" /\ last.result = "ok" THEN last.file ELSE Unresolved

(* validate_waiting_enter: everything submitted, and waited for. *)
FullBatch(e, n) == n >= 1 /\ e.result = "ok" /\ e.count = n

-----------------------------------------------------------------------------
(* The places of the write that witnesses a row, and of the nth enter. *)
WitnessOf(trace, row) == CHOOSE i \in Places(trace, {"write"}) :
                            \E k \in DOMAIN trace[i].rows : trace[i].rows[k] = row
Enters(trace) == Places(trace, {"enter"})
EnterOf(trace, n) == CHOOSE i \in Enters(trace) :
                        Cardinality({k \in Enters(trace) : k <= i}) = n

OneRing(trace) == \E i \in DOMAIN trace :
                      Places(trace, {"setup"}) = {i} /\ trace[i].result = "ok"
WholeWrites(trace) == \A i \in Places(trace, {"write"}) : trace[i].result = "ok"

(* shared_graph, one batch. *)
BatchHolds(trace, n) ==
    LET rows == ToSet(Rows(trace))
        sqes == {r \in rows : r.kind = "sqe" /\ r.batch = n}
        cqes == {r \in rows : r.kind = "cqe" /\ r.batch = n}
        enter == EnterOf(trace, n)
        earlier == {WitnessOf(trace, r) : r \in {x \in rows : x.kind = "cqe" /\ x.batch = n - 1}}
    IN  /\ Cardinality(cqes) = Cardinality(sqes)
        /\ FullBatch(trace[enter], Cardinality(sqes))
        /\ JobAt(trace, enter) = NoJob
        /\ \A r \in sqes :
              /\ JobAt(trace, WitnessOf(trace, r)) # NoJob
              /\ WitnessOf(trace, r) < enter
              /\ \A i \in earlier \cup Places(trace, {"setup"}) : i < WitnessOf(trace, r)
        /\ \A r \in cqes :
              /\ \E s \in sqes : s.id = r.id
              /\ WitnessOf(trace, r) > enter
              /\ JobAt(trace, WitnessOf(trace, r)) = NoJob

(* shared_graph: the rows of the trace are those of the file the worker      *)
(* appended them to, and batches and enters are the same sequence.           *)
SharedAccepts(trace, sidecar) ==
    /\ OneRing(trace) /\ WholeWrites(trace)
    /\ Rows(trace) = sidecar
    /\ Joinable(Rows(trace))
    /\ {r.batch : r \in ToSet(Rows(trace))} = 1 .. Cardinality(Enters(trace))
    /\ \A n \in 1 .. Cardinality(Enters(trace)) : BatchHolds(trace, n)

(* helper_graph: one ring, one enter, the rows before it and after it. *)
HelperAccepts(trace) ==
    LET enter == EnterOf(trace, 1)
    IN  /\ OneRing(trace) /\ Cardinality(Enters(trace)) = 1 /\ WholeWrites(trace)
        /\ \A r \in ToSet(Rows(trace)) :
              IF r.kind = "sqe" THEN WitnessOf(trace, r) < enter
              ELSE WitnessOf(trace, r) > enter
        /\ Joinable(Rows(trace))
        /\ FullBatch(trace[enter], Cardinality(Joined(Rows(trace))))

(* The operations put into the graph, each with its job and its file. *)
Operations(trace, owner) ==
    {[id |-> o.id, op |-> o.op, job |-> owner[o.id], result |-> o.result,
      file |-> Resource(trace, o.fd, EnterOf(trace, (CHOOSE r \in ToSet(Rows(trace)) :
                                   r.kind = "sqe" /\ r.id = o.id).batch))]
        : o \in Joined(Rows(trace))}

Submissions(trace) == {r \in ToSet(Rows(trace)) : r.kind = "sqe"}

(* The job whose markers are around the row of a submission. *)
SharedOwner(trace) ==
    [id \in {r.id : r \in Submissions(trace)} |->
        JobAt(trace, WitnessOf(trace, CHOOSE r \in Submissions(trace) : r.id = id))]

(* A helper runs for the one request that started it. *)
HelperOwner(trace) == [id \in {r.id : r \in Submissions(trace)} |-> 1]

SharedOperations(trace) == Operations(trace, SharedOwner(trace))
HelperOperations(trace) == Operations(trace, HelperOwner(trace))
=============================================================================
