-------------------------- MODULE SocketOwnership --------------------------
(***************************************************************************)
(* Processes that open, duplicate, inherit and reuse descriptors, and the  *)
(* attributor that must know from the trace which socket a number means.   *)
(*                                                                         *)
(* A call takes effect some time after it was entered, and analyze.py      *)
(* orders the trace by entry: entered holds the calls in that order, each  *)
(* until it and all before it have returned, and then the attributor takes *)
(* it.  The kernel's tables are the truth the attributor's are compared    *)
(* with.                                                                   *)
(***************************************************************************)
EXTENDS SocketTables, SequencesExt

CONSTANTS Tids,       \* thread ids, numbers
          Main,       \* the first thread
          Fds,        \* descriptor numbers
          Requests,   \* request contexts
          MaxCalls    \* bound on the calls of a behaviour

ASSUME SocketAssumption ==
    /\ Main \in Tids /\ Tids \subseteq Nat \ {0}
    /\ Fds \subseteq Nat /\ Requests \subseteq Nat \ {0}

VARIABLES proc,       \* the process of a thread, 0 for one not started
          files,      \* the kernel's descriptor table of a thread
          tables,     \* the descriptor tables: sequence of functions on Fds
          users,      \* per socket, the requests whose code used it
          meant,      \* the request the code on a thread works for
          entered,    \* calls in order of entry, not yet with the attributor
          calls,      \* number of calls entered
          raced,      \* two calls on a table took effect against their order,
                      \* or a connect met a number reused under it
          attributor

vars == <<proc, files, tables, users, meant, entered, calls, raced, attributor>>

Closed == [file |-> -1, cloexec |-> FALSE]
PlainFile == 0                          \* sockets are numbered from 1
Entry(file, cloexec) == [file |-> file, cloexec |-> cloexec]

Live == {t \in Tids : proc[t] # 0}
Table(t) == tables[files[t]]
IsOpen(t, fd) == Table(t)[fd] # Closed
IsSocket(t, fd) == Table(t)[fd].file > 0
Free(t) == {fd \in Fds : ~IsOpen(t, fd)}
Lowest(S) == CHOOSE x \in S : \A y \in S : x <= y

Pending == -2
Call(op) == [op |-> op, fd |-> 0, to |-> 0, cloexec |-> FALSE,
             unshare |-> FALSE, files |-> FALSE, thread |-> FALSE,
             request |-> 0]

(* Calls a correct program makes: on descriptors it has open. *)
Calls(t) ==
    LET open == {fd \in Fds : IsOpen(t, fd)}
        sock == {fd \in Fds : IsSocket(t, fd)}
    IN       {[Call("socket") EXCEPT !.cloexec = x] : x \in BOOLEAN}
        \cup {[Call("accept") EXCEPT !.fd = f, !.cloexec = x] :
                f \in sock, x \in BOOLEAN}
        \cup {[Call("dup") EXCEPT !.fd = f, !.to = d, !.cloexec = x] :
                f \in open, d \in Fds \cup {0}, x \in BOOLEAN}
        \cup {[Call("setfd") EXCEPT !.fd = f, !.cloexec = x] :
                f \in open, x \in BOOLEAN}
        \cup {[Call("close_range") EXCEPT !.fd = f, !.to = d, !.cloexec = x,
                                          !.unshare = u] :
                f \in Fds, d \in Fds, x \in BOOLEAN, u \in BOOLEAN}
        \cup {[Call("clone") EXCEPT !.files = s, !.thread = s /\ h] :
                s \in BOOLEAN, h \in BOOLEAN}
        \cup {[Call(op) EXCEPT !.fd = f] : op \in {"close", "read", "write"}, f \in open}
        \cup {[Call("connect") EXCEPT !.fd = f] : f \in sock}
        \cup {[Call("mark") EXCEPT !.request = r] : r \in Requests \cup {0}}
        \cup {Call(op) : op \in {"open", "unshare", "exec"}}

-----------------------------------------------------------------------------
Init ==
    /\ proc = [t \in Tids |-> IF t = Main THEN Main ELSE 0]
    /\ files = [t \in Tids |-> IF t = Main THEN 1 ELSE 0]
    /\ tables = <<[fd \in Fds |-> Closed]>>
    /\ users = <<>>
    /\ meant = [t \in Tids |-> 0]
    /\ entered = <<>> /\ calls = 0 /\ raced = FALSE
    /\ attributor = Attributor

Idle(t) == \A i \in DOMAIN entered : entered[i].tid = t => entered[i].ret # Pending

Enter(t) ==
    /\ calls < MaxCalls /\ t \in Live /\ Idle(t)
    /\ \E c \in Calls(t) :
          entered' = Append(entered,
              c @@ [tid |-> t, ret |-> Pending, file |-> -1])
    /\ calls' = calls + 1
    /\ UNCHANGED <<proc, files, tables, users, meant, raced, attributor>>

(* Call i returns.  The attributor is offline: it takes a call when it and   *)
(* all that were entered before it are complete.                             *)
Return(i, ret, file) ==
    LET done == [entered EXCEPT ![i].ret = ret, ![i].file = file]
        waiting == {j \in DOMAIN done : done[j].ret = Pending}
        n == IF waiting = {} THEN Len(done) ELSE Lowest(waiting) - 1
        io == {"read", "write", "connect"}
    IN  /\ entered' = SubSeq(done, n + 1, Len(done))
        /\ attributor' = FoldLeft(ProcessTrace, attributor, SubSeq(done, 1, n))
        /\ raced' = \/ raced
                    \/ entered[i].op = "connect" /\ ret = -1
                    \/ \E j \in 1 .. i - 1 :
                          /\ entered[j].ret = Pending
                          /\ files[entered[j].tid] = files[entered[i].tid]
                          /\ ~{entered[i].op, entered[j].op} \subseteq io
        /\ UNCHANGED calls

Taking(t, ops) == {i \in DOMAIN entered : /\ entered[i].tid = t
                                          /\ entered[i].ret = Pending
                                          /\ entered[i].op \in ops}

Install(t, fd, entry) == tables' = [tables EXCEPT ![files[t]][fd] = entry]

(* A call on a number that another thread closed meanwhile fails, and so     *)
(* does one that finds no number free or no thread left to start.            *)
Fail(t, i) == /\ Return(i, -1, -1)
              /\ UNCHANGED <<proc, files, tables, users, meant>>

SocketCall(t) == \E i \in Taking(t, {"socket", "accept"}) :
    LET c == entered[i]
        fd == Lowest(Free(t))
    IN  IF Free(t) = {} \/ (c.op = "accept" /\ ~IsSocket(t, c.fd)) THEN Fail(t, i)
        ELSE /\ users' = Append(users, {meant[t]} \ {0})
             /\ Install(t, fd, Entry(Len(users'), c.cloexec))
             /\ Return(i, fd, Len(users'))
             /\ UNCHANGED <<proc, files, meant>>

OpenCall(t) == \E i \in Taking(t, {"open"}) :
    LET fd == Lowest(Free(t))
    IN  IF Free(t) = {} THEN Fail(t, i)
        ELSE /\ Install(t, fd, Entry(PlainFile, FALSE))
             /\ Return(i, fd, PlainFile)
             /\ UNCHANGED <<proc, files, users, meant>>

IoCall(t) == \E i \in Taking(t, {"read", "write", "connect"}) :
    LET file == Table(t)[entered[i].fd].file
    IN  IF file = -1 \/ (entered[i].op = "connect" /\ file = PlainFile)
        THEN Fail(t, i)
        ELSE /\ users' = IF file = PlainFile THEN users
                         ELSE [users EXCEPT ![file] = @ \cup ({meant[t]} \ {0})]
             /\ Return(i, 0, file)
             /\ UNCHANGED <<proc, files, tables, meant>>

(* dup2 of a number to itself changes nothing; dup3 refuses it. *)
DupCall(t) == \E i \in Taking(t, {"dup"}) :
    LET c == entered[i]
        fd == IF c.to = 0 THEN Lowest(Free(t)) ELSE c.to
    IN  IF \/ ~IsOpen(t, c.fd) \/ (c.to = 0 /\ Free(t) = {})
           \/ c.to = c.fd /\ c.cloexec
        THEN Fail(t, i)
        ELSE /\ IF fd = c.fd THEN UNCHANGED tables
                ELSE Install(t, fd, Entry(Table(t)[c.fd].file, c.cloexec))
             /\ Return(i, fd, -1)
             /\ UNCHANGED <<proc, files, users, meant>>

SetFdCall(t) == \E i \in Taking(t, {"setfd"}) :
    LET c == entered[i]
    IN  IF ~IsOpen(t, c.fd) THEN Fail(t, i)
        ELSE /\ Install(t, c.fd, Entry(Table(t)[c.fd].file, c.cloexec))
             /\ Return(i, 0, -1)
             /\ UNCHANGED <<proc, files, users, meant>>

CloseCall(t) == \E i \in Taking(t, {"close"}) :
    IF ~IsOpen(t, entered[i].fd) THEN Fail(t, i)
    ELSE /\ Install(t, entered[i].fd, Closed)
         /\ Return(i, 0, -1)
         /\ UNCHANGED <<proc, files, users, meant>>

(* The thread works on a copy of its table from here on. *)
OwnTable(t, table) == /\ tables' = Append(tables, table)
                      /\ files' = [files EXCEPT ![t] = Len(tables')]

CloseRangeCall(t) == \E i \in Taking(t, {"close_range"}) :
    LET c == entered[i]
        table == [fd \in Fds |->
                    IF fd \notin c.fd .. c.to \/ ~IsOpen(t, fd) THEN Table(t)[fd]
                    ELSE IF c.cloexec THEN Entry(Table(t)[fd].file, TRUE)
                    ELSE Closed]
    IN  IF c.fd > c.to THEN Fail(t, i)
        ELSE /\ IF c.unshare THEN OwnTable(t, table)
                ELSE /\ tables' = [tables EXCEPT ![files[t]] = table]
                     /\ UNCHANGED files
             /\ Return(i, 0, -1)
             /\ UNCHANGED <<proc, users, meant>>

UnshareCall(t) == \E i \in Taking(t, {"unshare"}) :
    /\ OwnTable(t, Table(t))
    /\ Return(i, 0, -1)
    /\ UNCHANGED <<proc, users, meant>>

(* The image is replaced: the table is the process's own, and descriptors    *)
(* marked close-on-exec are gone.  Only a process of one thread does it.     *)
ExecCall(t) == \E i \in Taking(t, {"exec"}) :
    IF \E u \in Live \ {t} : proc[u] = proc[t] THEN Fail(t, i)
    ELSE /\ OwnTable(t, [fd \in Fds |-> IF Table(t)[fd].cloexec THEN Closed
                                        ELSE Table(t)[fd]])
         /\ Return(i, 0, -1)
         /\ UNCHANGED <<proc, users, meant>>

(* A child process works for what its parent works for; a thread for nothing *)
(* until the runtime says so.                                                *)
CloneCall(t) == \E i \in Taking(t, {"clone"}) :
    LET c == entered[i]
        child == Lowest(Tids \ Live)
    IN  IF Live = Tids THEN Fail(t, i)
        ELSE /\ proc' = [proc EXCEPT ![child] = IF c.thread THEN proc[t] ELSE child]
             /\ meant' = [meant EXCEPT ![child] = IF c.thread THEN 0 ELSE meant[t]]
             /\ IF c.files
                THEN /\ files' = [files EXCEPT ![child] = files[t]]
                     /\ UNCHANGED tables
                ELSE OwnTable(child, Table(t))
             /\ Return(i, child, -1)
             /\ UNCHANGED users

(* The runtime enters a request on the thread and marks it. *)
MarkCall(t) == \E i \in Taking(t, {"mark"}) :
    /\ meant' = [meant EXCEPT ![t] = entered[i].request]
    /\ Return(i, 0, -1)
    /\ UNCHANGED <<proc, files, tables, users>>

Next == \E t \in Tids :
    \/ Enter(t) \/ SocketCall(t) \/ OpenCall(t) \/ IoCall(t) \/ DupCall(t)
    \/ SetFdCall(t) \/ CloseCall(t) \/ CloseRangeCall(t) \/ UnshareCall(t)
    \/ ExecCall(t) \/ CloneCall(t) \/ MarkCall(t)

Spec == Init /\ [][Next]_vars

-----------------------------------------------------------------------------
Attributed == entered = <<>> /\ ~raced

KnownTo(t, fd) ==
    /\ t \in DOMAIN attributor.fdTables
    /\ <<attributor.fdTables[t], fd>> \in DOMAIN attributor.sockets

(* Unless two calls on one table took effect against the order in which they *)
(* were entered, the attributor knows of every descriptor of every thread    *)
(* whether it is a socket, whether exec will close it, and exactly the       *)
(* requests whose code used that socket, through whatever number and in      *)
(* whatever process: attribute.py 314-450.                                   *)
OwnersFollowDescriptors ==
    Attributed =>
        \A t \in Live, fd \in Fds :
            /\ IsSocket(t, fd) <=> KnownTo(t, fd)
            /\ IsSocket(t, fd) =>
                  LET key == <<attributor.fdTables[t], fd>>
                  IN  /\ attributor.requests[attributor.sockets[key]]
                            = users[Table(t)[fd].file]
                      /\ key \in attributor.closeOnExec <=> Table(t)[fd].cloexec

(* A read made without a context is bound after the run to a request only if *)
(* that request is the only one that ever used the socket read from, however *)
(* often its descriptor number was reused: _bind_socket_reads.               *)
ReadsBoundToSoleUser ==
    Attributed =>
        \A row \in attributor.rows :
            /\ row.context = 0 /\ BoundTo(attributor, row) # 0 =>
                  row.file > 0 /\ users[row.file] = {BoundTo(attributor, row)}
            /\ row.context = 0 /\ row.file > 0
                 /\ Cardinality(users[row.file]) = 1 =>
                  BoundTo(attributor, row) \in users[row.file]
=============================================================================
