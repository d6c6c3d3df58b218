---------------------------- MODULE SocketTables ----------------------------
(***************************************************************************)
(* The descriptor and socket tables of attribute.py: what _process_trace   *)
(* makes of one system call, and how _bind_socket_reads settles the reads  *)
(* afterwards.  Every operator maps the attributor's state, a record, and  *)
(* an event to the next state.                                             *)
(*                                                                         *)
(* An event is the call with its thread and return value; -1 is any        *)
(* failure.  Connections are numbered by socket_generation.                *)
(***************************************************************************)
EXTENDS Integers, Sequences, FiniteSets, Functions, TLC

Attributor == [fdTables |-> <<>>, serial |-> 0, sockets |-> <<>>,
               closeOnExec |-> {}, requests |-> <<>>,
               parents |-> <<>>, state |-> <<>>, inherited |-> <<>>,
               rows |-> {}]

(* The process of a thread: up the clones that made threads. *)
Tgid(a, tid) ==
    LET up[n \in 0 .. Cardinality(DOMAIN a.parents)] ==
          IF n = 0 THEN tid
          ELSE IF up[n - 1] \in DOMAIN a.parents THEN a.parents[up[n - 1]]
          ELSE up[n - 1]
    IN  up[Cardinality(DOMAIN a.parents)]

(* What the thread's markers say, or else what its process inherited. *)
Context(a, e) ==
    IF e.tid \in DOMAIN a.state THEN a.state[e.tid]
    ELSE IF Tgid(a, e.tid) \in DOMAIN a.inherited
         THEN a.inherited[Tgid(a, e.tid)]
    ELSE 0

(* self.owners.get(request, {request}) for a request; none without context. *)
OwnersOf(request) == {request} \ {0}

-----------------------------------------------------------------------------
(* Descriptor tables are named in the order they are met. *)
FdTable(a, tid) ==
    IF tid \in DOMAIN a.fdTables THEN a
    ELSE [a EXCEPT !.serial = @ + 1, !.fdTables = (tid :> a.serial + 1) @@ @]

SetTable(a, tid, table) == [a EXCEPT !.fdTables = (tid :> table) @@ @]

KeysOf(a, table) == {key \in DOMAIN a.sockets : key[1] = table}

(* Wrong: a copied table forgets which descriptors exec closes. *)
CopyWithoutFlags(a, table) ==
    LET new == a.serial + 1
    IN  [a EXCEPT
          !.serial = new,
          !.sockets = [key \in {<<new, k[2]>> : k \in KeysOf(a, table)} |->
                            a.sockets[<<table, key[2]>>]] @@ @]

(* The copy is named a.serial afterwards. *)
CopyFdTable(a, table) ==
    LET new == a.serial + 1
    IN  [a EXCEPT
          !.serial = new,
          !.sockets = [key \in {<<new, k[2]>> : k \in KeysOf(a, table)} |->
                            a.sockets[<<table, key[2]>>]] @@ @,
          !.closeOnExec = @ \cup
              {<<new, k[2]>> : k \in KeysOf(a, table) \cap a.closeOnExec}]

CopyForSelf(a, e) ==
    LET copied == CopyFdTable(a, a.fdTables[e.tid])
    IN  SetTable(copied, e.tid, copied.serial)

Drop(a, keys) == [a EXCEPT !.sockets = Restrict(@, DOMAIN @ \ keys),
                           !.closeOnExec = @ \ keys]

(* Bind key to connection c, close-on-exec or not. *)
Bind(a, key, c, cloexec) ==
    LET cleared == Drop(a, {key})
    IN  [cleared EXCEPT !.sockets = (key :> c) @@ @,
                        !.closeOnExec = IF cloexec THEN @ \cup {key} ELSE @]

Contribute(a, c, request) ==
    [a EXCEPT !.requests[c] = @ \cup OwnersOf(request)]

-----------------------------------------------------------------------------
KeyOf(a, e) == <<a.fdTables[e.tid], e.fd>>

(* socket, and accept or accept4: a new connection under the returned number. *)
OnSocket(a, e) ==
    LET opened == [a EXCEPT !.requests = Append(@, {})]
        c == Len(opened.requests)
    IN  IF e.ret < 0 THEN a
        ELSE Contribute(Bind(opened, <<a.fdTables[e.tid], e.ret>>, c, e.cloexec),
                        c, Context(a, e))

(* A connect on a descriptor nobody saw created starts a connection, too. *)
OnConnect(a, e) ==
    LET key == KeyOf(a, e)
        known == key \in DOMAIN a.sockets
        c == IF known THEN a.sockets[key] ELSE Len(a.requests) + 1
    IN  Contribute(IF known THEN a
                   ELSE [a EXCEPT !.requests = Append(@, {}),
                                  !.sockets = (key :> c) @@ @],
                   c, Context(a, e))

(* dup, dup2, dup3 and the F_DUPFD commands of fcntl; only dup2 and dup3     *)
(* name their target, and may name the source itself.                        *)
OnDup(a, e) ==
    LET key == KeyOf(a, e)
        target == <<a.fdTables[e.tid], e.ret>>
    IN  IF e.ret < 0 \/ (e.to = e.fd /\ e.ret = e.fd) THEN a
        ELSE IF key \in DOMAIN a.sockets
             THEN Bind(a, target, a.sockets[key], e.cloexec)
             ELSE Drop(a, {target})

OnSetFd(a, e) ==
    IF e.ret < 0 THEN a
    ELSE [a EXCEPT !.closeOnExec = IF e.cloexec THEN @ \cup {KeyOf(a, e)}
                                   ELSE @ \ {KeyOf(a, e)}]

OnClose(a, e) ==
    IF e.ret = 0 /\ KeyOf(a, e) \in DOMAIN a.sockets
    THEN Drop(a, {KeyOf(a, e)}) ELSE a

OnCloseRange(a, e) ==
    LET own == IF e.unshare THEN CopyForSelf(a, e) ELSE a
        keys == {key \in KeysOf(own, own.fdTables[e.tid]) :
                    key[2] \in e.fd .. e.to}
    IN  IF e.ret # 0 THEN a
        ELSE IF e.cloexec THEN [own EXCEPT !.closeOnExec = @ \cup keys]
        ELSE Drop(own, keys)

(* clone, clone3, fork and vfork: the child shares or copies the table, and  *)
(* a child process inherits the context of its parent.                       *)
OnClone(a, e) ==
    LET copied == CopyFdTable(a, a.fdTables[e.tid])
        made == IF e.files THEN SetTable(a, e.ret, a.fdTables[e.tid])
                ELSE SetTable(copied, e.ret, copied.serial)
    IN  IF e.ret <= 0 THEN a
        ELSE IF e.thread THEN [made EXCEPT !.parents = (e.ret :> e.tid) @@ @]
        ELSE [made EXCEPT !.inherited = (e.ret :> Context(a, e)) @@ @]

OnUnshare(a, e) == IF e.ret = 0 THEN CopyForSelf(a, e) ELSE a

OnExec(a, e) ==
    LET own == CopyForSelf(a, e)
    IN  IF e.ret # 0 THEN a
        ELSE Drop(own, {key \in own.closeOnExec : key[1] = own.serial})

(* read, write and their kin; only the rows of reads are settled later. *)
OnIo(a, e) ==
    LET known == KeyOf(a, e) \in DOMAIN a.sockets
        c == IF known THEN a.sockets[KeyOf(a, e)] ELSE 0
        used == IF known THEN Contribute(a, c, Context(a, e)) ELSE a
    IN  IF e.op = "read"
        THEN [used EXCEPT !.rows = @ \cup
                {[file |-> e.file, connection |-> c, context |-> Context(a, e)]}]
        ELSE used

(* A marker moves its thread to the context it names. *)
OnMark(a, e) == [a EXCEPT !.state = (e.tid :> e.request) @@ @]

ProcessTrace(before, e) ==
    LET a == FdTable(before, e.tid)
    IN  CASE e.op = "mark" -> OnMark(before, e)
          [] e.op \in {"socket", "accept"} -> OnSocket(a, e)
          [] e.op = "connect" -> OnConnect(a, e)
          [] e.op = "dup" -> OnDup(a, e)
          [] e.op = "setfd" -> OnSetFd(a, e)
          [] e.op = "close" -> OnClose(a, e)
          [] e.op = "close_range" -> OnCloseRange(a, e)
          [] e.op = "clone" -> OnClone(a, e)
          [] e.op = "unshare" -> OnUnshare(a, e)
          [] e.op = "exec" -> OnExec(a, e)
          [] e.op \in {"read", "write"} -> OnIo(a, e)
          [] OTHER -> a

(* Wrong: a read is bound to whichever request used its connection. *)
BoundToAnyUser(a, row) ==
    IF row.context # 0 THEN row.context
    ELSE IF row.connection # 0 /\ a.requests[row.connection] # {}
         THEN CHOOSE r \in a.requests[row.connection] : TRUE
    ELSE 0

(* The owner a read without context ends up with: the only request that ever *)
(* used its connection, before or after it; 0 when there is none or more.    *)
BoundTo(a, row) ==
    IF row.context # 0 THEN row.context
    ELSE IF row.connection # 0 /\ Cardinality(a.requests[row.connection]) = 1
         THEN CHOOSE r \in a.requests[row.connection] : TRUE
    ELSE 0
=============================================================================
