-------------------------- MODULE ExperimentProofs --------------------------
(***************************************************************************)
(* What an experiment says it recorded it recorded, for any calls in any   *)
(* waves, any descriptors and any length of the session.                   *)
(*                                                                         *)
(* A manifest is written long after the calls were made, by a process that *)
(* saw neither the proxy's log nor the server.  The invariant follows the  *)
(* evidence: a line is logged before it is passed on (Logging), so what    *)
(* the client was answered is in the log (Answering), a client that leaves *)
(* without failure leaves nothing running (Leaving), and the stages of     *)
(* run.py keep what the first of them knew (Staging, Writing).             *)
(*                                                                         *)
(* The true window of a call encloses what the trace holds of it, because  *)
(* the request is logged before the server reads it and the answer after   *)
(* the server wrote it (TakenOnce, Enclosed).                              *)
(***************************************************************************)
EXTENDS Experiment, FiniteSetTheorems, WellFoundedInduction, TLAPS

Rows == [kind : {"request", "answer", "error", "open", "read", "close"},
         id : Requests, fd : Fds \cup {0}]
Replies == {Row(kind, r, 0) : kind \in {"answer", "error"}, r \in Requests}

SessionTypes ==
    /\ driver \in Drivers
    /\ client \in [phase : {"calling", "closed", "terminated", "killed", "left"},
                   asked : SUBSET Requests, answered : SUBSET Requests,
                   failed : BOOLEAN]
    /\ pipes \in [requests : Seq(Requests), forwarded : Seq(Requests),
                  answers : Seq(Replies), relayed : Seq(Replies),
                  open : BOOLEAN, serverOpen : BOOLEAN]
    /\ proxy \in [phase : {"serving", "ending", "draining", "cleaning", "exited"},
                  code : {0, 1}, request : {"on", "ended", "failed"},
                  response : {"on", "ended", "failed"}]
    /\ server \in [traced : BOOLEAN, live : BOOLEAN, code : {0, 1},
                   work : [Requests -> {"none", "running", "done"}],
                   effects : Nat, files : [Fds -> Requests \cup {Nobody}]]
    /\ history \in Seq(Rows)

RunTypes ==
    /\ run \in [stage : {"driving", "analyze", "attribute", "score", "manifest",
                         "ended", "dead"},
                status : {"running", "complete", "failed"}, analysed : Nat]
    /\ manifest \in {"none", "torn", "running", "complete", "failed"}
    /\ matrix \in {"waiting", "stopping", "killing", "updating", "done", "aborted"}
    /\ row \in [code : {0, 1, 124},
                manifest : {"none", "torn", "running", "complete", "failed"}]

Log == {history[i] : i \in DOMAIN history}
Asked == {r \in Requests : Row("request", r, 0) \in Log}

(* Each answer in the log comes after its request. *)
Preceded ==
    \A j \in DOMAIN history : history[j].kind \in {"answer", "error"} =>
        \E i \in DOMAIN history : i < j /\ history[i] = Row("request", history[j].id, 0)

(* What the server has of a call, or has answered, was logged before. *)
Logging ==
    /\ \A i \in DOMAIN pipes.forwarded : pipes.forwarded[i] \in Asked
    /\ \A r \in Requests : server.work[r] # "none" => r \in Asked
    /\ \A i \in DOMAIN pipes.answers : pipes.answers[i].id \in Asked

(* What the client was told was logged before. *)
Answering ==
    /\ \A i \in DOMAIN pipes.relayed : pipes.relayed[i] \in Log
    /\ \A r \in client.answered :
          /\ Row("answer", r, 0) \in Log \/ Row("error", r, 0) \in Log
          /\ driver = "replay" /\ ~client.failed => Row("answer", r, 0) \in Log

Stopped == proxy.phase = "exited" /\ ~server.live

(* A replay that has not failed leaves when all is answered and stopped. *)
Leaving ==
    /\ proxy.phase = "exited" /\ proxy.code = 0 => ~server.live
    /\ driver = "replay" /\ run.stage = "driving" /\ ~client.failed =>
          /\ client.phase # "calling" => AllAnswered
          /\ client.phase = "left" => Stopped

Evidence == \A r \in Requests : Recorded(r)

(* Later stages are reached with what the first one knew. *)
Staging ==
    /\ run.stage \in {"analyze", "attribute", "score"} \/ run.status = "complete" => Evidence
    /\ driver = "replay" =>
          /\ run.stage \in {"analyze", "attribute", "score"} \/ run.analysed # 0 => Stopped
          /\ run.analysed # 0 => run.analysed = Len(history)

(* The manifest and the row say what the run came to. *)
Writing ==
    /\ manifest = "complete" => run.status = "complete" /\ run.stage = "ended"
    /\ run.stage = "ended" /\ matrix = "waiting" => manifest = run.status
    /\ matrix = "done" => (row.code = 0 <=> row.manifest = "complete")

ExperimentInv ==
    /\ SessionTypes /\ RunTypes /\ Preceded /\ Logging /\ Answering
    /\ Leaving /\ Staging /\ Writing

-----------------------------------------------------------------------------
(* What one more element, or one less, does to a sequence. *)
LEMMA SequenceSteps ==
    ASSUME NEW S, NEW s \in Seq(S), NEW e
    PROVE  /\ DOMAIN Append(s, e) = DOMAIN s \cup {Len(s) + 1}
           /\ Append(s, e)[Len(s) + 1] = e
           /\ \A i \in DOMAIN s : i < Len(s) + 1 /\ Append(s, e)[i] = s[i]
           /\ e \in S => Append(s, e) \in Seq(S)
           /\ s # <<>> => /\ Head(s) \in S /\ Tail(s) \in Seq(S) /\ 1 \in DOMAIN s
                          /\ Head(s) = s[1]
                          /\ \A i \in DOMAIN Tail(s) :
                                i + 1 \in DOMAIN s /\ Tail(s)[i] = s[i + 1]
  OBVIOUS

(* The rows that are logged. *)
LEMMA RowTypes ==
    /\ Requests \subseteq Nat
    /\ Replies \subseteq Rows
    /\ \A r \in Requests : Row("request", r, 0) \in Rows
    /\ \A r \in Requests, kind \in {"answer", "error"} : Row(kind, r, 0) \in Replies
    /\ \A r \in Requests, d \in Fds, kind \in {"open", "read", "close"} :
          Row(kind, r, d) \in Rows
    /\ \A m \in Replies : /\ m.id \in Requests /\ m.kind \in {"answer", "error"}
                          /\ m = Row(m.kind, m.id, 0)
  <1>1. Requests \subseteq Nat
    <2>1. \A i \in DOMAIN Waves : Waves[i] \subseteq Nat
      BY SessionAssumption
    <2>. QED  BY <2>1 DEF Requests
  <1>2. \A r \in Requests, kind \in {"answer", "error"} : Row(kind, r, 0) \in Rows
    BY DEF Row, Rows
  <1>3. \A m \in Replies : \E r \in Requests, kind \in {"answer", "error"} :
            m = Row(kind, r, 0)
    BY DEF Replies
  <1>4. \A m \in Replies : /\ m.id \in Requests /\ m.kind \in {"answer", "error"}
                            /\ m = Row(m.kind, m.id, 0)
    BY <1>3 DEF Row
  <1>5. \A r \in Requests, kind \in {"answer", "error"} : Row(kind, r, 0) \in Replies
    BY DEF Replies
  <1>6. Replies \subseteq Rows
    BY <1>2, <1>3
  <1>7. /\ \A r \in Requests : Row("request", r, 0) \in Rows
        /\ \A r \in Requests, d \in Fds, kind \in {"open", "read", "close"} :
              Row(kind, r, d) \in Rows
    BY DEF Row, Rows
  <1>. QED  BY <1>1, <1>4, <1>5, <1>6, <1>7

(* The end of the server changes nothing but whether it lives and its code. *)
LEMMA Exits ==
    ASSUME SessionTypes, Finish \/ Crash \/ Terminated
    PROVE  /\ UNCHANGED <<driver, client, pipes, proxy, history>>
           /\ server'.work = server.work
           /\ SessionTypes'
  <1>1. PICK code \in {0, 1} : Exit(code)
    BY DEF Finish, Crash, Terminated
  <1>2. UNCHANGED <<driver, client, pipes, proxy, history>>
    BY <1>1 DEF Exit
  <1>3. server' = [server EXCEPT !.live = FALSE, !.code = code]
    BY <1>1 DEF Exit
  <1>4. /\ server'.work = server.work
        /\ server' \in [traced : BOOLEAN, live : BOOLEAN, code : {0, 1},
                       work : [Requests -> {"none", "running", "done"}],
                       effects : Nat, files : [Fds -> Requests \cup {Nobody}]]
    BY <1>3 DEF SessionTypes
  <1>. QED  BY <1>2, <1>4 DEF SessionTypes

(* No step of the session leaves the types. *)
LEMMA SessionStepTypes ==
    ASSUME SessionTypes, ClientStep \/ ProxyStep \/ ServerStep \/ Terminated
    PROVE  SessionTypes'
  <1>. USE DEF SessionTypes
  <1>1. ASSUME NEW r \in Requests, Ask(r) PROVE SessionTypes'
    <2>1. Append(pipes.requests, r) \in Seq(Requests)
      BY SequenceSteps
    <2>. QED  BY <1>1, <2>1 DEF Ask
  <1>2. CASE Receive
    <2>1. Head(pipes.relayed) \in Replies /\ Tail(pipes.relayed) \in Seq(Replies)
      BY <1>2, SequenceSteps DEF Receive
    <2>2. Head(pipes.relayed).id \in Requests
      BY <2>1, RowTypes
    <2>. QED  BY <1>2, <2>1, <2>2 DEF Receive
  <1>3. CASE CallFails
    BY <1>3 DEF CallFails
  <1>4. CASE CloseInput
    BY <1>4 DEF CloseInput
  <1>5. CASE TerminateProxy
    BY <1>5 DEF TerminateProxy
  <1>6. CASE KillProxy
    BY <1>6 DEF KillProxy
  <1>7. CASE Leave
    <2>1. UNCHANGED <<driver, pipes, proxy, server, history>>
      BY <1>7 DEF Leave
    <2>2. PICK failed \in BOOLEAN :
             client' = [client EXCEPT !.phase = "left", !.failed = failed]
      <3>1. (client.failed \/ (driver = "replay" /\ proxy.code # 0)) \in BOOLEAN
        OBVIOUS
      <3>. QED  BY <1>7, <3>1 DEF Leave
    <2>3. client' \in [phase : {"calling", "closed", "terminated", "killed", "left"},
                       asked : SUBSET Requests, answered : SUBSET Requests,
                       failed : BOOLEAN]
      BY <2>2
    <2>. QED  BY <2>1, <2>3
  <1>8. CASE PumpRequest
    <2>1. Head(pipes.requests) \in Requests /\ Tail(pipes.requests) \in Seq(Requests)
      BY <1>8, SequenceSteps DEF PumpRequest
    <2>2. Row("request", Head(pipes.requests), 0) \in Rows
      BY <2>1, RowTypes
    <2>3. /\ Append(history, Row("request", Head(pipes.requests), 0)) \in Seq(Rows)
          /\ Append(pipes.forwarded, Head(pipes.requests)) \in Seq(Requests)
      BY <2>1, <2>2, SequenceSteps
    <2>4. history' \in Seq(Rows) /\ UNCHANGED <<driver, client, server>>
      BY <1>8, <2>3 DEF PumpRequest
    <2>5. pipes' = [pipes EXCEPT !.requests = Tail(pipes.requests),
                        !.forwarded = IF ServerReads
                             THEN Append(pipes.forwarded, Head(pipes.requests))
                             ELSE pipes.forwarded]
      BY <1>8 DEF PumpRequest
    <2>6. proxy' = proxy \/ proxy' = [proxy EXCEPT !.request = "failed"]
      BY <1>8 DEF PumpRequest
    <2>. QED  BY <2>1, <2>3, <2>4, <2>5, <2>6
  <1>9. CASE EndOfRequests
    BY <1>9 DEF EndOfRequests
  <1>10. CASE PumpResponse
    <2>1. Head(pipes.answers) \in Replies /\ Tail(pipes.answers) \in Seq(Replies)
      BY <1>10, SequenceSteps DEF PumpResponse
    <2>2. Head(pipes.answers) \in Rows
      BY <2>1, RowTypes
    <2>. QED  BY <1>10, <2>1, <2>2, SequenceSteps DEF PumpResponse
  <1>11. CASE EndOfResponses
    BY <1>11 DEF EndOfResponses
  <1>12. CASE Main
    <2>1. UNCHANGED <<driver, client, pipes, server, history>>
      BY <1>12 DEF Main
    <2>2. \E phase \in {"serving", "ending", "draining", "cleaning", "exited"}, code \in {0, 1} :
              proxy' = [proxy EXCEPT !.phase = phase, !.code = code]
      BY <1>12 DEF Main
    <2>3. proxy' \in [phase : {"serving", "ending", "draining", "cleaning", "exited"},
                      code : {0, 1}, request : {"on", "ended", "failed"},
                      response : {"on", "ended", "failed"}]
      BY <2>2
    <2>. QED  BY <2>1, <2>3
  <1>13. CASE Take
    <2>1. Head(pipes.forwarded) \in Requests /\ Tail(pipes.forwarded) \in Seq(Requests)
      BY <1>13, SequenceSteps DEF Take
    <2>. QED  BY <1>13, <2>1 DEF Take
  <1>14. ASSUME NEW r \in Requests, SystemCall(r) PROVE SessionTypes'
    <2>1. PICK d \in Fds : \/ Effect(r, "open", d, Nobody, r)
                           \/ Effect(r, "read", d, r, r)
                           \/ Effect(r, "close", d, r, Nobody)
      BY <1>14 DEF SystemCall
    <2>2. PICK kind \in {"open", "read", "close"}, owner \in Requests \cup {Nobody},
               owned \in Requests \cup {Nobody} : Effect(r, kind, d, owner, owned)
      BY <2>1
    <2>3. Row(kind, r, d) \in Rows
      BY RowTypes
    <2>4. Append(history, Row(kind, r, d)) \in Seq(Rows)
      BY <2>3, SequenceSteps
    <2>5. /\ history' = Append(history, Row(kind, r, d))
          /\ UNCHANGED <<driver, client, pipes, proxy>>
          /\ server' = [server EXCEPT !.effects = server.effects + 1, !.files[d] = owned]
      BY <2>2 DEF Effect
    <2>6. [server.files EXCEPT ![d] = owned] \in [Fds -> Requests \cup {Nobody}]
      OBVIOUS
    <2>7. server' = [server EXCEPT !.effects = server.effects + 1,
                         !.files = [server.files EXCEPT ![d] = owned]]
      BY <2>5
    <2>8. server' = [traced |-> server.traced, live |-> server.live,
                     code |-> server.code, work |-> server.work,
                     effects |-> server.effects + 1,
                     files |-> [server.files EXCEPT ![d] = owned]]
      BY <2>7
    <2>9. history' \in Seq(Rows)
      BY <2>4, <2>5
    <2>10. server' \in [traced : BOOLEAN, live : BOOLEAN, code : {0, 1},
                        work : [Requests -> {"none", "running", "done"}],
                        effects : Nat, files : [Fds -> Requests \cup {Nobody}]]
      BY <2>6, <2>8
    <2>. QED  BY <2>5, <2>9, <2>10
  <1>15. ASSUME NEW r \in Requests, Answer(r) PROVE SessionTypes'
    <2>1. \A kind \in {"answer", "error"} : Row(kind, r, 0) \in Replies
      BY RowTypes
    <2>2. PICK m \in Replies : pipes' = [pipes EXCEPT !.answers = Append(pipes.answers, m)]
      BY <1>15, <2>1 DEF Answer
    <2>3. Append(pipes.answers, m) \in Seq(Replies)
      BY SequenceSteps
    <2>. QED  BY <1>15, <2>2, <2>3 DEF Answer
  <1>16. CASE Finish \/ Crash \/ Terminated
    BY <1>16, Exits
  <1>. QED
    BY <1>1, <1>2, <1>3, <1>4, <1>5, <1>6, <1>7, <1>8, <1>9, <1>10, <1>11, <1>12, <1>13,
       <1>14, <1>15, <1>16 DEF ClientStep, ProxyStep, ServerStep

(* A step is one of the session, which leaves the harness alone; one of      *)
(* run.py, which leaves the session alone; or one of matrix.py.              *)
SessionStep ==
    /\ UNCHANGED harness
    /\ \/ run.stage = "driving" /\ ClientStep
       \/ ProxyStep \/ ServerStep \/ Terminated

(* A stage of run.py passes or fails. *)
Moves ==
    /\ run.stage \in {"driving", "analyze", "attribute", "score"} /\ driver # "openai"
    /\ UNCHANGED <<sessionVars, manifest, matrix, row>>
    /\ \/ run' = [run EXCEPT !.stage = "manifest", !.status = "failed"]
       \/ /\ \E next \in {"analyze", "attribute", "score", "manifest"} :
                run' = [run EXCEPT !.stage = next,
                   !.status = IF next = "manifest" THEN "complete" ELSE run.status,
                   !.analysed = IF run.stage = "analyze" THEN Len(history) ELSE run.analysed]
          /\ run.stage = "driving" =>
                /\ client.phase = "left" /\ ~client.failed
                /\ driver = "codex" => ValidAgent

(* Every step is one of these kinds. *)
LEMMA StepKinds ==
    ASSUME [Next]_vars
    PROVE  \/ SessionStep \/ Moves \/ WriteManifest \/ MatrixStep
           \/ UNCHANGED vars
  <1>1. ASSUME RunStep PROVE Moves \/ WriteManifest
    <2>1. CASE Driven
      BY <2>1 DEF Driven, Stage, After, Moves
    <2>2. CASE Stage("analyze", AnalysisPasses)
      BY <2>2 DEF Stage, After, Moves
    <2>3. CASE Stage("attribute", TRUE) \/ Stage("score", TRUE)
      BY <2>3 DEF Stage, After, Moves
    <2>. QED  BY <1>1, <2>1, <2>2, <2>3 DEF RunStep
  <1>2. ASSUME Client \/ Proxy \/ Server \/ ServerTerminated PROVE SessionStep
    BY <1>2 DEF Client, Proxy, Server, ServerTerminated, SessionStep
  <1>. QED  BY <1>1, <1>2 DEF Next

(* No step leaves the types. *)
LEMMA TypesStep ==
    ASSUME SessionTypes, RunTypes, [Next]_vars
    PROVE  SessionTypes' /\ RunTypes'
  <1>1. CASE SessionStep
    <2>1. SessionTypes'
      BY <1>1, SessionStepTypes DEF SessionStep
    <2>. QED  BY <1>1, <2>1 DEF SessionStep, harness, RunTypes
  <1>2. CASE Moves
    <2>1. Len(history) \in Nat
      BY DEF SessionTypes
    <2>2. SessionTypes'
      BY <1>2 DEF Moves, sessionVars, SessionTypes
    <2>3. run' \in [stage : {"driving", "analyze", "attribute", "score", "manifest",
                            "ended", "dead"},
                    status : {"running", "complete", "failed"}, analysed : Nat]
      <3>1. CASE run' = [run EXCEPT !.stage = "manifest", !.status = "failed"]
        BY <3>1 DEF RunTypes
      <3>2. ASSUME NEW next \in {"analyze", "attribute", "score", "manifest"},
                   run' = [run EXCEPT !.stage = next,
                   !.status = IF next = "manifest" THEN "complete" ELSE run.status,
                   !.analysed = IF run.stage = "analyze" THEN Len(history) ELSE run.analysed]
            PROVE  run' \in [stage : {"driving", "analyze", "attribute", "score",
                             "manifest", "ended", "dead"},
                    status : {"running", "complete", "failed"}, analysed : Nat]
        BY <2>1, <3>2 DEF RunTypes
      <3>. QED  BY <1>2, <3>1, <3>2 DEF Moves
    <2>4. UNCHANGED <<manifest, matrix, row>>
      BY <1>2 DEF Moves
    <2>. QED  BY <2>2, <2>3, <2>4 DEF RunTypes
  <1>3. CASE WriteManifest
    <2>1. SessionTypes'
      BY <1>3 DEF WriteManifest, sessionVars, SessionTypes
    <2>. QED  BY <1>3, <2>1 DEF WriteManifest, RunTypes
  <1>4. CASE TimeOut \/ UpdateManifest \/ GatherRow
    <2>1. SessionTypes' /\ run' = run
      BY <1>4 DEF TimeOut, UpdateManifest, GatherRow, sessionVars, SessionTypes
    <2>. QED  BY <1>4, <2>1 DEF TimeOut, UpdateManifest, GatherRow, RunTypes
  <1>5. CASE StopGroup
    <2>1. PICK stage \in {"ended", "dead"} : run' = [run EXCEPT !.stage = stage]
      BY <1>5 DEF StopGroup
    <2>2. RunTypes'
      BY <1>5, <2>1 DEF StopGroup, RunTypes
    <2>3. UNCHANGED <<driver, proxy, server, history>>
      BY <1>5 DEF StopGroup
    <2>4. /\ client' = [client EXCEPT !.phase = "left"]
          /\ pipes' = [pipes EXCEPT !.open = FALSE, !.serverOpen = FALSE]
      BY <1>5 DEF StopGroup
    <2>5. SessionTypes'
      BY <2>3, <2>4 DEF SessionTypes
    <2>. QED  BY <2>2, <2>5
  <1>6. CASE KillGroup
    <2>1. RunTypes'
      BY <1>6 DEF KillGroup, RunTypes
    <2>2. /\ UNCHANGED <<driver, client, pipes, history>>
          /\ proxy' = [proxy EXCEPT !.phase = "exited", !.code = 1]
          /\ server' = [server EXCEPT !.live = FALSE, !.code = 1]
      BY <1>6 DEF KillGroup
    <2>3. SessionTypes'
      BY <2>2 DEF SessionTypes
    <2>. QED  BY <2>1, <2>3
  <1>7. CASE UNCHANGED vars
    BY <1>7 DEF vars, sessionVars, SessionTypes, RunTypes
  <1>. QED  BY <1>1, <1>2, <1>3, <1>4, <1>5, <1>6, <1>7, StepKinds DEF MatrixStep

-----------------------------------------------------------------------------
(* The log only grows, by one row at a time. *)
LEMMA LogGrows ==
    ASSUME SessionTypes,
           history' = history \/ \E e \in Rows : history' = Append(history, e)
    PROVE  /\ Len(history) <= Len(history')
           /\ \A i \in DOMAIN history : i \in DOMAIN history' /\ history'[i] = history[i]
           /\ Log \subseteq Log' /\ Asked \subseteq Asked'
           /\ Evidence => Evidence'
  <1>. history \in Seq(Rows)
    BY DEF SessionTypes
  <1>1. \A i \in DOMAIN history : i \in DOMAIN history' /\ history'[i] = history[i]
    BY SequenceSteps
  <1>2. Len(history) <= Len(history')
    OBVIOUS
  <1>3. Log \subseteq Log'
    BY <1>1 DEF Log
  <1>4. \A r \in Requests : Recorded(r) => Recorded(r)'
    BY <1>1 DEF Recorded
  <1>. QED  BY <1>1, <1>2, <1>3, <1>4 DEF Asked, Evidence

(* The row that a step logs is in the log then. *)
LEMMA RowLogged ==
    ASSUME SessionTypes, NEW e, history' = Append(history, e)
    PROVE  /\ e \in Log'
           /\ \A r \in Requests : e = Row("request", r, 0) => r \in Asked'
  <1>1. Len(history) + 1 \in DOMAIN history' /\ history'[Len(history) + 1] = e
    BY SequenceSteps DEF SessionTypes
  <1>. QED  BY <1>1 DEF Log, Asked

(* Where rows come from: a pump or a system call. *)
LEMMA LogKinds ==
    ASSUME SessionTypes, RunTypes, [Next]_vars
    PROVE  \/ history' = history
           \/ PumpRequest \/ PumpResponse
           \/ \E r \in Requests : server.work[r] = "running" /\ SystemCall(r)
  <1>1. CASE SessionStep
    <2>1. CASE ClientStep
      BY <2>1 DEF ClientStep, Ask, Receive, CallFails, CloseInput, TerminateProxy,
         KillProxy, Leave
    <2>2. CASE ProxyStep
      BY <2>2 DEF ProxyStep, EndOfRequests, EndOfResponses, Main
    <2>3. CASE ServerStep \/ Terminated
      BY <2>3 DEF ServerStep, Terminated, Take, Finish, Crash, Exit, Answer, SystemCall,
         Effect
    <2>. QED  BY <1>1, <2>1, <2>2, <2>3 DEF SessionStep
  <1>2. CASE Moves \/ WriteManifest \/ MatrixStep \/ UNCHANGED vars
    BY <1>2 DEF Moves, WriteManifest, MatrixStep, TimeOut, StopGroup, KillGroup,
       UpdateManifest, GatherRow, vars, sessionVars
  <1>. QED  BY <1>1, <1>2, StepKinds

(* The kind of row a step logs. *)
LEMMA NextRow ==
    ASSUME SessionTypes, RunTypes, [Next]_vars
    PROVE  \/ history' = history
           \/ PumpRequest /\ \E r \in Requests :
                 /\ history' = Append(history, Row("request", r, 0))
                 /\ Row("request", r, 0) \in Rows
           \/ PumpResponse /\ \E m \in Replies :
                 /\ m = pipes.answers[1] /\ 1 \in DOMAIN pipes.answers
                 /\ history' = Append(history, m) /\ m \in Rows
           \/ \E r \in Requests, e \in Rows :
                 /\ SystemCall(r) /\ history' = Append(history, e)
                 /\ e.kind \in {"open", "read", "close"}
  <1>1. ASSUME PumpRequest
        PROVE  \E r \in Requests : /\ history' = Append(history, Row("request", r, 0))
                                   /\ Row("request", r, 0) \in Rows
    <2>1. Head(pipes.requests) \in Requests
      BY <1>1, SequenceSteps DEF PumpRequest, SessionTypes
    <2>. QED  BY <1>1, <2>1, RowTypes DEF PumpRequest
  <1>2. ASSUME PumpResponse
        PROVE  \E m \in Replies :
                 /\ m = pipes.answers[1] /\ 1 \in DOMAIN pipes.answers
                 /\ history' = Append(history, m) /\ m \in Rows
    <2>1. Head(pipes.answers) \in Replies /\ Head(pipes.answers) = pipes.answers[1]
          /\ 1 \in DOMAIN pipes.answers
      BY <1>2, SequenceSteps DEF PumpResponse, SessionTypes
    <2>. QED  BY <1>2, <2>1, RowTypes DEF PumpResponse
  <1>3. ASSUME NEW r \in Requests, SystemCall(r)
        PROVE  \E e \in Rows : /\ history' = Append(history, e)
                               /\ e.kind \in {"open", "read", "close"}
    <2>1. PICK d \in Fds, kind \in {"open", "read", "close"} :
              history' = Append(history, Row(kind, r, d))
      BY <1>3 DEF SystemCall, Effect
    <2>2. Row(kind, r, d) \in Rows /\ Row(kind, r, d).kind = kind
      BY RowTypes DEF Row
    <2>. QED  BY <2>1, <2>2
  <1>. QED  BY <1>1, <1>2, <1>3, LogKinds

(* In every step the log grows. *)
LEMMA StepGrows ==
    ASSUME SessionTypes, RunTypes, [Next]_vars
    PROVE  history' = history \/ \E e \in Rows : history' = Append(history, e)
  BY NextRow

-----------------------------------------------------------------------------
(* What the log of the proxy is ahead of: all but its own pipes and the      *)
(* server's work stays as it is.                                             *)
LEMMA LoggingSteps ==
    ASSUME SessionTypes, RunTypes, [Next]_vars
    PROVE  \/ UNCHANGED <<pipes.forwarded, pipes.answers, server.work>>
           \/ PumpRequest \/ PumpResponse \/ Take
           \/ \E r \in Requests : Answer(r)
  <1>. USE DEF SessionTypes
  <1>1. CASE SessionStep
    <2>1. CASE ClientStep
      BY <2>1 DEF ClientStep, Ask, Receive, CallFails, CloseInput, TerminateProxy,
         KillProxy, Leave
    <2>2. CASE ProxyStep
      BY <2>2 DEF ProxyStep, EndOfRequests, EndOfResponses, Main
    <2>3. CASE Finish \/ Crash \/ Terminated
      BY <2>3, Exits
    <2>4. CASE ServerStep
      BY <2>3, <2>4 DEF ServerStep, SystemCall, Effect
    <2>. QED  BY <1>1, <2>1, <2>2, <2>3, <2>4 DEF SessionStep
  <1>2. CASE Moves \/ WriteManifest \/ UNCHANGED vars
    BY <1>2 DEF Moves, WriteManifest, vars, sessionVars
  <1>3. CASE MatrixStep
    <2>1. CASE StopGroup
      BY <2>1 DEF StopGroup
    <2>2. CASE KillGroup
      BY <2>2 DEF KillGroup
    <2>. QED  BY <1>3, <2>1, <2>2 DEF MatrixStep, TimeOut, UpdateManifest, GatherRow,
                 sessionVars
  <1>. QED  BY <1>1, <1>2, <1>3, StepKinds

(* An answer that is logged when its request was keeps that order. *)
LEMMA PrecededStep ==
    ASSUME SessionTypes, Preceded,
           \/ history' = history
           \/ \E e \in Rows : /\ history' = Append(history, e)
                              /\ e.kind \in {"answer", "error"} => e.id \in Asked
    PROVE  Preceded'
  <1>1. CASE history' = history
    BY <1>1 DEF Preceded
  <1>2. ASSUME NEW e \in Rows, history' = Append(history, e),
               e.kind \in {"answer", "error"} => e.id \in Asked
        PROVE  Preceded'
    <2>. DEFINE n == Len(history) + 1
    <2>1. /\ DOMAIN history' = DOMAIN history \cup {n} /\ history'[n] = e
          /\ \A i \in DOMAIN history : i < n /\ history'[i] = history[i]
      BY <1>2, SequenceSteps DEF SessionTypes
    <2>2. SUFFICES ASSUME NEW j \in DOMAIN history',
                          history'[j].kind \in {"answer", "error"}
                   PROVE  \E i \in DOMAIN history' :
                              i < j /\ history'[i] = Row("request", history'[j].id, 0)
      BY DEF Preceded
    <2>3. CASE j \in DOMAIN history
      <3>1. PICK i \in DOMAIN history :
                i < j /\ history[i] = Row("request", history[j].id, 0)
        BY <2>1, <2>2, <2>3 DEF Preceded
      <3>. QED  BY <2>1, <2>3, <3>1
    <2>4. CASE j = n
      <3>1. e.id \in Asked
        BY <1>2, <2>1, <2>2, <2>4
      <3>2. PICK i \in DOMAIN history : history[i] = Row("request", e.id, 0)
        BY <3>1 DEF Asked, Log
      <3>. QED  BY <2>1, <2>4, <3>2
    <2>. QED  BY <2>1, <2>3, <2>4
  <1>. QED  BY <1>1, <1>2

(* The order stays when the server has logged calls only. *)
LEMMA PrecededSteps ==
    ASSUME SessionTypes, RunTypes, Preceded, Logging, [Next]_vars
    PROVE  Preceded'
  <1>1. CASE history' = history
    BY <1>1, PrecededStep
  <1>2. ASSUME NEW r \in Requests, history' = Append(history, Row("request", r, 0)),
               Row("request", r, 0) \in Rows
        PROVE  Preceded'
    <2>1. Row("request", r, 0).kind = "request"
      BY DEF Row
    <2>. QED  BY <1>2, <2>1, PrecededStep
  <1>3. ASSUME NEW m \in Replies, m = pipes.answers[1], 1 \in DOMAIN pipes.answers,
               history' = Append(history, m), m \in Rows
        PROVE  Preceded'
    <2>1. m.id \in Asked
      BY <1>3 DEF Logging
    <2>. QED  BY <1>3, <2>1, PrecededStep
  <1>4. ASSUME NEW e \in Rows, history' = Append(history, e),
               e.kind \in {"open", "read", "close"}
        PROVE  Preceded'
    BY <1>4, PrecededStep
  <1>. QED  BY <1>1, <1>2, <1>3, <1>4, NextRow

(* The proxy logs a line before it passes it on. *)
LEMMA LoggingStep ==
    ASSUME SessionTypes, RunTypes, Logging, [Next]_vars
    PROVE  Logging'
  <1>1. Asked \subseteq Asked'
    BY StepGrows, LogGrows
  <1>2. CASE UNCHANGED <<pipes.forwarded, pipes.answers, server.work>>
    BY <1>1, <1>2 DEF Logging
  <1>3. CASE PumpRequest
    <2>. DEFINE r == Head(pipes.requests)
    <2>1. /\ history' = Append(history, Row("request", r, 0)) /\ pipes.requests # <<>>
          /\ pipes'.forwarded \in {pipes.forwarded, Append(pipes.forwarded, r)}
          /\ pipes'.answers = pipes.answers /\ server' = server
      BY <1>3 DEF PumpRequest, SessionTypes
    <2>2. r \in Requests
      BY <2>1, SequenceSteps DEF SessionTypes
    <2>3. r \in Asked'
      BY <2>1, <2>2, RowLogged
    <2>4. \A i \in DOMAIN pipes'.forwarded :
              \/ pipes'.forwarded[i] = r
              \/ i \in DOMAIN pipes.forwarded /\ pipes'.forwarded[i] = pipes.forwarded[i]
      <3>1. pipes.forwarded \in Seq(Requests)
        BY DEF SessionTypes
      <3>. QED  BY <2>1, <3>1, SequenceSteps
    <2>. QED  BY <1>1, <2>1, <2>3, <2>4 DEF Logging
  <1>4. CASE PumpResponse
    <2>1. /\ pipes'.forwarded = pipes.forwarded /\ server' = server
          /\ pipes'.answers = Tail(pipes.answers) /\ pipes.answers # <<>>
      BY <1>4 DEF PumpResponse, SessionTypes
    <2>2. \A i \in DOMAIN pipes'.answers :
              i + 1 \in DOMAIN pipes.answers /\ pipes'.answers[i] = pipes.answers[i + 1]
      BY <2>1, SequenceSteps DEF SessionTypes
    <2>. QED  BY <1>1, <2>1, <2>2 DEF Logging
  <1>5. CASE Take
    <2>. DEFINE r == Head(pipes.forwarded)
    <2>1. /\ pipes'.forwarded = Tail(pipes.forwarded) /\ pipes.forwarded # <<>>
          /\ pipes'.answers = pipes.answers
          /\ \A q \in Requests \ {r} : server'.work[q] = server.work[q]
      BY <1>5 DEF Take, SessionTypes
    <2>2. /\ r = pipes.forwarded[1] /\ 1 \in DOMAIN pipes.forwarded
          /\ \A i \in DOMAIN pipes'.forwarded :
                /\ i + 1 \in DOMAIN pipes.forwarded
                /\ pipes'.forwarded[i] = pipes.forwarded[i + 1]
      BY <2>1, SequenceSteps DEF SessionTypes
    <2>3. r \in Asked
      BY <2>2 DEF Logging
    <2>. QED  BY <1>1, <2>1, <2>2, <2>3 DEF Logging
  <1>6. ASSUME NEW r \in Requests, Answer(r)
        PROVE  Logging'
    <2>1. PICK kind \in {"answer", "error"} :
            pipes' = [pipes EXCEPT !.answers = Append(pipes.answers, Row(kind, r, 0))]
      BY <1>6 DEF Answer
    <2>2. /\ pipes'.forwarded = pipes.forwarded
          /\ pipes'.answers = Append(pipes.answers, Row(kind, r, 0))
          /\ server.work[r] # "none"
          /\ \A q \in Requests \ {r} : server'.work[q] = server.work[q]
      BY <1>6, <2>1 DEF Answer, SessionTypes
    <2>3. \A i \in DOMAIN pipes'.answers :
              \/ pipes'.answers[i].id = r
              \/ i \in DOMAIN pipes.answers /\ pipes'.answers[i] = pipes.answers[i]
      BY <2>2, SequenceSteps DEF SessionTypes, Row
    <2>4. r \in Asked
      BY <2>2 DEF Logging
    <2>. QED  BY <1>1, <2>2, <2>3, <2>4 DEF Logging
  <1>. QED  BY <1>2, <1>3, <1>4, <1>5, <1>6, LoggingSteps

(* The client takes an answer. *)
LEMMA ReceiveKinds ==
    ASSUME SessionTypes, Receive
    PROVE  /\ pipes.relayed # <<>> /\ pipes'.relayed = Tail(pipes.relayed)
           /\ UNCHANGED <<driver, proxy, server, history>>
           /\ \/ client' = client
              \/ \E failed \in BOOLEAN :
                    /\ client' = [client EXCEPT !.failed = failed,
                           !.answered = client.answered \cup {Head(pipes.relayed).id}]
                    /\ client.failed => failed
                    /\ driver = "replay" /\ Head(pipes.relayed).kind = "error" => failed
  <1>1. client.failed \in BOOLEAN
    BY DEF SessionTypes
  <1>2. ASSUME Head(pipes.relayed).id \in Pending
        PROVE  \E failed \in BOOLEAN :
                    /\ client' = [client EXCEPT !.failed = failed,
                           !.answered = client.answered \cup {Head(pipes.relayed).id}]
                    /\ client.failed => failed
                    /\ driver = "replay" /\ Head(pipes.relayed).kind = "error" => failed
    <2>1. CASE driver = "replay" /\ Head(pipes.relayed).kind = "error"
      <3>1. client' = [client EXCEPT !.failed = TRUE,
                           !.answered = client.answered \cup {Head(pipes.relayed).id}]
        BY <1>1, <1>2, <2>1 DEF Receive
      <3>. QED  BY <3>1
    <2>2. CASE ~(driver = "replay" /\ Head(pipes.relayed).kind = "error")
      <3>1. client' = [client EXCEPT !.failed = client.failed,
                           !.answered = client.answered \cup {Head(pipes.relayed).id}]
        BY <1>1, <1>2, <2>2 DEF Receive
      <3>. QED  BY <1>1, <2>2, <3>1
    <2>. QED  BY <2>1, <2>2
  <1>3. /\ pipes.relayed # <<>> /\ pipes'.relayed = Tail(pipes.relayed)
        /\ UNCHANGED <<driver, proxy, server, history>>
        /\ Head(pipes.relayed).id \notin Pending => client' = client
    BY DEF Receive, SessionTypes
  <1>. QED  BY <1>2, <1>3

(* The client leaves. *)
LEMMA LeaveKinds ==
    ASSUME SessionTypes, Leave
    PROVE  /\ client.phase \in {"closed", "terminated", "killed"}
           /\ driver = "codex" \/ proxy.phase = "exited"
           /\ UNCHANGED <<driver, pipes, proxy, server, history>>
           /\ \E failed \in BOOLEAN :
                  /\ client' = [client EXCEPT !.phase = "left", !.failed = failed]
                  /\ client.failed => failed
                  /\ driver = "replay" /\ proxy.code # 0 => failed
  <1>1. client.failed \in BOOLEAN
    BY DEF SessionTypes
  <1>2. CASE driver = "replay" /\ proxy.code # 0
    <2>1. client' = [client EXCEPT !.phase = "left", !.failed = TRUE]
      BY <1>1, <1>2 DEF Leave
    <2>. QED  BY <2>1 DEF Leave
  <1>3. CASE ~(driver = "replay" /\ proxy.code # 0)
    <2>1. client' = [client EXCEPT !.phase = "left", !.failed = client.failed]
      BY <1>1, <1>3 DEF Leave
    <2>. QED  BY <1>1, <1>3, <2>1 DEF Leave
  <1>. QED  BY <1>2, <1>3

(* Only the pump of answers and the client touch what is relayed. *)
LEMMA AnsweringSteps ==
    ASSUME SessionTypes, RunTypes, [Next]_vars
    PROVE  /\ driver' = driver
           /\ \/ /\ UNCHANGED <<pipes.relayed, client.answered>>
                 /\ client.failed => client'.failed
              \/ PumpResponse \/ Receive
  <1>. USE DEF SessionTypes
  <1>1. CASE SessionStep
    <2>1. CASE ClientStep
      <3>1. CASE Leave
        <4>1. UNCHANGED <<driver, pipes>>
          BY <3>1, LeaveKinds
        <4>2. client'.answered = client.answered /\ (client.failed => client'.failed)
          <5>1. PICK failed \in BOOLEAN :
                   /\ client' = [client EXCEPT !.phase = "left", !.failed = failed]
                   /\ client.failed => failed
            BY <3>1, LeaveKinds
          <5>. QED  BY <5>1
        <4>. QED  BY <4>1, <4>2
      <3>2. CASE Receive
        BY <3>2, ReceiveKinds
      <3>3. CASE \E r \in Requests : Ask(r)
        BY <3>3 DEF Ask
      <3>4. CASE CloseInput
        BY <3>4 DEF CloseInput
      <3>5. CASE CallFails
        BY <3>5 DEF CallFails
      <3>6. CASE KillProxy
        BY <3>6 DEF KillProxy
      <3>7. CASE TerminateProxy
        BY <3>7 DEF TerminateProxy
      <3>. QED  BY <2>1, <3>1, <3>2, <3>3, <3>4, <3>5, <3>6, <3>7 DEF ClientStep
    <2>2. CASE ProxyStep
      BY <2>2 DEF ProxyStep, PumpRequest, PumpResponse, EndOfRequests, EndOfResponses,
         Main
    <2>3. CASE ServerStep \/ Terminated
      BY <2>3 DEF ServerStep, Terminated, Take, Finish, Crash, Exit, SystemCall, Effect,
         Answer
    <2>. QED  BY <1>1, <2>1, <2>2, <2>3 DEF SessionStep
  <1>2. CASE Moves \/ WriteManifest \/ UNCHANGED vars
    BY <1>2 DEF Moves, WriteManifest, vars, sessionVars
  <1>3. CASE MatrixStep
    <2>1. UNCHANGED driver
      BY <1>3 DEF MatrixStep, TimeOut, StopGroup, KillGroup, UpdateManifest, GatherRow,
         sessionVars
    <2>2. CASE TimeOut \/ UpdateManifest \/ GatherRow
      BY <2>2 DEF TimeOut, UpdateManifest, GatherRow, sessionVars
    <2>3. CASE StopGroup
      BY <2>3 DEF StopGroup
    <2>4. CASE KillGroup
      BY <2>4 DEF KillGroup
    <2>. QED  BY <1>3, <2>1, <2>2, <2>3, <2>4 DEF MatrixStep
  <1>. QED  BY <1>1, <1>2, <1>3, StepKinds

(* What the client is told comes from the log. *)
LEMMA AnsweringStep ==
    ASSUME SessionTypes, RunTypes, Answering, [Next]_vars
    PROVE  Answering'
  <1>1. Log \subseteq Log' /\ driver' = driver
    BY StepGrows, LogGrows, AnsweringSteps
  <1>2. CASE /\ UNCHANGED <<pipes.relayed, client.answered>>
             /\ client.failed => client'.failed
    BY <1>1, <1>2 DEF Answering, SessionTypes
  <1>3. CASE PumpResponse
    <2>. DEFINE m == Head(pipes.answers)
    <2>1. /\ history' = Append(history, m) /\ client' = client
          /\ pipes'.relayed = Append(pipes.relayed, m)
      BY <1>3 DEF PumpResponse, SessionTypes
    <2>2. m \in Log'
      BY <2>1, RowLogged
    <2>3. \A i \in DOMAIN pipes'.relayed :
              \/ pipes'.relayed[i] = m
              \/ i \in DOMAIN pipes.relayed /\ pipes'.relayed[i] = pipes.relayed[i]
      <3>1. pipes.relayed \in Seq(Replies)
        BY DEF SessionTypes
      <3>. QED  BY <2>1, <3>1, SequenceSteps
    <2>. QED  BY <1>1, <2>1, <2>2, <2>3 DEF Answering
  <1>4. CASE Receive
    <2>. DEFINE m == Head(pipes.relayed)
    <2>1. pipes'.relayed = Tail(pipes.relayed) /\ pipes.relayed # <<>>
      BY <1>4, ReceiveKinds
    <2>2. /\ m = pipes.relayed[1] /\ 1 \in DOMAIN pipes.relayed /\ m \in Replies
          /\ \A i \in DOMAIN pipes'.relayed :
                i + 1 \in DOMAIN pipes.relayed /\ pipes'.relayed[i] = pipes.relayed[i + 1]
      BY <2>1, SequenceSteps DEF SessionTypes
    <2>3. m \in Log
      BY <2>2 DEF Answering
    <2>4. m = Row(m.kind, m.id, 0) /\ m.kind \in {"answer", "error"}
      BY <2>2, RowTypes
    <2>5. CASE client' = client
      BY <1>1, <2>2, <2>5 DEF Answering
    <2>6. ASSUME NEW failed \in BOOLEAN, client.failed => failed,
                 client' = [client EXCEPT !.failed = failed,
                                !.answered = client.answered \cup {m.id}],
                 driver = "replay" /\ m.kind = "error" => failed
          PROVE  Answering'
      <3>1. client'.failed = failed /\ client'.answered = client.answered \cup {m.id}
        BY <2>6 DEF SessionTypes
      <3>2. /\ Row("answer", m.id, 0) \in Log \/ Row("error", m.id, 0) \in Log
            /\ driver = "replay" /\ ~failed => Row("answer", m.id, 0) \in Log
        BY <2>3, <2>4, <2>6
      <3>3. \A i \in DOMAIN pipes'.relayed : pipes'.relayed[i] \in Log'
        BY <1>1, <2>2 DEF Answering
      <3>. QED  BY <1>1, <2>6, <3>1, <3>2, <3>3 DEF Answering
    <2>. QED  BY <1>4, <2>5, <2>6, ReceiveKinds
  <1>. QED  BY <1>2, <1>3, <1>4, AnsweringSteps

-----------------------------------------------------------------------------
(* What has stopped stays so, and with it the log. *)
LEMMA StoppedStays ==
    ASSUME SessionTypes, RunTypes, [Next]_vars
    PROVE  /\ ~server.live => ~server'.live
           /\ Stopped => Stopped' /\ history' = history
           /\ proxy.phase = "exited" => proxy'.phase = "exited"
           /\ proxy'.phase = "exited" /\ proxy'.code = 0 =>
                \/ proxy.phase = "exited" /\ proxy.code = 0
                \/ ~server.live /\ ~server'.live
  <1>. USE DEF SessionTypes, Stopped
  <1>1. CASE SessionStep
    <2>1. CASE ClientStep
      <3>1. CASE KillProxy
        BY <3>1 DEF KillProxy
      <3>2. CASE \E r \in Requests : Ask(r)
        BY <3>2 DEF Ask
      <3>. QED  BY <2>1, <3>1, <3>2 DEF ClientStep, Receive, CallFails, CloseInput,
                   TerminateProxy, Leave
    <2>2. CASE PumpRequest \/ EndOfRequests \/ PumpResponse \/ EndOfResponses
      BY <2>2 DEF PumpRequest, PumpResponse, EndOfRequests, EndOfResponses, Pumping
    <2>3. CASE Main
      BY <2>3 DEF Main
    <2>4. CASE ServerStep \/ Terminated
      BY <2>4 DEF ServerStep, Terminated, Take, Finish, Crash, Exit, SystemCall, Effect,
         Answer
    <2>. QED  BY <1>1, <2>1, <2>2, <2>3, <2>4 DEF SessionStep, ProxyStep
  <1>2. CASE Moves \/ WriteManifest \/ UNCHANGED vars
    BY <1>2 DEF Moves, WriteManifest, vars, sessionVars
  <1>3. CASE MatrixStep
    <2>1. CASE StopGroup
      BY <2>1 DEF StopGroup
    <2>2. CASE KillGroup
      BY <2>2 DEF KillGroup
    <2>3. CASE TimeOut \/ UpdateManifest \/ GatherRow
      BY <2>3 DEF TimeOut, UpdateManifest, GatherRow, sessionVars
    <2>. QED  BY <1>3, <2>1, <2>2, <2>3 DEF MatrixStep
  <1>. QED  BY <1>1, <1>2, <1>3, StepKinds

(* How a client goes on to its next phase. *)
LEMMA ClientPhases ==
    ASSUME SessionTypes, RunTypes, [Next]_vars, run'.stage = "driving"
    PROVE  /\ run.stage = "driving" /\ driver' = driver
           /\ client.failed => client'.failed
           /\ AllAnswered => AllAnswered'
           /\ \/ client'.phase = client.phase
              \/ client.phase = "calling" /\ CloseInput
              \/ client.phase # "calling" /\ client'.phase # "left"
              \/ client.phase # "calling" /\ Leave
  <1>. USE DEF SessionTypes, RunTypes, AllAnswered
  <1>1. CASE SessionStep
    <2>0. run.stage = "driving"
      BY <1>1 DEF SessionStep, harness
    <2>1. CASE ClientStep
      <3>1. CASE Leave
        BY <2>0, <3>1, LeaveKinds
      <3>2. CASE Receive
        <4>1. client'.phase = client.phase /\ client.answered \subseteq client'.answered
          <5>1. CASE client' = client
            BY <5>1
          <5>2. CASE client' # client
            <6>1. PICK failed \in BOOLEAN :
                      client' = [client EXCEPT !.failed = failed,
                           !.answered = client.answered \cup {Head(pipes.relayed).id}]
              BY <3>2, <5>2, ReceiveKinds
            <6>. QED  BY <6>1
          <5>. QED  BY <5>1, <5>2
        <4>2. client.failed => client'.failed
          <5>1. CASE client' = client
            BY <5>1
          <5>2. CASE client' # client
            <6>1. PICK failed \in BOOLEAN :
                      /\ client' = [client EXCEPT !.failed = failed,
                           !.answered = client.answered \cup {Head(pipes.relayed).id}]
                      /\ client.failed => failed
              BY <3>2, <5>2, ReceiveKinds
            <6>. QED  BY <6>1
          <5>. QED  BY <5>1, <5>2
        <4>3. UNCHANGED driver
          BY <3>2, ReceiveKinds
        <4>. QED  BY <2>0, <4>1, <4>2, <4>3
      <3>3. CASE \E r \in Requests : Ask(r)
        BY <2>0, <3>3 DEF Ask
      <3>4. CASE CloseInput
        BY <2>0, <3>4 DEF CloseInput
      <3>5. CASE CallFails
        BY <2>0, <3>5 DEF CallFails
      <3>6. CASE TerminateProxy
        BY <2>0, <3>6 DEF TerminateProxy
      <3>7. CASE KillProxy
        BY <2>0, <3>7 DEF KillProxy
      <3>. QED  BY <2>1, <3>1, <3>2, <3>3, <3>4, <3>5, <3>6, <3>7 DEF ClientStep
    <2>2. CASE ProxyStep
      BY <2>0, <2>2 DEF ProxyStep, PumpRequest, PumpResponse, EndOfRequests,
         EndOfResponses, Main
    <2>3. CASE Finish \/ Crash \/ Terminated
      BY <2>0, <2>3, Exits
    <2>4. CASE ServerStep
      <3>1. CASE Take
        BY <2>0, <3>1 DEF Take
      <3>2. CASE \E r \in Requests : SystemCall(r) \/ Answer(r)
        BY <2>0, <3>2 DEF SystemCall, Effect, Answer
      <3>. QED  BY <2>3, <2>4, <3>1, <3>2 DEF ServerStep
    <2>. QED  BY <1>1, <2>1, <2>2, <2>3, <2>4 DEF SessionStep
  <1>2. CASE Moves
    <2>1. CASE run' = [run EXCEPT !.stage = "manifest", !.status = "failed"]
      BY <2>1
    <2>2. CASE run' # [run EXCEPT !.stage = "manifest", !.status = "failed"]
      BY <1>2, <2>2 DEF Moves
    <2>. QED  BY <2>1, <2>2
  <1>3. CASE WriteManifest
    <2>1. UNCHANGED sessionVars /\ run.stage = "driving"
      BY <1>3 DEF WriteManifest
    <2>. QED  BY <2>1 DEF sessionVars
  <1>4. CASE UNCHANGED vars
    BY <1>4 DEF vars, sessionVars
  <1>5. CASE MatrixStep
    <2>1. CASE StopGroup
      BY <2>1 DEF StopGroup
    <2>2. CASE KillGroup
      BY <2>2 DEF KillGroup
    <2>. QED  BY <1>5, <2>1, <2>2 DEF MatrixStep, TimeOut, UpdateManifest, GatherRow,
                 sessionVars
  <1>. QED  BY <1>1, <1>2, <1>3, <1>4, <1>5, StepKinds

(* A replay that leaves without a failure leaves nothing running. *)
LEMMA LeavingStep ==
    ASSUME SessionTypes, RunTypes, Leaving, [Next]_vars
    PROVE  Leaving'
  <1>1. (proxy.phase = "exited" /\ proxy.code = 0 => ~server.live)'
    BY StoppedStays DEF Leaving
  <1>2. ASSUME driver' = "replay", run'.stage = "driving", ~client'.failed
        PROVE  /\ client'.phase # "calling" => AllAnswered'
               /\ client'.phase = "left" => Stopped'
    <2>1. driver = "replay" /\ run.stage = "driving" /\ ~client.failed
      BY <1>2, ClientPhases
    <2>2. CASE client'.phase = client.phase
      BY <1>2, <2>1, <2>2, ClientPhases, StoppedStays DEF Leaving
    <2>3. CASE client.phase = "calling" /\ CloseInput
      BY <1>2, <2>1, <2>3, ClientPhases DEF CloseInput, SessionTypes
    <2>4. CASE client.phase # "calling" /\ client'.phase # "left"
      BY <1>2, <2>1, <2>4, ClientPhases DEF Leaving
    <2>5. CASE client.phase # "calling" /\ Leave
      <3>1. proxy.phase = "exited" /\ proxy.code = 0
        <4>1. PICK failed \in BOOLEAN :
                  /\ client' = [client EXCEPT !.phase = "left", !.failed = failed]
                  /\ driver = "replay" /\ proxy.code # 0 => failed
          BY <2>5, LeaveKinds
        <4>. QED  BY <1>2, <2>1, <2>5, <4>1, LeaveKinds DEF SessionTypes
      <3>2. Stopped'
        BY <3>1, StoppedStays DEF Leaving, Stopped
      <3>. QED  BY <1>2, <2>1, <2>5, <3>2, ClientPhases DEF Leaving
    <2>. QED  BY <1>2, <2>2, <2>3, <2>4, <2>5, ClientPhases
  <1>. QED  BY <1>1, <1>2 DEF Leaving

-----------------------------------------------------------------------------
(* What a client that was told everything may conclude. *)
LEMMA AnsweredRecorded ==
    ASSUME SessionTypes, Preceded, AllAnswered,
           \A r \in Requests : Row("answer", r, 0) \in Log
    PROVE  Evidence
  <1>1. SUFFICES ASSUME NEW r \in Requests PROVE Recorded(r)
    BY DEF Evidence
  <1>2. PICK j \in DOMAIN history : history[j] = Row("answer", r, 0)
    BY DEF Log
  <1>3. history[j].kind = "answer" /\ history[j].id = r
    BY <1>2 DEF Row
  <1>4. PICK i \in DOMAIN history : i < j /\ history[i] = Row("request", r, 0)
    BY <1>3 DEF Preceded
  <1>. QED  BY <1>2, <1>4 DEF Recorded

(* The first stage passes with evidence, and a replay with all stopped. *)
LEMMA DrivenKnows ==
    ASSUME SessionTypes, Preceded, Answering, Leaving, run.stage = "driving",
           driver # "openai", client.phase = "left", ~client.failed,
           driver = "codex" => ValidAgent
    PROVE  Evidence /\ (driver = "replay" => Stopped)
  <1>1. CASE driver = "replay"
    <2>1. AllAnswered /\ Stopped
      BY <1>1 DEF Leaving
    <2>2. \A r \in Requests : Row("answer", r, 0) \in Log
      BY <1>1, <2>1 DEF Answering, AllAnswered
    <2>. QED  BY <2>1, <2>2, AnsweredRecorded
  <1>2. CASE driver = "codex"
    <2>1. AllAnswered /\ \A r \in Requests : RowsOf(r, {"error"}) = {}
      BY <1>2 DEF ValidAgent
    <2>2. ASSUME NEW r \in Requests PROVE Row("answer", r, 0) \in Log
      <3>1. ASSUME Row("error", r, 0) \in Log PROVE FALSE
        <4>1. PICK i \in DOMAIN history : history[i] = Row("error", r, 0)
          BY <3>1 DEF Log
        <4>2. i \in RowsOf(r, {"error"})
          BY <4>1 DEF RowsOf, Row
        <4>. QED  BY <2>1, <4>2
      <3>. QED  BY <2>1, <3>1 DEF Answering, AllAnswered
    <2>. QED  BY <1>2, <2>1, <2>2, AnsweredRecorded
  <1>. QED  BY <1>1, <1>2 DEF SessionTypes, Drivers

(* How a run of run.py goes on. *)
LEMMA RunKinds ==
    ASSUME [Next]_vars, RunTypes
    PROVE  \/ Moves
           \/ /\ UNCHANGED <<run.status, run.analysed, driver>>
              /\ run'.stage \in {run.stage, "ended", "dead"}
  <1>1. CASE SessionStep
    <2>1. driver' = driver
      BY <1>1 DEF SessionStep, ClientStep, ProxyStep, ServerStep, Ask, Receive, CallFails,
         CloseInput, TerminateProxy, KillProxy, Leave, PumpRequest, PumpResponse,
         EndOfRequests, EndOfResponses, Main, Terminated, Take, Finish, Crash, Exit,
         SystemCall, Effect, Answer
    <2>. QED  BY <1>1, <2>1 DEF SessionStep, harness
  <1>2. CASE WriteManifest \/ UNCHANGED vars
    BY <1>2 DEF WriteManifest, vars, sessionVars, RunTypes
  <1>3. CASE MatrixStep
    BY <1>3 DEF MatrixStep, TimeOut, StopGroup, KillGroup, UpdateManifest, GatherRow,
       sessionVars, RunTypes
  <1>. QED  BY <1>1, <1>2, <1>3, StepKinds

(* Every stage keeps what the first one knew. *)
LEMMA StagingStep ==
    ASSUME SessionTypes, RunTypes, Preceded, Answering, Leaving, Staging, [Next]_vars
    PROVE  Staging'
  <1>. history' \in Seq(Rows) /\ history \in Seq(Rows)
    BY TypesStep DEF SessionTypes
  <1>1. Evidence => Evidence'
    BY StepGrows, LogGrows
  <1>2. Stopped => Stopped' /\ Len(history') = Len(history)
    BY StoppedStays
  <1>3. CASE /\ UNCHANGED <<run.status, run.analysed, driver>>
             /\ run'.stage \in {run.stage, "ended", "dead"}
    BY <1>1, <1>2, <1>3 DEF Staging
  <1>4. CASE Moves
    <2>1. /\ UNCHANGED <<driver, history>>
          /\ run.stage \in {"driving", "analyze", "attribute", "score"}
      BY <1>4 DEF Moves, sessionVars
    <2>2. CASE run' = [run EXCEPT !.stage = "manifest", !.status = "failed"]
      <3>1. run'.stage = "manifest" /\ run'.status = "failed" /\ run'.analysed = run.analysed
        BY <2>2 DEF RunTypes
      <3>. QED  BY <1>1, <1>2, <2>1, <3>1 DEF Staging
    <2>3. CASE run' # [run EXCEPT !.stage = "manifest", !.status = "failed"]
      <3>1. run'.analysed \in {run.analysed, Len(history)}
            /\ (run'.analysed = run.analysed \/ run.stage = "analyze")
        BY <1>4, <2>3 DEF Moves, RunTypes
      <3>2. Evidence /\ (driver = "replay" => Stopped)
        <4>1. CASE run.stage = "driving"
          BY <1>4, <2>3, <4>1, DrivenKnows DEF Moves
        <4>2. CASE run.stage # "driving"
          BY <2>1, <4>2 DEF Staging
        <4>. QED  BY <4>1, <4>2
      <3>. QED  BY <1>1, <1>2, <2>1, <3>1, <3>2 DEF Staging
    <2>. QED  BY <2>2, <2>3
  <1>. QED  BY <1>3, <1>4, RunKinds

(* The manifest and the row say what the run came to. *)
LEMMA WritingStep ==
    ASSUME RunTypes, Writing, [Next]_vars
    PROVE  Writing'
  <1>1. CASE SessionStep
    BY <1>1 DEF SessionStep, harness, Writing
  <1>2. CASE Moves
    <2>1. /\ UNCHANGED <<manifest, matrix, row>> /\ run.stage # "ended"
          /\ run'.stage # "ended"
      <3>1. CASE run' = [run EXCEPT !.stage = "manifest", !.status = "failed"]
        BY <1>2, <3>1 DEF Moves, RunTypes
      <3>2. CASE run' # [run EXCEPT !.stage = "manifest", !.status = "failed"]
        BY <1>2, <3>2 DEF Moves, RunTypes
      <3>. QED  BY <3>1, <3>2
    <2>. QED  BY <2>1 DEF Writing
  <1>3. CASE WriteManifest
    BY <1>3 DEF WriteManifest, Writing, RunTypes
  <1>4. CASE TimeOut \/ KillGroup
    BY <1>4 DEF TimeOut, KillGroup, Writing
  <1>5. CASE StopGroup
    <2>1. /\ UNCHANGED <<manifest, row, run.status>> /\ matrix' = "killing"
          /\ run.stage = "ended" => run'.stage = "ended"
      BY <1>5 DEF StopGroup, RunTypes
    <2>. QED  BY <2>1 DEF Writing
  <1>6. CASE UpdateManifest
    BY <1>6 DEF UpdateManifest, Writing, RunTypes
  <1>7. CASE GatherRow
    BY <1>7 DEF GatherRow, Writing, RunTypes
  <1>8. CASE UNCHANGED vars
    BY <1>8 DEF vars, Writing
  <1>. QED  BY <1>1, <1>2, <1>3, <1>4, <1>5, <1>6, <1>7, <1>8, StepKinds DEF MatrixStep

-----------------------------------------------------------------------------
(* Nothing is asked and nothing logged. *)
LEMMA ExperimentInit == Init => ExperimentInv
  <1>. SUFFICES ASSUME Init PROVE ExperimentInv
    OBVIOUS
  <1>1. SessionTypes
    <2>1. PICK traced \in BOOLEAN :
             server = [traced |-> traced, live |-> TRUE, code |-> 0, effects |-> 0,
                       work |-> [r \in Requests |-> "none"],
                       files |-> [d \in Fds |-> Nobody]]
      BY DEF Init, SessionInit
    <2>2. server \in [traced : BOOLEAN, live : BOOLEAN, code : {0, 1},
                      work : [Requests -> {"none", "running", "done"}],
                      effects : Nat, files : [Fds -> Requests \cup {Nobody}]]
      BY <2>1
    <2>3. <<>> \in Seq(Requests) /\ <<>> \in Seq(Replies) /\ <<>> \in Seq(Rows)
      OBVIOUS
    <2>4. pipes \in [requests : Seq(Requests), forwarded : Seq(Requests),
                     answers : Seq(Replies), relayed : Seq(Replies),
                     open : BOOLEAN, serverOpen : BOOLEAN]
      BY <2>3 DEF Init, SessionInit
    <2>5. client \in [phase : {"calling", "closed", "terminated", "killed", "left"},
                      asked : SUBSET Requests, answered : SUBSET Requests,
                      failed : BOOLEAN]
      BY DEF Init, SessionInit
    <2>6. proxy \in [phase : {"serving", "ending", "draining", "cleaning", "exited"},
                     code : {0, 1}, request : {"on", "ended", "failed"},
                     response : {"on", "ended", "failed"}]
      BY DEF Init, SessionInit
    <2>. QED  BY <2>2, <2>3, <2>4, <2>5, <2>6 DEF Init, SessionInit, SessionTypes
  <1>2. RunTypes
    BY DEF Init, RunTypes, NoRow
  <1>3. Preceded /\ Logging /\ Answering
    <2>1. /\ history = <<>> /\ pipes.forwarded = <<>> /\ pipes.answers = <<>>
          /\ pipes.relayed = <<>> /\ client.answered = {}
          /\ \A r \in Requests : server.work[r] = "none"
      BY DEF Init, SessionInit
    <2>. QED  BY <2>1 DEF Preceded, Logging, Answering
  <1>4. Leaving /\ Staging /\ Writing
    BY DEF Init, SessionInit, Leaving, Staging, Writing
  <1>. QED  BY <1>1, <1>2, <1>3, <1>4 DEF ExperimentInv

(* The evidence is followed through every behaviour of an experiment. *)
LEMMA ExperimentInvariant == Spec => []ExperimentInv
  <1>1. ExperimentInv /\ [Next]_vars => ExperimentInv'
    BY TypesStep, PrecededSteps, LoggingStep, AnsweringStep, LeavingStep, StagingStep,
       WritingStep DEF ExperimentInv
  <1>. QED  BY ExperimentInit, <1>1, PTL DEF Spec

(* A replay is analysed when its server has gone and its trace is whole,     *)
(* however the proxy had to be stopped: call, close and analyse of run.py.   *)
THEOREM ReplaysAreSeenWhole == Spec => []AnalysisSeesWholeTrace
  <1>1. ExperimentInv => AnalysisSeesWholeTrace
    BY DEF ExperimentInv, Staging, Stopped, AnalysisSeesWholeTrace
  <1>. QED  BY ExperimentInvariant, <1>1, PTL

(* A manifest says complete only of a session whose every call and answer    *)
(* was recorded, and matrix.py's exit statuses agree with the manifests.     *)
THEOREM CompleteWasRecorded == Spec => []CompleteIsRecorded
  <1>1. ExperimentInv => CompleteIsRecorded
    BY DEF ExperimentInv, Staging, Writing, Evidence, CompleteIsRecorded
  <1>. QED  BY ExperimentInvariant, <1>1, PTL

-----------------------------------------------------------------------------
(***************************************************************************)
(* The windows of the baselines.  What the proxy logs of a call encloses   *)
(* what the server does for it: the request is logged before the call is   *)
(* taken (Logging), a call is taken once (TakenOnce), and the answer is    *)
(* logged when the call is done (Enclosed).                                *)
(***************************************************************************)
Replied(j) == history[j].kind \in {"answer", "error"}

(* A call waits in one pipe, at one place, until the server takes it. *)
TakenOnce ==
    /\ \A i, j \in DOMAIN pipes.requests :
          pipes.requests[i] = pipes.requests[j] => i = j
    /\ \A i, j \in DOMAIN pipes.forwarded :
          pipes.forwarded[i] = pipes.forwarded[j] => i = j
    /\ \A i \in DOMAIN pipes.requests, j \in DOMAIN pipes.forwarded :
          pipes.requests[i] # pipes.forwarded[j]
    /\ \A i \in DOMAIN pipes.requests :
          pipes.requests[i] \in client.asked /\ server.work[pipes.requests[i]] = "none"
    /\ \A i \in DOMAIN pipes.forwarded :
          pipes.forwarded[i] \in client.asked /\ server.work[pipes.forwarded[i]] = "none"
    /\ \A r \in Requests : server.work[r] # "none" => r \in client.asked

(* System calls come between the rows of their call, and use descriptors     *)
(* that it opened before.                                                    *)
Enclosed ==
    /\ \A e \in Data : \E i \in DOMAIN history :
          i < e /\ history[i] = Row("request", history[e].id, 0)
    /\ \A e \in Data : history[e].kind # "open" => \E o \in DOMAIN history :
          o < e /\ history[o] = Row("open", history[e].id, history[e].fd)
    /\ \A e \in Data, j \in DOMAIN history :
          Replied(j) /\ history[j].id = history[e].id => e < j
    /\ \A j \in DOMAIN history : Replied(j) => server.work[history[j].id] = "done"
    /\ \A i \in DOMAIN pipes.answers : server.work[pipes.answers[i].id] = "done"
    /\ \A d \in Fds : server.files[d] # Nobody => Row("open", server.files[d], d) \in Log

WindowInv == ExperimentInv /\ TakenOnce /\ Enclosed

-----------------------------------------------------------------------------
(* What moves calls along; all else leaves them where they are. *)
LEMMA CallSteps ==
    ASSUME SessionTypes, RunTypes, [Next]_vars
    PROVE  \/ UNCHANGED <<client.asked, pipes.requests, pipes.forwarded, server.work>>
           \/ \E r \in Requests : Ask(r) \/ Answer(r)
           \/ PumpRequest \/ Take
  <1>. USE DEF SessionTypes
  <1>1. CASE SessionStep
    <2>1. CASE ClientStep
      <3>1. CASE Leave
        <4>1. PICK failed \in BOOLEAN :
                 client' = [client EXCEPT !.phase = "left", !.failed = failed]
          BY <3>1, LeaveKinds
        <4>. QED  BY <3>1, <4>1 DEF Leave
      <3>2. CASE Receive
        BY <3>2 DEF Receive
      <3>3. CASE CloseInput \/ TerminateProxy
        BY <3>3 DEF CloseInput, TerminateProxy
      <3>4. CASE CallFails \/ KillProxy
        BY <3>4 DEF CallFails, KillProxy
      <3>. QED  BY <2>1, <3>1, <3>2, <3>3, <3>4 DEF ClientStep
    <2>2. CASE ProxyStep
      BY <2>2 DEF ProxyStep, EndOfRequests, PumpResponse, EndOfResponses, Main
    <2>3. CASE Finish \/ Crash \/ Terminated
      BY <2>3, Exits DEF Finish, Crash, Terminated, Exit
    <2>4. CASE ServerStep
      BY <2>3, <2>4 DEF ServerStep, SystemCall, Effect
    <2>. QED  BY <1>1, <2>1, <2>2, <2>3, <2>4 DEF SessionStep
  <1>2. CASE Moves \/ WriteManifest \/ UNCHANGED vars
    BY <1>2 DEF Moves, WriteManifest, vars, sessionVars
  <1>3. CASE MatrixStep
    <2>1. CASE StopGroup
      BY <2>1 DEF StopGroup
    <2>2. CASE KillGroup
      BY <2>2 DEF KillGroup
    <2>. QED  BY <1>3, <2>1, <2>2 DEF MatrixStep, TimeOut, UpdateManifest, GatherRow,
                 sessionVars
  <1>. QED  BY <1>1, <1>2, <1>3, StepKinds

(* What moves the evidence along; all else leaves it as it is. *)
LEMMA EvidenceSteps ==
    ASSUME SessionTypes, RunTypes, [Next]_vars
    PROVE  \/ UNCHANGED <<history, pipes.answers, server.work, server.files>>
           \/ \E r \in Requests : SystemCall(r) \/ Answer(r)
           \/ PumpRequest \/ PumpResponse \/ Take
  <1>. USE DEF SessionTypes
  <1>1. CASE SessionStep
    <2>1. CASE ClientStep
      BY <2>1 DEF ClientStep, Ask, Receive, CallFails, CloseInput, TerminateProxy,
         KillProxy, Leave
    <2>2. CASE ProxyStep
      BY <2>2 DEF ProxyStep, EndOfRequests, EndOfResponses, Main
    <2>3. CASE Finish \/ Crash \/ Terminated
      <3>1. PICK code \in {0, 1} : Exit(code)
        BY <2>3 DEF Finish, Crash, Terminated
      <3>. QED  BY <3>1 DEF Exit
    <2>4. CASE ServerStep
      BY <2>3, <2>4 DEF ServerStep
    <2>. QED  BY <1>1, <2>1, <2>2, <2>3, <2>4 DEF SessionStep
  <1>2. CASE Moves \/ WriteManifest \/ UNCHANGED vars
    BY <1>2 DEF Moves, WriteManifest, vars, sessionVars
  <1>3. CASE MatrixStep
    <2>1. CASE StopGroup
      BY <2>1 DEF StopGroup
    <2>2. CASE KillGroup
      BY <2>2 DEF KillGroup
    <2>. QED  BY <1>3, <2>1, <2>2 DEF MatrixStep, TimeOut, UpdateManifest, GatherRow,
                 sessionVars
  <1>. QED  BY <1>1, <1>2, <1>3, StepKinds

(* A call moves from pipe to pipe and is taken out of the last. *)
LEMMA TakenOnceStep ==
    ASSUME SessionTypes, RunTypes, TakenOnce, [Next]_vars
    PROVE  TakenOnce'
  <1>. /\ pipes.requests \in Seq(Requests) /\ pipes.forwarded \in Seq(Requests)
       /\ server.work \in [Requests -> {"none", "running", "done"}]
    BY DEF SessionTypes
  <1>1. CASE UNCHANGED <<client.asked, pipes.requests, pipes.forwarded, server.work>>
    BY <1>1 DEF TakenOnce
  <1>2. ASSUME NEW r \in Requests, Ask(r) PROVE TakenOnce'
    <2>1. /\ client'.asked = client.asked \cup {r} /\ r \notin client.asked
          /\ pipes'.requests = Append(pipes.requests, r)
          /\ pipes'.forwarded = pipes.forwarded /\ server'.work = server.work
      BY <1>2 DEF Ask, SessionTypes
    <2>2. /\ \A i \in DOMAIN pipes'.requests :
                \/ i \in DOMAIN pipes.requests /\ pipes'.requests[i] = pipes.requests[i]
                \/ i = Len(pipes.requests) + 1 /\ pipes'.requests[i] = r
      BY <2>1, SequenceSteps
    <2>3. server.work[r] = "none"
      BY <2>1 DEF TakenOnce
    <2>. QED  BY <2>1, <2>2, <2>3 DEF TakenOnce
  <1>3. CASE PumpRequest
    <2>. DEFINE r == Head(pipes.requests)
    <2>1. /\ pipes.requests # <<>> /\ pipes'.requests = Tail(pipes.requests)
          /\ pipes'.forwarded \in {pipes.forwarded, Append(pipes.forwarded, r)}
          /\ client'.asked = client.asked /\ server'.work = server.work
      BY <1>3 DEF PumpRequest, SessionTypes
    <2>2. /\ r = pipes.requests[1] /\ 1 \in DOMAIN pipes.requests
          /\ \A i \in DOMAIN pipes'.requests :
                /\ i + 1 \in DOMAIN pipes.requests /\ i + 1 # 1
                /\ pipes'.requests[i] = pipes.requests[i + 1]
      BY <2>1, SequenceSteps
    <2>3. \A i \in DOMAIN pipes'.forwarded :
             \/ i \in DOMAIN pipes.forwarded /\ pipes'.forwarded[i] = pipes.forwarded[i]
             \/ i = Len(pipes.forwarded) + 1 /\ pipes'.forwarded[i] = r
      BY <2>1, SequenceSteps
    <2>4. /\ \A i \in DOMAIN pipes'.requests : pipes'.requests[i] # r
          /\ \A i \in DOMAIN pipes.forwarded : pipes.forwarded[i] # r
          /\ r \in client.asked /\ server.work[r] = "none"
      BY <2>2 DEF TakenOnce
    <2>5. \A i, j \in DOMAIN pipes'.requests :
             pipes'.requests[i] = pipes'.requests[j] => i = j
      <3>1. \A i \in DOMAIN pipes'.requests : i \in Nat
        BY <2>1
      <3>2. \A i, j \in DOMAIN pipes'.requests :
               pipes'.requests[i] = pipes'.requests[j] => i + 1 = j + 1
        BY <2>2 DEF TakenOnce
      <3>. QED  BY <3>1, <3>2
    <2>. QED  BY <2>1, <2>2, <2>3, <2>4, <2>5 DEF TakenOnce
  <1>4. CASE Take
    <2>. DEFINE r == Head(pipes.forwarded)
    <2>1. /\ pipes.forwarded # <<>> /\ pipes'.forwarded = Tail(pipes.forwarded)
          /\ pipes'.requests = pipes.requests /\ client'.asked = client.asked
          /\ \A q \in Requests \ {r} : server'.work[q] = server.work[q]
      BY <1>4 DEF Take, SessionTypes
    <2>2. /\ r = pipes.forwarded[1] /\ 1 \in DOMAIN pipes.forwarded
          /\ \A i \in DOMAIN pipes'.forwarded :
                /\ i + 1 \in DOMAIN pipes.forwarded /\ i + 1 # 1 /\ i \in Nat
                /\ pipes'.forwarded[i] = pipes.forwarded[i + 1]
      BY <2>1, SequenceSteps
    <2>3. /\ \A i \in DOMAIN pipes'.forwarded : pipes'.forwarded[i] # r
          /\ \A i \in DOMAIN pipes.requests : pipes.requests[i] # r
          /\ r \in client.asked
      BY <2>2 DEF TakenOnce
    <2>4. \A i, j \in DOMAIN pipes'.forwarded :
             pipes'.forwarded[i] = pipes'.forwarded[j] => i = j
      <3>1. \A i, j \in DOMAIN pipes'.forwarded :
               pipes'.forwarded[i] = pipes'.forwarded[j] => i + 1 = j + 1
        BY <2>2 DEF TakenOnce
      <3>. QED  BY <2>2, <3>1
    <2>5. /\ \A i \in DOMAIN pipes.requests : server'.work[pipes.requests[i]] = "none"
          /\ \A i \in DOMAIN pipes'.forwarded : server'.work[pipes'.forwarded[i]] = "none"
      BY <2>1, <2>2, <2>3 DEF TakenOnce
    <2>. QED  BY <2>1, <2>2, <2>3, <2>4, <2>5 DEF TakenOnce
  <1>5. ASSUME NEW r \in Requests, Answer(r) PROVE TakenOnce'
    <2>1. /\ pipes'.requests = pipes.requests /\ pipes'.forwarded = pipes.forwarded
          /\ client'.asked = client.asked /\ server.work[r] = "running"
          /\ \A q \in Requests \ {r} : server'.work[q] = server.work[q]
      BY <1>5 DEF Answer, SessionTypes
    <2>2. /\ \A i \in DOMAIN pipes.requests : pipes.requests[i] \in Requests \ {r}
          /\ \A i \in DOMAIN pipes.forwarded : pipes.forwarded[i] \in Requests \ {r}
          /\ r \in client.asked
      BY <2>1 DEF TakenOnce
    <2>. QED  BY <2>1, <2>2 DEF TakenOnce
  <1>. QED  BY <1>1, <1>2, <1>3, <1>4, <1>5, CallSteps

(* What a row added at the end of the log does to the evidence in it. *)
LEMMA RowAdded ==
    ASSUME SessionTypes, NEW e \in Rows, history' = Append(history, e)
    PROVE  LET n == Len(history) + 1 IN
           /\ DOMAIN history' = DOMAIN history \cup {n} /\ history'[n] = e
           /\ \A i \in DOMAIN history : i < n /\ history'[i] = history[i]
           /\ Data' = IF e.kind \in {"open", "read", "close"} THEN Data \cup {n} ELSE Data
           /\ \A i \in DOMAIN history : Replied(i)' <=> Replied(i)
           /\ e.kind \notin {"answer", "error"} =>
                 \A i \in DOMAIN history' : Replied(i)' => i \in DOMAIN history
           /\ Log' = Log \cup {e}
  <1>. DEFINE n == Len(history) + 1
  <1>1. /\ DOMAIN history' = DOMAIN history \cup {n} /\ history'[n] = e
        /\ \A i \in DOMAIN history : i < n /\ history'[i] = history[i]
    BY SequenceSteps DEF SessionTypes
  <1>2. n \notin DOMAIN history
    BY <1>1
  <1>. HIDE DEF n
  <1>3. Data' = {i \in DOMAIN history' : history'[i].kind \in {"open", "read", "close"}}
    BY DEF Data
  <1>4. \A i \in DOMAIN history' : i \in Data' <=>
           \/ i \in Data
           \/ i = n /\ e.kind \in {"open", "read", "close"}
    BY <1>1, <1>2, <1>3 DEF Data
  <1>5. Data \subseteq DOMAIN history' /\ Data' \subseteq DOMAIN history'
    BY <1>1, <1>3 DEF Data
  <1>6. Data' = IF e.kind \in {"open", "read", "close"} THEN Data \cup {n} ELSE Data
    <2>1. CASE e.kind \in {"open", "read", "close"}
      BY <1>1, <1>4, <1>5, <2>1
    <2>2. CASE e.kind \notin {"open", "read", "close"}
      BY <1>4, <1>5, <2>2
    <2>. QED  BY <2>1, <2>2
  <1>7. /\ \A i \in DOMAIN history : Replied(i)' <=> Replied(i)
        /\ e.kind \notin {"answer", "error"} =>
              \A i \in DOMAIN history' : Replied(i)' => i \in DOMAIN history
    BY <1>1 DEF Replied
  <1>8. Log' = Log \cup {e}
    BY <1>1 DEF Log
  <1>. QED  BY <1>1, <1>6, <1>7, <1>8 DEF n

(* A row that is no system call and no answer disturbs nothing. *)
LEMMA EnclosedRequest ==
    ASSUME SessionTypes, Enclosed, PumpRequest
    PROVE  Enclosed'
  <1>. DEFINE r == Head(pipes.requests)
  <1>1. /\ history' = Append(history, Row("request", r, 0)) /\ pipes.requests # <<>>
        /\ pipes'.answers = pipes.answers /\ server' = server
    BY DEF PumpRequest, SessionTypes
  <1>2. r \in Requests
    BY <1>1, SequenceSteps DEF SessionTypes
  <1>3. Row("request", r, 0) \in Rows /\ Row("request", r, 0).kind = "request"
    BY <1>2, RowTypes DEF Row
  <1>4. /\ Data' = Data /\ Log \subseteq Log'
        /\ \A i \in DOMAIN history : i \in DOMAIN history' /\ history'[i] = history[i]
        /\ \A j \in DOMAIN history' : Replied(j)' => j \in DOMAIN history /\ Replied(j)
    BY <1>1, <1>3, RowAdded
  <1>5. \A e \in Data : e \in DOMAIN history
    BY DEF Data
  <1>. QED  BY <1>1, <1>4, <1>5 DEF Enclosed

(* An answer is logged after all the system calls of its call: it is done.   *)
LEMMA EnclosedAnswer ==
    ASSUME SessionTypes, Enclosed, PumpResponse
    PROVE  Enclosed'
  <1>. DEFINE m == Head(pipes.answers)
              n == Len(history) + 1
  <1>1. /\ history' = Append(history, m) /\ pipes.answers # <<>>
        /\ pipes'.answers = Tail(pipes.answers) /\ server' = server
    BY DEF PumpResponse, SessionTypes
  <1>2. /\ m \in Replies /\ m = pipes.answers[1] /\ 1 \in DOMAIN pipes.answers
        /\ \A i \in DOMAIN pipes'.answers :
              i + 1 \in DOMAIN pipes.answers /\ pipes'.answers[i] = pipes.answers[i + 1]
    BY <1>1, SequenceSteps DEF SessionTypes
  <1>3. m \in Rows /\ m.kind \in {"answer", "error"} /\ server.work[m.id] = "done"
    BY <1>2, RowTypes DEF Enclosed
  <1>4. /\ Data' = Data /\ Log \subseteq Log'
        /\ DOMAIN history' = DOMAIN history \cup {n} /\ history'[n] = m
        /\ \A i \in DOMAIN history : i < n /\ history'[i] = history[i]
        /\ \A j \in DOMAIN history : Replied(j)' <=> Replied(j)
    BY <1>1, <1>3, RowAdded
  <1>. HIDE DEF m, n
  <1>5. \A e \in Data : e \in DOMAIN history
    BY DEF Data
  <1>6. \A e \in Data', j \in DOMAIN history' :
           Replied(j)' /\ history'[j].id = history'[e].id => e < j
    BY <1>4, <1>5 DEF Enclosed
  <1>7. \A i \in DOMAIN pipes'.answers : server'.work[pipes'.answers[i].id] = "done"
    BY <1>1, <1>2 DEF Enclosed
  <1>8. \A j \in DOMAIN history' : Replied(j)' => server'.work[history'[j].id] = "done"
    BY <1>1, <1>3, <1>4 DEF Enclosed
  <1>9. /\ \A e \in Data' : \E i \in DOMAIN history' :
              i < e /\ history'[i] = Row("request", history'[e].id, 0)
        /\ \A e \in Data' : history'[e].kind # "open" => \E o \in DOMAIN history' :
              o < e /\ history'[o] = Row("open", history'[e].id, history'[e].fd)
    BY <1>4, <1>5 DEF Enclosed
  <1>. QED  BY <1>1, <1>4, <1>6, <1>7, <1>8, <1>9 DEF Enclosed

(* A system call is made by a call under way: it was logged before, is not   *)
(* answered yet, and owns the descriptor.                                    *)
LEMMA EnclosedCall ==
    ASSUME SessionTypes, Logging, Enclosed, NEW r \in Requests, SystemCall(r)
    PROVE  Enclosed'
  <1>. DEFINE n == Len(history) + 1
  <1>1. PICK d \in Fds, kind \in {"open", "read", "close"} :
           /\ history' = Append(history, Row(kind, r, d))
           /\ kind # "open" => server.files[d] = r
           /\ server.work[r] = "running"
           /\ server'.work = server.work /\ pipes' = pipes
           /\ \A f \in Fds : server'.files[f] \in
                 IF f = d THEN {r, Nobody} ELSE {server.files[f]}
           /\ kind = "close" => server'.files[d] = Nobody
    <2>1. PICK d \in Fds : \/ Effect(r, "open", d, Nobody, r)
                           \/ Effect(r, "read", d, r, r)
                           \/ Effect(r, "close", d, r, Nobody)
      BY DEF SystemCall
    <2>2. /\ server.work[r] = "running" /\ pipes' = pipes
      BY <2>1 DEF Effect
    <2>3. /\ server'.work = server.work
          /\ \A f \in Fds \ {d} : server'.files[f] = server.files[f]
      <3>1. PICK owned : server' = [server EXCEPT !.effects = server.effects + 1,
                                                  !.files[d] = owned]
        BY <2>1 DEF Effect
      <3>. QED  BY <3>1 DEF SessionTypes
    <2>4. CASE Effect(r, "open", d, Nobody, r)
      <3>1. server'.files[d] = r /\ history' = Append(history, Row("open", r, d))
        BY <2>4 DEF Effect, SessionTypes
      <3>. QED  BY <2>2, <2>3, <3>1
    <2>5. CASE Effect(r, "read", d, r, r)
      <3>1. /\ server'.files[d] = r /\ history' = Append(history, Row("read", r, d))
            /\ server.files[d] = r
        BY <2>5 DEF Effect, SessionTypes
      <3>. QED  BY <2>2, <2>3, <3>1
    <2>6. CASE Effect(r, "close", d, r, Nobody)
      <3>1. /\ server'.files[d] = Nobody /\ history' = Append(history, Row("close", r, d))
            /\ server.files[d] = r
        BY <2>6 DEF Effect, SessionTypes
      <3>. QED  BY <2>2, <2>3, <3>1
    <2>. QED  BY <2>1, <2>4, <2>5, <2>6
  <1>. DEFINE e == Row(kind, r, d)
  <1>2. e \in Rows /\ e.kind = kind /\ e.id = r /\ e.fd = d
    BY RowTypes DEF Row
  <1>3. /\ Data' = Data \cup {n} /\ Log' = Log \cup {e}
        /\ DOMAIN history' = DOMAIN history \cup {n} /\ history'[n] = e
        /\ \A i \in DOMAIN history : i < n /\ history'[i] = history[i]
        /\ \A j \in DOMAIN history' : Replied(j)' => j \in DOMAIN history /\ Replied(j)
    <2>1. e.kind \notin {"answer", "error"} /\ e.kind \in {"open", "read", "close"}
      BY <1>2
    <2>2. history' = Append(history, e)
      BY <1>1
    <2>. HIDE DEF e
    <2>3. e \in Rows
      BY <1>2
    <2>. QED  BY <2>1, <2>2, <2>3, RowAdded
  <1>4. Requests \subseteq Nat \ {0}
    <2>1. \A i \in DOMAIN Waves : Waves[i] \subseteq Nat \ {0}
      BY SessionAssumption
    <2>. QED  BY <2>1 DEF Requests
  <1>5. r # Nobody
    BY <1>4 DEF Nobody
  <1>6. r \in Asked
    BY <1>1 DEF Logging
  <1>7. PICK i \in DOMAIN history : history[i] = Row("request", r, 0)
    BY <1>6 DEF Asked, Log
  <1>8. kind # "open" => Row("open", r, d) \in Log
    BY <1>1, <1>5 DEF Enclosed
  <1>9. \A x \in Data : x \in DOMAIN history
    BY DEF Data
  <1>10. \A j \in DOMAIN history : Replied(j) => history[j].id # r
    BY <1>1 DEF Enclosed
  <1>. HIDE DEF e, n
  <1>11. \A x \in Data' : \E k \in DOMAIN history' :
            k < x /\ history'[k] = Row("request", history'[x].id, 0)
    <2>1. CASE TRUE
      <3>1. \E k \in DOMAIN history' : k < n /\ history'[k] = Row("request", history'[n].id, 0)
        BY <1>2, <1>3, <1>7
      <3>2. \A x \in Data : \E k \in DOMAIN history' :
               k < x /\ history'[k] = Row("request", history'[x].id, 0)
        BY <1>3, <1>9 DEF Enclosed
      <3>. QED  BY <1>3, <3>1, <3>2
    <2>. QED  BY <2>1
  <1>12. \A x \in Data' : history'[x].kind # "open" => \E o \in DOMAIN history' :
            o < x /\ history'[o] = Row("open", history'[x].id, history'[x].fd)
    <2>1. history'[n].kind # "open" => \E o \in DOMAIN history' :
             o < n /\ history'[o] = Row("open", history'[n].id, history'[n].fd)
      <3>1. ASSUME kind # "open"
            PROVE  \E o \in DOMAIN history : history[o] = Row("open", r, d)
        BY <1>8, <3>1 DEF Log
      <3>. QED  BY <1>2, <1>3, <3>1
    <2>2. \A x \in Data : history'[x].kind # "open" => \E o \in DOMAIN history' :
             o < x /\ history'[o] = Row("open", history'[x].id, history'[x].fd)
      BY <1>3, <1>9 DEF Enclosed
    <2>. QED  BY <1>3, <2>1, <2>2
  <1>13. \A x \in Data', j \in DOMAIN history' :
            Replied(j)' /\ history'[j].id = history'[x].id => x < j
    BY <1>2, <1>3, <1>9, <1>10 DEF Enclosed
  <1>14. /\ \A j \in DOMAIN history' : Replied(j)' => server'.work[history'[j].id] = "done"
         /\ \A k \in DOMAIN pipes'.answers : server'.work[pipes'.answers[k].id] = "done"
    BY <1>1, <1>3 DEF Enclosed
  <1>15. \A f \in Fds : server'.files[f] # Nobody => Row("open", server'.files[f], f) \in Log'
    <2>1. ASSUME server'.files[d] = r, r # Nobody PROVE Row("open", r, d) \in Log'
      <3>1. CASE kind = "open"
        BY <1>3, <3>1 DEF e
      <3>2. CASE kind # "open"
        BY <1>3, <1>8, <3>2
      <3>. QED  BY <3>1, <3>2
    <2>2. \A f \in Fds \ {d} : server'.files[f] = server.files[f]
      BY <1>1
    <2>. QED  BY <1>1, <1>3, <2>1, <2>2 DEF Enclosed
  <1>. QED  BY <1>11, <1>12, <1>13, <1>14, <1>15 DEF Enclosed

(* The rows of a call stay enclosed by its request and its answer. *)
LEMMA EnclosedStep ==
    ASSUME SessionTypes, RunTypes, Logging, TakenOnce, Enclosed, [Next]_vars
    PROVE  Enclosed'
  <1>1. ASSUME history' = history
        PROVE  /\ Data' = Data /\ Log' = Log
               /\ \A j \in DOMAIN history : Replied(j)' <=> Replied(j)
    BY <1>1 DEF Data, Log, Replied
  <1>2. CASE UNCHANGED <<history, pipes.answers, server.work, server.files>>
    BY <1>1, <1>2 DEF Enclosed
  <1>3. CASE Take
    <2>. DEFINE r == Head(pipes.forwarded)
    <2>1. /\ pipes.forwarded # <<>> /\ pipes'.answers = pipes.answers
          /\ server'.files = server.files /\ history' = history
          /\ \A q \in Requests \ {r} : server'.work[q] = server.work[q]
      BY <1>3 DEF Take, SessionTypes
    <2>2. server.work[r] = "none"
      BY <2>1, SequenceSteps DEF TakenOnce, SessionTypes
    <2>3. \A q \in Requests : server.work[q] = "done" => server'.work[q] = "done"
      BY <2>1, <2>2
    <2>4. /\ \A j \in DOMAIN history : history[j].id \in Requests
          /\ \A i \in DOMAIN pipes.answers : pipes.answers[i].id \in Requests
      <3>1. \A j \in DOMAIN history : history[j] \in Rows
        BY DEF SessionTypes
      <3>2. \A i \in DOMAIN pipes.answers : pipes.answers[i] \in Replies
        BY DEF SessionTypes
      <3>. QED  BY <3>1, <3>2, RowTypes DEF Rows
    <2>. QED  BY <1>1, <2>1, <2>3, <2>4 DEF Enclosed
  <1>4. ASSUME NEW r \in Requests, Answer(r) PROVE Enclosed'
    <2>1. PICK kind \in {"answer", "error"} :
            pipes' = [pipes EXCEPT !.answers = Append(pipes.answers, Row(kind, r, 0))]
      BY <1>4 DEF Answer
    <2>2. /\ pipes'.answers = Append(pipes.answers, Row(kind, r, 0))
          /\ server'.files = server.files /\ history' = history
          /\ server'.work[r] = "done"
          /\ \A q \in Requests : server.work[q] = "done" => server'.work[q] = "done"
      BY <1>4, <2>1 DEF Answer, SessionTypes
    <2>3. \A i \in DOMAIN pipes'.answers :
              \/ pipes'.answers[i].id = r
              \/ i \in DOMAIN pipes.answers /\ pipes'.answers[i] = pipes.answers[i]
      BY <2>2, SequenceSteps DEF SessionTypes, Row
    <2>4. /\ \A j \in DOMAIN history : history[j].id \in Requests
          /\ \A i \in DOMAIN pipes.answers : pipes.answers[i].id \in Requests
      <3>1. \A j \in DOMAIN history : history[j] \in Rows
        BY DEF SessionTypes
      <3>2. \A i \in DOMAIN pipes.answers : pipes.answers[i] \in Replies
        BY DEF SessionTypes
      <3>. QED  BY <3>1, <3>2, RowTypes DEF Rows
    <2>. QED  BY <1>1, <2>2, <2>3, <2>4 DEF Enclosed
  <1>. QED  BY <1>2, <1>3, <1>4, EnclosedRequest, EnclosedAnswer, EnclosedCall, EvidenceSteps

-----------------------------------------------------------------------------
(* The numbers are well founded. *)
LEMMA LeastNumber ==
    ASSUME NEW S \in SUBSET Nat, S # {}
    PROVE  \E n \in S : \A m \in S : n <= m
  <1>. DEFINE R == {p \in Nat \X Nat : p[1] < p[2]}
  <1>1. IsWellFoundedOn(R, Nat)
    BY NatLessThanWellFounded DEF OpToRel
  <1>2. PICK n \in S : \A m \in S : ~(<<m, n>> \in R)
    <2>. HIDE DEF R
    <2>. QED  BY <1>1, WFMin
  <1>3. \A m \in Nat, k \in Nat : m < k => <<m, k>> \in R
    OBVIOUS
  <1>. HIDE DEF R
  <1>4. \A m \in S : ~(m < n)
    BY <1>2, <1>3
  <1>. QED  BY <1>4

(* Min and Max of some rows of the log are among them, and bound them. *)
LEMMA FirstAndLast ==
    ASSUME history \in Seq(Rows), NEW S \in SUBSET DOMAIN history, S # {}
    PROVE  /\ Min(S) \in S /\ \A i \in S : Min(S) <= i
           /\ Max(S) \in S /\ \A i \in S : i <= Max(S)
  <1>1. /\ DOMAIN history = 1 .. Len(history) /\ Len(history) \in Nat
        /\ \A i \in S : i \in Nat /\ i <= Len(history)
    OBVIOUS
  <1>2. \E n \in S : \A m \in S : n <= m
    BY <1>1, LeastNumber
  <1>. DEFINE D == {Len(history) - i : i \in S}
  <1>3. \E n \in S : \A m \in S : n >= m
    <2>1. D \in SUBSET Nat /\ D # {}
      BY <1>1
    <2>2. PICK k \in D : \A m \in D : k <= m
      <3>. HIDE DEF D
      <3>. QED  BY <2>1, LeastNumber
    <2>3. PICK n \in S : k = Len(history) - n
      BY <2>2
    <2>4. \A m \in S : Len(history) - n <= Len(history) - m
      BY <2>2, <2>3
    <2>. QED  BY <1>1, <2>4
  <1>4. Min(S) \in S /\ \A i \in S : Min(S) <= i
    BY <1>2 DEF Min
  <1>5. Max(S) \in S /\ \A i \in S : Max(S) >= i
    BY <1>3 DEF Max
  <1>. QED  BY <1>1, <1>4, <1>5

(* A strategy that names the truth of all it is asked misses nothing. *)
LEMMA TruthIsFair ==
    ASSUME NEW labelled, NEW candidates,
           \A e \in labelled : Oracle(e) \in candidates[e]
    PROVE  /\ Evaluate(candidates, labelled).unattributed = 0
           /\ Evaluate(candidates, labelled).wrong_candidates = 0
  <1>1. {e \in labelled : candidates[e] = {}} = {}
    OBVIOUS
  <1>2. LET right == {e \in labelled : candidates[e] = {Oracle(e)}}
            among == {e \in labelled : Oracle(e) \in candidates[e]} \ right
            none == {e \in labelled : candidates[e] = {}}
        IN  labelled \ (right \cup among \cup none) = {}
    OBVIOUS
  <1>. QED  BY <1>1, <1>2, FS_EmptySet DEF Evaluate

(* The window of an answered call covers its system calls. *)
LEMMA WindowsCover ==
    ASSUME SessionTypes, Enclosed, NEW e \in Data, Ended(Oracle(e))
    PROVE  Oracle(e) \in Covering(e)
  <1>. DEFINE r == history[e].id
              asked == RowsOf(r, {"request"})
              replied == RowsOf(r, {"answer", "error"})
  <1>1. e \in DOMAIN history /\ DOMAIN history \subseteq Nat /\ history \in Seq(Rows)
    BY DEF Data, SessionTypes
  <1>2. PICK i \in DOMAIN history : i < e /\ history[i] = Row("request", r, 0)
    BY DEF Enclosed
  <1>3. i \in asked /\ r \in Calls
    BY <1>2 DEF RowsOf, Calls, Row
  <1>4. Min(asked) <= i /\ Min(asked) \in DOMAIN history
    <2>1. asked \subseteq DOMAIN history
      BY DEF RowsOf
    <2>. QED  BY <1>1, <1>3, <2>1, FirstAndLast
  <1>5. replied # {} /\ replied \subseteq DOMAIN history
    BY DEF Ended, Oracle, RowsOf
  <1>6. Max(replied) \in replied
    BY <1>1, <1>5, FirstAndLast
  <1>7. e < Max(replied)
    BY <1>6 DEF RowsOf, Replied, Enclosed
  <1>8. Start(r) = Min(asked) /\ End(r) = Max(replied)
    BY DEF Start, End
  <1>9. Start(r) <= e /\ e <= End(r)
    BY <1>1, <1>2, <1>4, <1>5, <1>6, <1>7, <1>8
  <1>. QED  BY <1>3, <1>9 DEF Covering, Oracle

(* Where a descriptor number was opened once, its epoch is a system call of  *)
(* the call that uses it.                                                    *)
LEMMA EpochsCover ==
    ASSUME SessionTypes, Enclosed, NEW e \in Data, Ended(Oracle(e)),
           Cardinality(Opens(history[e].fd)) = 1
    PROVE  Oracle(e) \in TetragonBest(e)
  <1>1. CASE ~HasEpoch(e)
    BY <1>1, WindowsCover DEF TetragonBest, Window
  <1>2. CASE HasEpoch(e)
    <2>. DEFINE opens == Opens(history[e].fd)
    <2>1. e \in DOMAIN history /\ history \in Seq(Rows)
      BY DEF Data, SessionTypes
    <2>2. PICK o \in DOMAIN history :
             o < e /\ history[o] = Row("open", history[e].id, history[e].fd)
      BY <1>2 DEF HasEpoch, Enclosed
    <2>3. o \in Data /\ o \in opens /\ Oracle(o) = Oracle(e)
      BY <2>2 DEF Data, Opens, Row, Oracle
    <2>4. opens \subseteq DOMAIN history
      BY DEF Opens, Data
    <2>5. opens = {o}
      <3>1. IsFiniteSet(opens)
        <4>1. IsFiniteSet(1 .. Len(history))
          BY <2>1, FS_Interval
        <4>. QED  BY <2>1, <2>4, <4>1, FS_Subset
      <3>. QED  BY <2>3, <3>1, FS_Singleton
    <2>6. Epoch(history[e].fd) = o
      <3>1. Min(opens) \in opens
        BY <2>1, <2>3, <2>4, FirstAndLast
      <3>. QED  BY <2>5, <3>1 DEF Epoch
    <2>7. Oracle(e) \in Covering(o)
      BY <2>3, WindowsCover
    <2>. QED  BY <1>2, <2>6, <2>7 DEF TetragonBest, TetragonFd
  <1>. QED  BY <1>1, <1>2

(* Every system call of an answered call lies in the window that the proxy   *)
(* logged for it, whatever was killed and however calls overlap: request_    *)
(* window, CamFlow's and OpenTelemetry's strategy leave none unattributed    *)
(* and never miss the truth, nor does tetragon_best where a descriptor       *)
(* number was opened once.                                                   *)
THEOREM WindowsHold == Spec => []WindowsHoldTruth
  <1>1. Init => WindowInv
    <2>1. ASSUME Init PROVE TakenOnce /\ Enclosed
      <3>1. /\ history = <<>> /\ pipes.requests = <<>> /\ pipes.forwarded = <<>>
            /\ pipes.answers = <<>> /\ \A r \in Requests : server.work[r] = "none"
            /\ \A d \in Fds : server.files[d] = Nobody
        BY <2>1 DEF Init, SessionInit
      <3>2. Data = {}
        BY <3>1 DEF Data
      <3>. QED  BY <3>1, <3>2 DEF TakenOnce, Enclosed
    <2>. QED  BY <2>1, ExperimentInit DEF WindowInv
  <1>2. WindowInv /\ [Next]_vars => WindowInv'
    BY TypesStep, PrecededSteps, LoggingStep, AnsweringStep, LeavingStep, StagingStep,
       WritingStep, TakenOnceStep, EnclosedStep DEF WindowInv, ExperimentInv
  <1>3. WindowInv => WindowsHoldTruth
    <2>. SUFFICES ASSUME WindowInv PROVE WindowsHoldTruth
      OBVIOUS
    <2>. SessionTypes /\ Enclosed
      BY DEF WindowInv, ExperimentInv
    <2>. DEFINE answered == {e \in Data : Ended(Oracle(e))}
                steady == {e \in answered : Cardinality(Opens(history[e].fd)) = 1}
    <2>1. \A e \in answered : Oracle(e) \in [x \in answered |-> Window(x)][e]
      BY WindowsCover DEF Window
    <2>2. \A e \in steady : Oracle(e) \in [x \in steady |-> TetragonBest(x)][e]
      BY EpochsCover
    <2>3. /\ Evaluate([x \in answered |-> Window(x)], answered).unattributed = 0
          /\ Evaluate([x \in answered |-> Window(x)], answered).wrong_candidates = 0
      <3>. HIDE DEF answered
      <3>. QED  BY <2>1, TruthIsFair
    <2>4. /\ Evaluate([x \in steady |-> TetragonBest(x)], steady).unattributed = 0
          /\ Evaluate([x \in steady |-> TetragonBest(x)], steady).wrong_candidates = 0
      <3>. HIDE DEF steady
      <3>. QED  BY <2>2, TruthIsFair
    <2>. QED  BY <2>3, <2>4 DEF WindowsHoldTruth
  <1>. QED  BY <1>1, <1>2, <1>3, PTL DEF Spec
=============================================================================
