----------------------------- MODULE McpSession -----------------------------
(***************************************************************************)
(* One MCP session over stdio: a client, the recording proxy it starts     *)
(* (proxy.py), and the traced server the proxy starts.                     *)
(*                                                                         *)
(* The client is the replay of run.py, which keeps every call of a wave    *)
(* in flight and escalates when the proxy does not stop; the loop of       *)
(* run_openai_agent.py, which makes one call at a time and waits without   *)
(* bound; or Codex, which is not waited for once it has gone.  Timeouts    *)
(* may fire whenever what they wait for has not happened.                  *)
(*                                                                         *)
(* history merges protocol.jsonl and the trace by time: rows of requests,  *)
(* answers and errors where the proxy logged them, system calls where the  *)
(* server made them.                                                       *)
(***************************************************************************)
EXTENDS Naturals, Sequences, SequencesExt

CONSTANTS Waves,          \* the sets of calls made at once, in order
          Fds,            \* descriptor numbers
          MaxEffects      \* bound on the system calls of the server

ASSUME SessionAssumption ==
    Waves \in Seq(SUBSET (Nat \ {0})) /\ Fds \subseteq Nat \ {0}

Requests == UNION {Waves[i] : i \in DOMAIN Waves}
Drivers == {"replay", "openai", "codex"}
Nobody == 0

VARIABLES driver,     \* who the client is
          client,     \* phase, calls asked and answered, whether one failed
          pipes,      \* what is in the four pipes, which inputs are open
          proxy,      \* main's phase and exit code, its two pumps
          server,     \* whether it is traced and lives, its calls and open files
          history

sessionVars == <<driver, client, pipes, proxy, server, history>>

SessionInit ==
    /\ driver \in Drivers
    /\ client = [phase |-> "calling", asked |-> {}, answered |-> {}, failed |-> FALSE]
    /\ pipes = [requests |-> <<>>, forwarded |-> <<>>, answers |-> <<>>,
                relayed |-> <<>>, open |-> TRUE, serverOpen |-> TRUE]
    /\ proxy = [phase |-> "serving", code |-> 0, request |-> "on", response |-> "on"]
    /\ \E traced \in BOOLEAN :
          /\ driver = "openai" => traced
          /\ server = [traced |-> traced, live |-> TRUE, code |-> 0, effects |-> 0,
                       work |-> [r \in Requests |-> "none"],
                       files |-> [d \in Fds |-> Nobody]]
    /\ history = <<>>

Row(kind, r, d) == [kind |-> kind, id |-> r, fd |-> d]

-----------------------------------------------------------------------------
(* The client. *)

Pending == client.asked \ client.answered

(* The first wave that is not answered. *)
Current == CHOOSE i \in DOMAIN Waves :
              /\ ~(Waves[i] \subseteq client.answered)
              /\ \A j \in 1 .. i - 1 : Waves[j] \subseteq client.answered

AllAnswered == Requests \subseteq client.answered

Ask(r) ==
    /\ client.phase = "calling" /\ ~client.failed /\ ~AllAnswered
    /\ r \in Waves[Current] \ client.asked
    /\ driver = "openai" => Pending = {}
    /\ client' = [client EXCEPT !.asked = @ \cup {r}]
    /\ pipes' = [pipes EXCEPT !.requests = Append(@, r)]
    /\ UNCHANGED <<driver, proxy, server, history>>

(* An error fails the replay; the agents read it as any other result. *)
Receive ==
    /\ client.phase = "calling" /\ pipes.relayed # <<>>
    /\ LET m == Head(pipes.relayed) IN
       client' = IF m.id \in Pending
                 THEN [client EXCEPT !.answered = @ \cup {m.id},
                          !.failed = @ \/ (m.kind = "error" /\ driver = "replay")]
                 ELSE client
    /\ pipes' = [pipes EXCEPT !.relayed = Tail(@)]
    /\ UNCHANGED <<driver, proxy, server, history>>

(* Wrong: a call is waited for as long as the proxy lives. *)
CallWaits ==
    /\ client.phase = "calling" /\ ~client.failed /\ Pending # {}
    /\ proxy.phase = "exited" /\ pipes.relayed = <<>>
    /\ client' = [client EXCEPT !.failed = TRUE]
    /\ UNCHANGED <<driver, pipes, proxy, server, history>>

(* A call of the replay takes more than 60 s, or the proxy is gone. *)
CallFails ==
    /\ client.phase = "calling" /\ ~client.failed /\ Pending # {}
    /\ driver = "replay" \/ (proxy.phase = "exited" /\ pipes.relayed = <<>>)
    /\ client' = [client EXCEPT !.failed = TRUE]
    /\ UNCHANGED <<driver, pipes, proxy, server, history>>

(* Codex and the model behind run_openai_agent.py may stop asking. *)
CloseInput ==
    /\ client.phase = "calling"
    /\ \/ AllAnswered \/ client.failed
       \/ driver = "codex"
       \/ driver = "openai" /\ Pending = {}
    /\ client' = [client EXCEPT !.phase = "closed"]
    /\ pipes' = [pipes EXCEPT !.open = FALSE]
    /\ UNCHANGED <<driver, proxy, server, history>>

(* SIGTERM makes the proxy close the input of the server, no more.  The      *)
(* replay sends it after 5 s, run_openai_agent.py at once.                   *)
TerminateProxy ==
    /\ client.phase = "closed" /\ driver # "codex" /\ proxy.phase # "exited"
    /\ client' = [client EXCEPT !.phase = "terminated"]
    /\ pipes' = [pipes EXCEPT !.serverOpen = FALSE]
    /\ UNCHANGED <<driver, proxy, server, history>>

KillProxy ==
    /\ client.phase = "terminated" /\ driver = "replay" /\ proxy.phase # "exited"
    /\ client' = [client EXCEPT !.phase = "killed"]
    /\ proxy' = [proxy EXCEPT !.phase = "exited", !.code = 1]
    /\ pipes' = [pipes EXCEPT !.serverOpen = FALSE]
    /\ UNCHANGED <<driver, server, history>>

(* Wrong: the exit status of the proxy is not looked at. *)
LeaveUnchecked ==
    /\ client.phase \in {"closed", "terminated", "killed"}
    /\ driver = "codex" \/ proxy.phase = "exited"
    /\ client' = [client EXCEPT !.phase = "left"]
    /\ UNCHANGED <<driver, pipes, proxy, server, history>>

Leave ==
    /\ client.phase \in {"closed", "terminated", "killed"}
    /\ driver = "codex" \/ proxy.phase = "exited"
    /\ client' = [client EXCEPT !.phase = "left",
                     !.failed = @ \/ (driver = "replay" /\ proxy.code # 0)]
    /\ UNCHANGED <<driver, pipes, proxy, server, history>>

ClientStep ==
    \/ \E r \in Requests : Ask(r)
    \/ Receive \/ CallFails \/ CloseInput \/ TerminateProxy \/ KillProxy \/ Leave

-----------------------------------------------------------------------------
(* The proxy: each pump logs a line and passes it on, without an await      *)
(* between the two.                                                         *)

Pumping == proxy.phase \in {"serving", "ending", "draining"}

ServerReads == server.live /\ pipes.serverOpen

(* Wrong: a request is logged when the server has read it. *)
LogAfterDrain ==
    LET r == Head(pipes.requests)
        sent == server.work[r] # "none" \/ Contains(pipes.forwarded, r)
    IN  /\ Pumping /\ proxy.request = "on" /\ pipes.requests # <<>>
        /\ IF sent
           THEN /\ history' = Append(history, Row("request", r, 0))
                /\ pipes' = [pipes EXCEPT !.requests = Tail(@)]
           ELSE /\ pipes' = [pipes EXCEPT !.forwarded = Append(@, r)]
                /\ UNCHANGED history
        /\ UNCHANGED <<driver, client, proxy, server>>

(* A line for a server that has gone, or whose input SIGTERM has closed, is  *)
(* dropped or ends the pump.                                                 *)
PumpRequest ==
    LET r == Head(pipes.requests) IN
    /\ Pumping /\ proxy.request = "on" /\ pipes.requests # <<>>
    /\ history' = Append(history, Row("request", r, 0))
    /\ pipes' = [pipes EXCEPT !.requests = Tail(@),
                     !.forwarded = IF ServerReads THEN Append(@, r) ELSE @]
    /\ \/ UNCHANGED proxy
       \/ ~ServerReads /\ proxy' = [proxy EXCEPT !.request = "failed"]
    /\ UNCHANGED <<driver, client, server>>

EndOfRequests ==
    /\ Pumping /\ proxy.request = "on" /\ pipes.requests = <<>> /\ ~pipes.open
    /\ proxy' = [proxy EXCEPT !.request = "ended"]
    /\ pipes' = [pipes EXCEPT !.serverOpen = FALSE]
    /\ UNCHANGED <<driver, client, server, history>>

(* The pipe to a client that has gone is broken. *)
PumpResponse ==
    LET m == Head(pipes.answers) IN
    /\ Pumping /\ proxy.response = "on" /\ pipes.answers # <<>>
    /\ history' = Append(history, m)
    /\ pipes' = [pipes EXCEPT !.answers = Tail(@), !.relayed = Append(@, m)]
    /\ proxy' = IF client.phase = "left" THEN [proxy EXCEPT !.response = "failed"]
                ELSE proxy
    /\ UNCHANGED <<driver, client, server>>

EndOfResponses ==
    /\ Pumping /\ proxy.response = "on" /\ ~server.live /\ pipes.answers = <<>>
    /\ proxy' = [proxy EXCEPT !.response = "ended"]
    /\ UNCHANGED <<driver, client, pipes, server, history>>

(* main: wait for the first of the pumps and the server, for the server up   *)
(* to 10 s, and for the answers it left.                                     *)
Main ==
    LET failed == proxy.request = "failed" \/ proxy.response = "failed"
        To(phase, code) == proxy' = [proxy EXCEPT !.phase = phase, !.code = code]
    IN  /\ \/ /\ proxy.phase = "serving"
              /\ proxy.request # "on" \/ proxy.response # "on" \/ ~server.live
              /\ IF failed THEN To("cleaning", 1) ELSE To("ending", 0)
           \/ /\ proxy.phase = "ending"
              /\ IF server.live THEN To("cleaning", 1) ELSE To("draining", 0)
           \/ /\ proxy.phase = "draining" /\ proxy.response # "on"
              /\ To("cleaning", IF proxy.response = "failed" THEN 1 ELSE server.code)
           \/ /\ proxy.phase = "cleaning" /\ ~server.live
              /\ To("exited", proxy.code)
        /\ UNCHANGED <<driver, client, pipes, server, history>>

ProxyStep == PumpRequest \/ EndOfRequests \/ PumpResponse \/ EndOfResponses \/ Main

-----------------------------------------------------------------------------
(* The server: what src/ relies on it for. *)

Take ==
    /\ server.live /\ pipes.forwarded # <<>>
    /\ server' = [server EXCEPT !.work[Head(pipes.forwarded)] = "running"]
    /\ pipes' = [pipes EXCEPT !.forwarded = Tail(@)]
    /\ UNCHANGED <<driver, client, proxy, history>>

(* A system call is in the trace of a traced server and nowhere else. *)
Effect(r, kind, d, owner, owned) ==
    /\ server.live /\ server.traced /\ server.work[r] = "running"
    /\ server.effects < MaxEffects /\ server.files[d] = owner
    /\ server' = [server EXCEPT !.effects = @ + 1, !.files[d] = owned]
    /\ history' = Append(history, Row(kind, r, d))
    /\ UNCHANGED <<driver, client, pipes, proxy>>

SystemCall(r) == \E d \in Fds : \/ Effect(r, "open", d, Nobody, r)
                                \/ Effect(r, "read", d, r, r)
                                \/ Effect(r, "close", d, r, Nobody)

Answer(r) ==
    /\ server.live /\ server.work[r] = "running"
    /\ server' = [server EXCEPT !.work[r] = "done"]
    /\ \E kind \in {"answer", "error"} :
          pipes' = [pipes EXCEPT !.answers = Append(@, Row(kind, r, 0))]
    /\ UNCHANGED <<driver, client, proxy, history>>

(* It exits when its input has ended and its calls are done, by itself at    *)
(* any time, or when the proxy terminates it.  The child of the proxy is     *)
(* strace when the session is captured: with -o it ignores SIGTERM, and the  *)
(* server it runs is not signalled.                                          *)
Exit(code) == /\ server.live
              /\ server' = [server EXCEPT !.live = FALSE, !.code = code]
              /\ UNCHANGED <<driver, client, pipes, proxy, history>>

Finish == /\ ~pipes.serverOpen /\ pipes.forwarded = <<>>
          /\ \A r \in Requests : server.work[r] # "running"
          /\ Exit(0)
Crash == Exit(1)
Terminated == proxy.phase = "cleaning" /\ ~server.traced /\ Exit(1)

ServerStep == \/ Take \/ Finish \/ Crash
              \/ \E r \in Requests : SystemCall(r) \/ Answer(r)

=============================================================================
