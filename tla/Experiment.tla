----------------------------- MODULE Experiment -----------------------------
(***************************************************************************)
(* One experiment: run.py drives a session, analyses what it recorded and  *)
(* writes the manifest; matrix.py starts it, bounds its time, kills its    *)
(* process group and gathers its row.  run_openai_agent.py drives a        *)
(* session and nothing more.                                               *)
(***************************************************************************)
EXTENDS Baselines

VARIABLES run,         \* stage, status, and how much history analyze.py read
          manifest,    \* manifest.json
          matrix,      \* where matrix.py is with this case
          row          \* the row it adds to summary.json

vars == <<sessionVars, run, manifest, matrix, row>>
harness == <<run, manifest, matrix, row>>

NoRow == [code |-> 0, manifest |-> "none"]

Init ==
    /\ SessionInit
    /\ run = [stage |-> "driving", status |-> "running", analysed |-> 0]
    /\ manifest = "none" /\ matrix = "waiting" /\ row = NoRow

Client == run.stage = "driving" /\ ClientStep /\ UNCHANGED harness
Proxy == ProxyStep /\ UNCHANGED harness
Server == ServerStep /\ UNCHANGED harness
ServerTerminated == Terminated /\ UNCHANGED harness

-----------------------------------------------------------------------------
(* run.py *)

(* validate_agent: every expected call completed, no error in the protocol. *)
ValidAgent == AllAnswered /\ \A r \in Requests : RowsOf(r, {"error"}) = {}

(* Where a stage that passed may lead: a run without capture is not          *)
(* analysed, one that is not instrumented is neither attributed nor scored.  *)
After(stage) ==
    CASE stage = "driving" -> IF server.traced THEN {"analyze"} ELSE {"manifest"}
      [] stage = "analyze" -> {"attribute", "manifest"}
      [] stage = "attribute" -> {"score"}
      [] OTHER -> {"manifest"}

(* Any stage may also fail of itself.  A failure goes to the manifest. *)
Stage(stage, passes) ==
    /\ run.stage = stage /\ driver # "openai"
    /\ \/ /\ passes
          /\ \E next \in After(stage) :
                run' = [run EXCEPT !.stage = next,
                   !.status = IF next = "manifest" THEN "complete" ELSE @,
                   !.analysed = IF stage = "analyze" THEN Len(history) ELSE @]
       \/ run' = [run EXCEPT !.stage = "manifest", !.status = "failed"]
    /\ UNCHANGED <<sessionVars, manifest, matrix, row>>

Driven == /\ client.phase = "left"
          /\ Stage("driving", ~client.failed /\ (driver = "codex" => ValidAgent))

(* write_text empties the file before it fills it. *)
WriteManifest ==
    /\ run.stage = "manifest"
    /\ \/ manifest = "none" /\ manifest' = "torn" /\ UNCHANGED run
       \/ /\ manifest = "torn" /\ manifest' = run.status
          /\ run' = [run EXCEPT !.stage = "ended"]
    /\ UNCHANGED <<sessionVars, matrix, row>>

RunStep == \/ Driven \/ Stage("analyze", AnalysisPasses)
           \/ Stage("attribute", TRUE) \/ Stage("score", TRUE) \/ WriteManifest

-----------------------------------------------------------------------------
(* matrix.py, which runs only replays, all of them captured *)

OfMatrix == driver = "replay" /\ server.traced

TimeOut ==
    /\ OfMatrix /\ matrix = "waiting" /\ run.stage # "ended"
    /\ matrix' = "stopping"
    /\ UNCHANGED <<sessionVars, run, manifest, row>>

(* SIGTERM ends run.py where it is; the proxy closes the server's input.     *)
(* The server is in the group too and may die of it (Crash).                 *)
StopGroup ==
    /\ matrix = "stopping" /\ matrix' = "killing"
    /\ run' = [run EXCEPT !.stage = IF @ = "ended" THEN @ ELSE "dead"]
    /\ client' = [client EXCEPT !.phase = "left"]
    /\ pipes' = [pipes EXCEPT !.open = FALSE, !.serverOpen = FALSE]
    /\ UNCHANGED <<driver, proxy, server, history, manifest, row>>

KillGroup ==
    /\ matrix = "killing" /\ matrix' = "updating"
    /\ proxy' = [proxy EXCEPT !.phase = "exited", !.code = 1]
    /\ server' = [server EXCEPT !.live = FALSE, !.code = 1]
    /\ UNCHANGED <<driver, client, pipes, history, run, manifest, row>>

(* Wrong: what the killed run left in its manifest is kept. *)
KeepManifest ==
    /\ matrix = "updating"
    /\ matrix' = "done" /\ row' = [code |-> 124, manifest |-> manifest]
    /\ UNCHANGED <<sessionVars, run, manifest>>

(* Half a manifest cannot be read: the exception ends the whole matrix. *)
UpdateManifest ==
    /\ matrix = "updating"
    /\ IF manifest = "torn"
       THEN matrix' = "aborted" /\ UNCHANGED <<manifest, row>>
       ELSE /\ matrix' = "done" /\ manifest' = "failed"
            /\ row' = [code |-> 124, manifest |-> "failed"]
    /\ UNCHANGED <<sessionVars, run>>

GatherRow ==
    /\ OfMatrix /\ matrix = "waiting" /\ run.stage = "ended"
    /\ matrix' = "done"
    /\ row' = [code |-> IF run.status = "complete" THEN 0 ELSE 1,
               manifest |-> manifest]
    /\ UNCHANGED <<sessionVars, run, manifest>>

MatrixStep == TimeOut \/ StopGroup \/ KillGroup \/ UpdateManifest \/ GatherRow

Next == Client \/ Proxy \/ Server \/ ServerTerminated \/ RunStep \/ MatrixStep

(* Event loops and timers go on, the one of matrix.py that ends in SIGKILL   *)
(* among them, and SIGTERM ends a server that is not traced: none of them    *)
(* handles it.  Nothing else is assumed of a server, which may hang at any   *)
(* time, nor of the matrix.                                                  *)
Fairness ==
    /\ WF_vars(Client) /\ WF_vars(Proxy)
    /\ WF_vars(ServerTerminated) /\ WF_vars(KillGroup)

Spec == Init /\ [][Next]_vars /\ Fairness

-----------------------------------------------------------------------------
(* A replay is analysed when its server has gone and its trace is whole,     *)
(* however the proxy had to be stopped; nobody waits for the proxy of Codex. *)
AnalysisSeesWholeTrace ==
    driver = "replay" /\ run.analysed # 0 =>
        ~server.live /\ run.analysed = Len(history)

Recorded(r) == \E i, j \in DOMAIN history :
    i < j /\ history[i] = Row("request", r, 0) /\ history[j] = Row("answer", r, 0)

(* A manifest says complete only of a session whose every call and answer    *)
(* was recorded, and the row of a case has exit status 0 exactly when its    *)
(* manifest says so, also when the case ended just as its time was up.       *)
CompleteIsRecorded ==
    /\ manifest = "complete" => \A r \in Requests : Recorded(r)
    /\ matrix = "done" => (row.code = 0 <=> row.manifest = "complete")

(* A replay ends whatever its server does, for it kills a proxy that does    *)
(* not stop.  A client that has closed its input and does not kill comes to  *)
(* the end of its session when the server is not traced or has exited: the   *)
(* proxy of a traced server that hangs waits for it for ever.                *)
SessionEnds ==
    (driver = "replay" \/ (client.phase # "calling" /\ (server.traced => ~server.live)))
        ~> (client.phase = "left" /\ proxy.phase = "exited")
=============================================================================
