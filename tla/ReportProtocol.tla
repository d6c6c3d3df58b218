--------------------------- MODULE ReportProtocol ---------------------------
(***************************************************************************)
(* How an analysis is published, read and extended through three files of  *)
(* the run directory, with no lock: attribute() of                         *)
(* experiments/mcp/attribute.py writes causal-attribution.jsonl (rows),    *)
(* provenance.jsonl (graph) and causal-report.json (report), main() of     *)
(* query.py reads them, merge() of merge_graphs.py rewrites the graph.     *)
(* Any of them may run while another does, and the analyser may be killed  *)
(* or may fail between any two steps.                                      *)
(*                                                                         *)
(* write_text truncates and then writes, two steps; only the final report  *)
(* is replaced atomically (a torn report is no JSON, so to a reader it is  *)
(* one that is not valid).  Contents are told apart by the analysis they   *)
(* come from; a digest stands for the content.                             *)
(***************************************************************************)
EXTENDS Naturals, Sequences

CONSTANTS MaxAnalyses,  \* bound on the runs of attribute.py
          Queries       \* concurrent runs of query.py

ASSUME ProtocolAssumption == MaxAnalyses \in Nat

VARIABLES report, rows, graph,   \* the three files
          analyses,     \* history: per analysis, whether it found no errors
          analyser,     \* the next step of attribute()
          digests,      \* output_sha256, computed and not yet in the report
          query,        \* per query: its next step and what it has read
          merger,       \* the next step of merge() and what it has read
          retracted     \* history: analyses that failed with a valid report published

vars == <<report, rows, graph, analyses, analyser, digests, query, merger, retracted>>

Content(what, analysis) == [what |-> what, of |-> analysis]
Torn == Content("torn", 0)       \* truncated, or a prefix of what was written
Empty == Content("empty", 0)

NoReport == [valid |-> FALSE, of |-> 0, rows |-> Empty, graph |-> Empty]
Unread == [at |-> "start", report |-> NoReport, rows |-> Empty, graph |-> Empty]

Init ==
    /\ report = NoReport /\ rows = Empty /\ graph = Empty
    /\ analyses = <<>>
    /\ analyser = "done"
    /\ digests = [rows |-> Empty, graph |-> Empty]
    /\ query = [q \in Queries |-> Unread]
    /\ merger = [at |-> "start", graph |-> Empty]
    /\ retracted = {}

-----------------------------------------------------------------------------
(* attribute(): invalidate the report, empty the outputs, analyse, write     *)
(* the outputs, hash what is on disk, replace the report.                    *)
This == Len(analyses)
Step(from, to) == analyser = from /\ analyser' = to
OnlyAnalyser == UNCHANGED <<query, merger, retracted>>

(* Wrong: the old report stays until the new one replaces it. *)
KeepOldReport ==
    /\ Step("done", "empty rows")
    /\ Len(analyses) < MaxAnalyses
    /\ UNCHANGED <<report, rows, graph, analyses, digests>> /\ OnlyAnalyser

InvalidateReport ==
    /\ Step("done", "empty rows")
    /\ Len(analyses) < MaxAnalyses
    /\ report' = NoReport
    /\ UNCHANGED <<rows, graph, analyses, digests>> /\ OnlyAnalyser

EmptyRows ==
    /\ Step("empty rows", "empty graph")
    /\ rows' = Empty
    /\ UNCHANGED <<report, graph, analyses, digests>> /\ OnlyAnalyser

EmptyGraph ==
    /\ Step("empty graph", "analyse")
    /\ graph' = Empty
    /\ UNCHANGED <<report, rows, analyses, digests>> /\ OnlyAnalyser

(* The result, with or without errors; both are written out. *)
Analyse ==
    /\ Step("analyse", "truncate rows")
    /\ \E clean \in BOOLEAN : analyses' = Append(analyses, clean)
    /\ UNCHANGED <<report, rows, graph, digests>> /\ OnlyAnalyser

WriteRows ==
    /\ \/ Step("truncate rows", "write rows") /\ rows' = Torn
       \/ Step("write rows", "truncate graph") /\ rows' = Content("rows", This)
    /\ UNCHANGED <<report, graph, analyses, digests>> /\ OnlyAnalyser

WriteGraph ==
    /\ \/ Step("truncate graph", "write graph") /\ graph' = Torn
       \/ Step("write graph", "hash") /\ graph' = Content("graph", This)
    /\ UNCHANGED <<report, rows, analyses, digests>> /\ OnlyAnalyser

HashOutputs ==
    /\ Step("hash", "publish")
    /\ digests' = [rows |-> rows, graph |-> graph]
    /\ UNCHANGED <<report, rows, graph, analyses>> /\ OnlyAnalyser

(* temporary.replace(report) *)
Publish ==
    /\ Step("publish", "print")
    /\ report' = [valid |-> analyses[This], of |-> This,
                  rows |-> digests.rows, graph |-> digests.graph]
    /\ UNCHANGED <<rows, graph, analyses, digests>> /\ OnlyAnalyser

(* The report is printed, and a result with errors is then raised. *)
PrintReport ==
    /\ Step("print", IF analyses[This] THEN "done" ELSE "clear graph")
    /\ UNCHANGED <<report, rows, graph, analyses, digests>> /\ OnlyAnalyser

(* except: clear both outputs, and drop the hashes from an invalid report.   *)
ClearOutputs ==
    /\ \/ Step("clear graph", "clear rows") /\ graph' = Empty /\ UNCHANGED rows
       \/ Step("clear rows", "retract") /\ rows' = Empty /\ UNCHANGED graph
    /\ UNCHANGED <<report, analyses, digests>> /\ OnlyAnalyser

Retract ==
    /\ Step("retract", "done")
    /\ report' = NoReport
    /\ UNCHANGED <<rows, graph, analyses, digests>> /\ OnlyAnalyser

(* An exception inside the try: a malformed input, a full disk, a standard   *)
(* output that is gone.                                                      *)
Raise ==
    /\ analyser \in {"analyse", "truncate rows", "write rows", "truncate graph",
                     "write graph", "hash", "publish", "print"}
    /\ analyser' = "clear graph"
    /\ retracted' = IF report.valid THEN retracted \cup {This} ELSE retracted
    /\ UNCHANGED <<report, rows, graph, analyses, digests, query, merger>>

(* Killed; or an exception outside the try.  It may be started again. *)
Kill ==
    /\ analyser # "done" /\ analyser' = "done"
    /\ UNCHANGED <<report, rows, graph, analyses, digests>> /\ OnlyAnalyser

-----------------------------------------------------------------------------
(* query.py: a step per file access; refusing is stopping there. *)
Reads(q, place) ==
    /\ query[q].at = place
    /\ UNCHANGED <<report, rows, graph, analyses, analyser, digests, merger, retracted>>
At(q, place) == query' = [query EXCEPT ![q].at = place]

ReadReport(q) ==
    /\ Reads(q, "start")
    /\ report.valid
    /\ query' = [query EXCEPT ![q].at = "verify rows", ![q].report = report]

VerifyRows(q) ==
    /\ Reads(q, "verify rows")
    /\ rows = query[q].report.rows
    /\ At(q, "verify graph")

VerifyGraph(q) ==
    /\ Reads(q, "verify graph")
    /\ graph = query[q].report.graph
    /\ At(q, "read rows")

ReadRows(q) ==
    /\ Reads(q, "read rows")
    /\ query' = [query EXCEPT ![q].at = "read graph", ![q].rows = rows]

ReadGraph(q) ==
    /\ Reads(q, "read graph")
    /\ query' = [query EXCEPT ![q].at = "reread report", ![q].graph = graph]

(* Wrong: the report is not read again before printing. *)
PrintUnchecked(q) == Reads(q, "reread report") /\ At(q, "printed")

(* Analysis changed while reading, or print. *)
RereadReport(q) ==
    /\ Reads(q, "reread report")
    /\ report = query[q].report
    /\ At(q, "printed")

Restart(q) ==
    /\ query[q].at # "start"
    /\ query' = [query EXCEPT ![q] = Unread]
    /\ UNCHANGED <<report, rows, graph, analyses, analyser, digests, merger, retracted>>

(* What query.py needs of the files to answer when nothing else runs. *)
Queryable == report.valid /\ rows = report.rows /\ graph = report.graph

-----------------------------------------------------------------------------
(* merge_graphs.py: read the graph, truncate it, write the union. *)
MergeRead ==
    /\ merger.at = "start" /\ graph.what \in {"graph", "empty"}
    /\ merger' = [at |-> "truncate", graph |-> graph]
    /\ UNCHANGED graph
MergeTruncate ==
    /\ merger.at = "truncate"
    /\ merger' = [merger EXCEPT !.at = "write"]
    /\ graph' = Torn
MergeWrite ==
    /\ merger.at = "write"
    /\ merger' = [merger EXCEPT !.at = "merged"]
    /\ graph' = Content("merged", merger.graph.of)
Merge == /\ MergeRead \/ MergeTruncate \/ MergeWrite
         /\ UNCHANGED <<report, rows, analyses, analyser, digests, query, retracted>>

-----------------------------------------------------------------------------
Attribute == \/ InvalidateReport \/ EmptyRows \/ EmptyGraph \/ Analyse
             \/ WriteRows \/ WriteGraph \/ HashOutputs \/ Publish
             \/ PrintReport \/ ClearOutputs \/ Retract \/ Raise \/ Kill
Query(q) == \/ ReadReport(q) \/ VerifyRows(q) \/ VerifyGraph(q) \/ ReadRows(q)
            \/ ReadGraph(q) \/ RereadReport(q) \/ Restart(q)

Next == Attribute \/ Merge \/ \E q \in Queries : Query(q)
Spec == Init /\ [][Next]_vars

-----------------------------------------------------------------------------
Contents == [what : {"torn", "empty", "rows", "graph", "merged"},
             of : 0 .. MaxAnalyses]
Steps == {"done", "empty rows", "empty graph", "analyse", "truncate rows",
          "write rows", "truncate graph", "write graph", "hash", "publish",
          "print", "clear graph", "clear rows", "retract"}
Places == {"start", "verify rows", "verify graph", "read rows", "read graph",
           "reread report", "printed"}
Report == [valid : BOOLEAN, of : 0 .. MaxAnalyses, rows : Contents, graph : Contents]

(* The types of the three files and of where each of their users is.         *)
TypeOK ==
    /\ report \in Report /\ rows \in Contents /\ graph \in Contents
    /\ analyses \in Seq(BOOLEAN) /\ Len(analyses) <= MaxAnalyses
    /\ analyser \in Steps
    /\ digests \in [rows : Contents, graph : Contents]
    /\ query \in [Queries -> [at : Places, report : Report,
                              rows : Contents, graph : Contents]]
    /\ merger \in [at : {"start", "truncate", "write", "merged"}, graph : Contents]
    /\ retracted \subseteq 1 .. MaxAnalyses

(* Nothing but attribute.py has written the graph; and attribute.py has not  *)
(* failed after it published a valid report.                                 *)
Unmerged == merger.at \in {"start", "truncate"}
Undisturbed == Unmerged /\ retracted = {}

IsAnalysis(n, someRows, someGraph) ==
    /\ n \in DOMAIN analyses /\ analyses[n]
    /\ someRows = Content("rows", n) /\ someGraph = Content("graph", n)
PrintedIsAnalysis == \A q \in Queries : query[q].at = "printed" =>
    IsAnalysis(query[q].report.of, query[q].rows, query[q].graph)

(* A valid report vouches for what is on disk: both files are whole, of the  *)
(* analysis it names, and that analysis found no error, wherever an earlier  *)
(* or the present run of attribute.py failed or was killed.                  *)
ReportVouches ==
    Undisturbed /\ report.valid => IsAnalysis(report.of, rows, graph)

(* What query.py prints is the rows and the graph of one and the same        *)
(* accepted analysis, however often attribute.py ran while it was reading.   *)
PrintedIsOneAnalysis == Undisturbed => PrintedIsAnalysis

(* query.py ends with "Analysis changed while reading" when the files were   *)
(* rewritten under it: what it prints is one analysis also when attribute.py *)
(* fails after it has published, as it does when it cannot print.            *)
ChangesAreNoticed == Unmerged => PrintedIsAnalysis

=============================================================================
