---------------------------- MODULE ProtocolProofs ----------------------------
(***************************************************************************)
(* Two protocols between processes, and one between the threads of a       *)
(* process and its debugger, proved for any number of participants.        *)
(*                                                                         *)
(* ReportProtocol publishes only accepted analyses, whole, for any number  *)
(* of queries and of analyses.  ReportVouches is not inductive: it needs   *)
(* to know how far attribute() has come when it publishes (AnalyserInv),   *)
(* and PrintedIsOneAnalysis needs that a report a query once read is never *)
(* published again (the analysis it names is older than the one being      *)
(* written).                                                               *)
(*                                                                         *)
(* WorkerRelay forgets nobody and confuses nobody, for any number of jobs  *)
(* and any assignment of slots.  NobodyForgotten needs to know where a     *)
(* pending future is (WaiterKnown); RelayedIsDone needs that an answer     *)
(* stays with its job on the way from the leaf to the thread (AnswersTrue) *)
(* and that, while the leaf lives, a job it still has is one whose thread  *)
(* waits or has given up (FlightKnown).                                    *)
(*                                                                         *)
(* NativeDescriptors links an operation to what its number means, for any  *)
(* threads and closes.  A link is made from what the debugger saw before   *)
(* and after, so the invariant says what a call must have seen of those    *)
(* around it (Witnessed) for what it returns to stand (Standing).          *)
(***************************************************************************)
EXTENDS ReportProtocol, WorkerRelay, NativeDescriptors, FiniteSetTheorems,
        SequenceTheorems, TLAPS

(* The report protocol *)

Early == {"empty rows", "empty graph", "analyse"}
Writing == {"truncate rows", "write rows", "truncate graph", "write graph",
            "hash", "publish"}
Clearing == {"clear graph", "clear rows", "retract"}
RowsWritten == {"truncate graph", "write graph", "hash", "publish"}

AnalyserInv ==
    /\ analyser \in Early => Len(analyses) < MaxAnalyses
    /\ analyser \in Writing \cup {"print"} => Len(analyses) > 0
    /\ analyser \in Early \cup Writing => ~report.valid
    /\ analyser = "print" /\ report.valid => analyses[This]
    /\ retracted = {} /\ analyser \in Clearing => ~report.valid
    /\ analyser \in RowsWritten => rows = Content("rows", This)
    /\ Undisturbed /\ analyser \in {"hash", "publish"} => graph = Content("graph", This)
    /\ Undisturbed /\ analyser = "publish" => digests = [rows |-> rows, graph |-> graph]

ReportInv == Undisturbed /\ report.valid =>
    /\ IsAnalysis(report.of, rows, graph)
    /\ report.rows = rows /\ report.graph = graph

(* What one query knows, in a state of the analyser and the report. *)
Knows(q) ==
    query[q].at # "start" =>
        /\ query[q].report.valid
        /\ IsAnalysis(query[q].report.of, query[q].report.rows, query[q].report.graph)
        /\ analyser \in Writing => query[q].report.of # This
        /\ (query[q].at \in {"read graph", "reread report"} /\ report = query[q].report)
              \/ query[q].at = "printed" => query[q].rows = query[q].report.rows
        /\ (query[q].at = "reread report" /\ report = query[q].report)
              \/ query[q].at = "printed" => query[q].graph = query[q].report.graph

QueryInv == Undisturbed => \A q \in Queries : Knows(q)

Inv == TypeOK /\ AnalyserInv /\ ReportInv /\ QueryInv

-----------------------------------------------------------------------------
(* The initial state satisfies the invariant. *)
LEMMA InitInv == Init => Inv
<1> SUFFICES ASSUME Init PROVE Inv
  OBVIOUS
<1>1. TypeOK
  BY ProtocolAssumption DEF Init, TypeOK, Report, Contents, Steps, Places, NoReport,
                            Unread, Empty, Content
<1>2. AnalyserInv
  BY DEF Init, AnalyserInv, NoReport, Early, Writing, Clearing, RowsWritten
<1>3. ReportInv
  BY DEF Init, ReportInv, NoReport
<1>4. QueryInv
  BY DEF Init, QueryInv, Knows, Unread
<1> QED
  BY <1>1, <1>2, <1>3, <1>4 DEF Inv

(* Membership facts that let the type proof keep the record sets folded. *)
LEMMA ContentsType ==
    /\ Torn \in Contents /\ Empty \in Contents
    /\ \A n \in 0 .. MaxAnalyses : /\ Content("rows", n) \in Contents
                                 /\ Content("graph", n) \in Contents
                                 /\ Content("merged", n) \in Contents
    /\ \A c \in Contents : c.of \in 0 .. MaxAnalyses
<1>1. 0 \in 0 .. MaxAnalyses
  BY ProtocolAssumption
<1>2. \A w \in {"torn", "empty", "rows", "graph", "merged"}, n \in 0 .. MaxAnalyses :
          Content(w, n) \in Contents
  BY DEF Content, Contents
<1>3. \A c \in Contents : c.of \in 0 .. MaxAnalyses
  BY DEF Contents
<1> QED
  BY <1>1, <1>2, <1>3 DEF Torn, Empty

(* The same for reports, *)
LEMMA ReportType ==
    /\ NoReport \in Report
    /\ \A v \in BOOLEAN, n \in 0 .. MaxAnalyses, r, g \in Contents :
          [valid |-> v, of |-> n, rows |-> r, graph |-> g] \in Report
    /\ \A r \in Report : /\ r.valid \in BOOLEAN /\ r.of \in 0 .. MaxAnalyses
                         /\ r.rows \in Contents /\ r.graph \in Contents
<1>1. \A v \in BOOLEAN, n \in 0 .. MaxAnalyses, r, g \in Contents :
          [valid |-> v, of |-> n, rows |-> r, graph |-> g] \in Report
  BY DEF Report
<1>2. \A r \in Report : /\ r.valid \in BOOLEAN /\ r.of \in 0 .. MaxAnalyses
                        /\ r.rows \in Contents /\ r.graph \in Contents
  BY DEF Report
<1>3. 0 \in 0 .. MaxAnalyses /\ Empty \in Contents
  BY ContentsType, ProtocolAssumption
<1> QED
  BY <1>1, <1>2, <1>3 DEF NoReport

QueryRecord == [at : Places, report : Report, rows : Contents, graph : Contents]

(* and for what a query has read. *)
LEMMA ReadingType ==
    /\ Unread \in QueryRecord
    /\ \A k \in QueryRecord, place \in Places, r \in Report, c \in Contents :
          /\ [k EXCEPT !.at = place] \in QueryRecord
          /\ [k EXCEPT !.at = place, !.report = r] \in QueryRecord
          /\ [k EXCEPT !.at = place, !.rows = c] \in QueryRecord
          /\ [k EXCEPT !.at = place, !.graph = c] \in QueryRecord
<1>1. Unread \in QueryRecord
  BY ContentsType, ReportType DEF QueryRecord, Unread, Places
<1>2. ASSUME NEW k \in QueryRecord, NEW place \in Places, NEW r \in Report, NEW c \in Contents
      PROVE  /\ [k EXCEPT !.at = place] \in QueryRecord
             /\ [k EXCEPT !.at = place, !.report = r] \in QueryRecord
             /\ [k EXCEPT !.at = place, !.rows = c] \in QueryRecord
             /\ [k EXCEPT !.at = place, !.graph = c] \in QueryRecord
  BY <1>2 DEF QueryRecord
<1> QED
  BY <1>1, <1>2

(* A step of a query only reads the files. *)
LEMMA QueryReads ==
    ASSUME NEW q \in Queries, Query(q)
    PROVE  UNCHANGED <<report, rows, graph, analyses, analyser, digests, merger, retracted>>
  BY DEF Query, Reads, ReadReport, VerifyRows, VerifyGraph, ReadRows, ReadGraph,
         RereadReport, Restart

(* Every step keeps the variables in their types. *)
LEMMA TypeStep == TypeOK /\ AnalyserInv /\ [Next]_vars => TypeOK'
<1> SUFFICES ASSUME TypeOK, AnalyserInv, [Next]_vars PROVE TypeOK'
  OBVIOUS
<1>a. MaxAnalyses \in Nat /\ analyses \in Seq(BOOLEAN) /\ Len(analyses) \in Nat
  BY ProtocolAssumption, LenProperties DEF TypeOK
<1>1. CASE InvalidateReport
  BY <1>a, <1>1, ContentsType, ReportType
     DEF TypeOK, InvalidateReport, Step, Steps, OnlyAnalyser
<1>2. CASE EmptyRows
  BY <1>a, <1>2, ContentsType, ReportType
     DEF TypeOK, EmptyRows, Step, Steps, OnlyAnalyser
<1>3. CASE EmptyGraph
  BY <1>a, <1>3, ContentsType, ReportType
     DEF TypeOK, EmptyGraph, Step, Steps, OnlyAnalyser
<1>4. CASE Analyse
  <2>1. PICK clean \in BOOLEAN : analyses' = Append(analyses, clean)
    BY <1>4 DEF Analyse
  <2>2. analyses' \in Seq(BOOLEAN) /\ Len(analyses') = Len(analyses) + 1
    BY <1>a, <2>1, AppendProperties
  <2>3. Len(analyses) < MaxAnalyses
    BY <1>4 DEF AnalyserInv, Early, Analyse, Step
  <2>4. Len(analyses') <= MaxAnalyses
    BY <1>a, <2>2, <2>3
  <2> QED
    BY <1>4, <2>2, <2>4 DEF TypeOK, Analyse, Step, Steps, OnlyAnalyser
<1>5. CASE WriteRows
  <2>1. This \in 0 .. MaxAnalyses
    BY <1>a DEF TypeOK, This
  <2> QED
    BY <1>5, <2>1, ContentsType DEF TypeOK, WriteRows, Step, Steps, OnlyAnalyser
<1>6. CASE WriteGraph
  <2>1. This \in 0 .. MaxAnalyses
    BY <1>a DEF TypeOK, This
  <2> QED
    BY <1>6, <2>1, ContentsType DEF TypeOK, WriteGraph, Step, Steps, OnlyAnalyser
<1>7. CASE HashOutputs
  BY <1>a, <1>7, ContentsType, ReportType
     DEF TypeOK, HashOutputs, Step, Steps, OnlyAnalyser
<1>8. CASE Publish
  <2>1. This \in 1 .. Len(analyses) /\ This \in 0 .. MaxAnalyses
    <3>1. Len(analyses) > 0 /\ Len(analyses) <= MaxAnalyses
      BY <1>8 DEF TypeOK, Publish, Step, AnalyserInv, Writing
    <3> QED
      BY <1>a, <3>1 DEF This
  <2>2. analyses[This] \in BOOLEAN
    BY <2>1, ElementOfSeq DEF TypeOK
  <2>3. report' \in Report
    BY <1>8, <2>1, <2>2, ReportType DEF TypeOK, Publish
  <2> QED
    BY <1>8, <2>3 DEF TypeOK, Publish, Step, Steps, OnlyAnalyser
<1>9. CASE ClearOutputs
  BY <1>a, <1>9, ContentsType, ReportType
     DEF TypeOK, ClearOutputs, Step, Steps, OnlyAnalyser
<1>10. CASE Retract
  BY <1>a, <1>10, ContentsType, ReportType
     DEF TypeOK, Retract, Step, Steps, OnlyAnalyser
<1>11. CASE Raise
  <2>1. report.valid => This \in 1 .. MaxAnalyses
    <3>1. report.valid => analyser = "print"
      BY <1>11 DEF Raise, AnalyserInv, Early, Writing
    <3>2. analyser = "print" => Len(analyses) > 0
      BY DEF AnalyserInv
    <3> QED
      BY <1>a, <3>1, <3>2 DEF TypeOK, This
  <2> QED
    BY <1>11, <2>1 DEF TypeOK, Raise, Steps
<1>12. CASE Kill
  BY <1>a, <1>12, ContentsType, ReportType
     DEF TypeOK, Kill, Step, Steps, OnlyAnalyser
<1>13. CASE Merge
  <2>1. merger' \in [at : {"start", "truncate", "write", "merged"}, graph : Contents]
    BY <1>13 DEF TypeOK, Merge, MergeRead, MergeTruncate, MergeWrite
  <2>2. graph' \in Contents
    BY <1>13, ContentsType DEF TypeOK, Merge, MergeRead, MergeTruncate, MergeWrite
  <2> QED
    BY <1>13, <2>1, <2>2 DEF TypeOK, Merge
<1>14. ASSUME NEW q \in Queries, Query(q) PROVE TypeOK'
  <2>1. query \in [Queries -> QueryRecord]
    BY DEF TypeOK, QueryRecord
  <2>2. PICK k \in QueryRecord : query' = [query EXCEPT ![q] = k]
    <3>1. query[q] \in QueryRecord
      BY <2>1
    <3>2. CASE ReadReport(q)
      BY <2>1, <3>1, <3>2, ReadingType DEF ReadReport, Places, TypeOK
    <3>3. CASE VerifyRows(q) \/ VerifyGraph(q) \/ RereadReport(q)
      BY <2>1, <3>1, <3>3, ReadingType, ReportType, ContentsType DEF VerifyRows, VerifyGraph, RereadReport, At, Places
    <3>4. CASE ReadRows(q) \/ ReadGraph(q)
      BY <2>1, <3>1, <3>4, ReadingType DEF ReadRows, ReadGraph, Places, TypeOK
    <3>5. CASE Restart(q)
      BY <3>5, ReadingType DEF Restart
    <3> QED
      BY <1>14, <3>2, <3>3, <3>4, <3>5 DEF Query
  <2>3. query' \in [Queries -> QueryRecord]
    BY <2>1, <2>2
  <2>4. UNCHANGED <<report, rows, graph, analyses, analyser, digests, merger, retracted>>
    BY <1>14, QueryReads
  <2> QED
    BY <2>3, <2>4 DEF TypeOK, QueryRecord
<1>15. CASE UNCHANGED vars
  BY <1>15 DEF vars, TypeOK
<1>16. CASE PrintReport
  BY <1>16 DEF TypeOK, PrintReport, Step, Steps, OnlyAnalyser
<1> QED
  BY <1>1, <1>2, <1>3, <1>4, <1>5, <1>6, <1>7, <1>8, <1>9, <1>10, <1>11, <1>12, <1>13, <1>14, <1>15, <1>16 DEF Next, Attribute

(* The analyser's own account of its progress survives every step. *)
LEMMA AnalyserStep == TypeOK /\ AnalyserInv /\ [Next]_vars => AnalyserInv'
<1> SUFFICES ASSUME TypeOK, AnalyserInv, [Next]_vars PROVE AnalyserInv'
  OBVIOUS
<1>a. /\ analyses \in Seq(BOOLEAN) /\ Len(analyses) \in Nat
      /\ report.valid \in BOOLEAN
  BY LenProperties, ReportType DEF TypeOK
<1>1. CASE InvalidateReport
  BY <1>a, <1>1
     DEF AnalyserInv, InvalidateReport, Step, Early, Writing, Clearing, RowsWritten, This, Undisturbed, Unmerged,
         OnlyAnalyser, NoReport
<1>2. CASE EmptyRows
  BY <1>a, <1>2
     DEF AnalyserInv, EmptyRows, Step, Early, Writing, Clearing, RowsWritten, This, Undisturbed, Unmerged,
         OnlyAnalyser, NoReport
<1>3. CASE EmptyGraph
  BY <1>a, <1>3
     DEF AnalyserInv, EmptyGraph, Step, Early, Writing, Clearing, RowsWritten, This, Undisturbed, Unmerged,
         OnlyAnalyser, NoReport
<1>4. CASE Analyse
  <2>1. Len(analyses') > 0
    <3>1. PICK clean \in BOOLEAN : analyses' = Append(analyses, clean)
      BY <1>4 DEF Analyse
    <3>2. Len(analyses') = Len(analyses) + 1
      BY <1>a, <3>1, AppendProperties
    <3> QED
      BY <1>a, <3>2
  <2> QED
    BY <1>4, <2>1 DEF AnalyserInv, Analyse, Step, Early, Writing, Clearing, RowsWritten,
                      OnlyAnalyser
<1>5. CASE WriteRows
  BY <1>a, <1>5
     DEF AnalyserInv, WriteRows, Step, Early, Writing, Clearing, RowsWritten, This, Undisturbed, Unmerged,
         OnlyAnalyser, NoReport
<1>6. CASE WriteGraph
  BY <1>a, <1>6
     DEF AnalyserInv, WriteGraph, Step, Early, Writing, Clearing, RowsWritten, This, Undisturbed, Unmerged,
         OnlyAnalyser, NoReport
<1>7. CASE HashOutputs
  BY <1>a, <1>7
     DEF AnalyserInv, HashOutputs, Step, Early, Writing, Clearing, RowsWritten, This, Undisturbed, Unmerged,
         OnlyAnalyser, NoReport
<1>8. CASE Publish
  <2>1. /\ analyser = "publish" /\ analyser' = "print" /\ analyses' = analyses
        /\ report'.valid = analyses'[This']
    BY <1>8 DEF Publish, Step, This
  <2> QED
    BY <2>1 DEF AnalyserInv, Early, Writing, Clearing, RowsWritten
<1>9. CASE ClearOutputs
  BY <1>a, <1>9
     DEF AnalyserInv, ClearOutputs, Step, Early, Writing, Clearing, RowsWritten, This, Undisturbed, Unmerged,
         OnlyAnalyser, NoReport
<1>10. CASE Retract
  BY <1>a, <1>10
     DEF AnalyserInv, Retract, Step, Early, Writing, Clearing, RowsWritten, This, Undisturbed, Unmerged,
         OnlyAnalyser, NoReport
<1>11. CASE Raise
  BY <1>a, <1>11
     DEF AnalyserInv, Raise, Step, Early, Writing, Clearing, RowsWritten, This, Undisturbed, Unmerged,
         OnlyAnalyser, NoReport
<1>12. CASE Kill
  BY <1>a, <1>12
     DEF AnalyserInv, Kill, Step, Early, Writing, Clearing, RowsWritten, This, Undisturbed, Unmerged,
         OnlyAnalyser, NoReport
<1>13. CASE Merge
  <2>1. UNCHANGED <<report, rows, analyses, analyser, digests, retracted>>
    BY <1>13 DEF Merge
  <2>2. Undisturbed' => Undisturbed /\ graph' = graph
    BY <1>13 DEF Merge, MergeRead, MergeTruncate, MergeWrite, Undisturbed, Unmerged, TypeOK
  <2> QED
    BY <2>1, <2>2 DEF AnalyserInv, This
<1>14. ASSUME NEW q \in Queries, Query(q) PROVE AnalyserInv'
  <2>1. UNCHANGED <<report, rows, graph, analyses, analyser, digests, merger, retracted>>
    BY <1>14, QueryReads
  <2> QED
    BY <2>1 DEF AnalyserInv, This, Undisturbed, Unmerged
<1>15. CASE UNCHANGED vars
  BY <1>15 DEF vars, AnalyserInv, This, Undisturbed, Unmerged
<1>16. CASE PrintReport
  BY <1>16 DEF AnalyserInv, PrintReport, Step, Early, Writing, Clearing, RowsWritten, OnlyAnalyser,
               Undisturbed, Unmerged
<1> QED
  BY <1>1, <1>2, <1>3, <1>4, <1>5, <1>6, <1>7, <1>8, <1>9, <1>10, <1>11, <1>12, <1>13, <1>14, <1>15, <1>16 DEF Next, Attribute

(* A valid report keeps vouching for the files on disk. *)
LEMMA ReportStep == Inv /\ [Next]_vars => ReportInv'
<1> SUFFICES ASSUME Inv, [Next]_vars, Undisturbed', report'.valid
             PROVE  (/\ IsAnalysis(report.of, rows, graph)
                     /\ report.rows = rows /\ report.graph = graph)'
  BY DEF ReportInv
<1>a. TypeOK /\ AnalyserInv /\ ReportInv
  BY DEF Inv
<1>1. CASE Publish
  <2>1. Undisturbed
    BY <1>1 DEF Publish, OnlyAnalyser, Undisturbed, Unmerged
  <2>2. This \in DOMAIN analyses
    <3>1. Len(analyses) > 0
      BY <1>a, <1>1 DEF AnalyserInv, Publish, Step, Writing
    <3>2. DOMAIN analyses = 1 .. Len(analyses) /\ Len(analyses) \in Nat
      BY <1>a, LenProperties DEF TypeOK
    <3> QED
      BY <3>1, <3>2 DEF This
  <2>3. /\ rows = Content("rows", This) /\ graph = Content("graph", This)
        /\ digests = [rows |-> rows, graph |-> graph]
    BY <1>a, <1>1, <2>1 DEF AnalyserInv, Publish, Step, RowsWritten
  <2>4. /\ report'.of = This /\ report'.valid = analyses[This]
        /\ report'.rows = rows /\ report'.graph = graph
        /\ UNCHANGED <<rows, graph, analyses>>
    BY <1>1, <2>3 DEF Publish
  <2> QED
    BY <2>2, <2>3, <2>4 DEF IsAnalysis
<1>2. CASE InvalidateReport \/ Retract
  <2>1. report' = NoReport
    BY <1>2 DEF InvalidateReport, Retract
  <2> QED
    BY <2>1 DEF NoReport
<1>3. CASE EmptyRows \/ EmptyGraph \/ Analyse \/ WriteRows \/ WriteGraph
           \/ HashOutputs \/ ClearOutputs
  <2>1. analyser \notin {"done", "print"} /\ report' = report /\ retracted = {}
    BY <1>3 DEF EmptyRows, EmptyGraph, Analyse, WriteRows, WriteGraph, HashOutputs,
                ClearOutputs, Step, OnlyAnalyser, Undisturbed
  <2> QED
    BY <1>a, <1>3, <2>1 DEF AnalyserInv, Early, Writing, Clearing, EmptyRows, EmptyGraph,
         Analyse, WriteRows, WriteGraph, HashOutputs, ClearOutputs, Step
<1>4. CASE Raise
  BY <1>4 DEF Raise, Undisturbed
<1>7. CASE PrintReport \/ Kill
  <2>1. Undisturbed /\ UNCHANGED <<report, rows, graph, analyses>>
    BY <1>7 DEF PrintReport, Kill, OnlyAnalyser, Undisturbed, Unmerged
  <2> QED
    BY <1>a, <2>1 DEF ReportInv, IsAnalysis
<1>5. CASE Merge
  <2>1. Undisturbed /\ UNCHANGED <<report, rows, graph, analyses>>
    BY <1>a, <1>5 DEF Merge, MergeRead, MergeTruncate, MergeWrite, Undisturbed, Unmerged, TypeOK
  <2> QED
    BY <1>a, <2>1 DEF ReportInv, IsAnalysis
<1>6. CASE (\E q \in Queries : Query(q)) \/ UNCHANGED vars
  <2>1. UNCHANGED <<report, rows, graph, analyses, merger, retracted>>
    BY <1>6, QueryReads DEF vars
  <2> QED
    BY <1>a, <2>1 DEF ReportInv, IsAnalysis, Undisturbed, Unmerged
<1> QED
  BY <1>1, <1>2, <1>3, <1>4, <1>5, <1>6, <1>7 DEF Next, Attribute

-----------------------------------------------------------------------------
(* A step that leaves the queries alone, and with them what they know.       *)
LEMMA KnowledgeKept ==
    ASSUME TypeOK, NEW q \in Queries, Knows(q), query' = query,
           query[q].at # "start" =>
              /\ query[q].report.of \in DOMAIN analyses' /\ analyses'[query[q].report.of]
              /\ analyser' \in Writing => query[q].report.of # This'
              /\ report' = query[q].report => report = query[q].report
    PROVE  Knows(q)'
  BY DEF Knows, IsAnalysis

(* What the queries know survives every step of attribute() and merge(). *)
LEMMA WriterStep == Inv /\ QueryInv /\ Undisturbed' /\ (Attribute \/ Merge) => QueryInv'
<1> SUFFICES ASSUME Inv, Undisturbed', Attribute \/ Merge, NEW q \in Queries
             PROVE  Knows(q)'
  BY DEF QueryInv
<1>a. TypeOK /\ AnalyserInv
  BY DEF Inv
<1>b. Undisturbed /\ query' = query
  <2>1. CASE Attribute
    BY <2>1 DEF Attribute, InvalidateReport, EmptyRows, EmptyGraph, Analyse, WriteRows,
         WriteGraph, HashOutputs, Publish, PrintReport, ClearOutputs, Retract, Raise,
         Kill, OnlyAnalyser, Undisturbed, Unmerged
  <2>2. CASE Merge
    BY <1>a, <2>2 DEF TypeOK, Merge, MergeRead, MergeTruncate, MergeWrite, Undisturbed, Unmerged
  <2> QED
    BY <2>1, <2>2
<1>c. Knows(q)
  BY <1>b DEF Inv, QueryInv
<1>d. /\ analyses \in Seq(BOOLEAN) /\ Len(analyses) \in Nat
      /\ DOMAIN analyses = 1 .. Len(analyses)
  BY <1>a, LenProperties DEF TypeOK
<1> SUFFICES ASSUME query[q].at # "start"
             PROVE  /\ query[q].report.of \in DOMAIN analyses'
                    /\ analyses'[query[q].report.of]
                    /\ analyser' \in Writing => query[q].report.of # This'
                    /\ report' = query[q].report => report = query[q].report
  BY <1>a, <1>b, <1>c, KnowledgeKept
<1>e. /\ query[q].report.valid /\ query[q].report.of \in 1 .. Len(analyses)
      /\ analyses[query[q].report.of]
      /\ analyser \in Writing => query[q].report.of # This
  BY <1>c, <1>d DEF Knows, IsAnalysis
<1>1. CASE Analyse
  <2>1. PICK clean \in BOOLEAN : analyses' = Append(analyses, clean)
    BY <1>1 DEF Analyse
  <2>2. /\ analyses' \in Seq(BOOLEAN) /\ Len(analyses') = Len(analyses) + 1
        /\ \A i \in 1 .. Len(analyses) : analyses'[i] = analyses[i]
    BY <1>d, <2>1, AppendProperties
  <2>3. DOMAIN analyses' = 1 .. Len(analyses')
    BY <2>2, LenProperties
  <2>4. report' = report
    BY <1>1 DEF Analyse
  <2> QED
    BY <1>d, <1>e, <2>2, <2>3, <2>4 DEF This
<1>2. CASE Publish
  <2>1. analyser \in Writing /\ analyses' = analyses /\ report'.of = This
    BY <1>2 DEF Publish, Step, Writing
  <2>2. analyser' \notin Writing
    BY <1>2 DEF Publish, Step, Writing
  <2> QED
    BY <1>d, <1>e, <2>1, <2>2
<1>3. CASE InvalidateReport \/ Retract
  <2>1. report' = NoReport /\ analyses' = analyses /\ analyser' \notin Writing
    BY <1>3 DEF InvalidateReport, Retract, Step, Writing
  <2> QED
    BY <1>d, <1>e, <2>1 DEF NoReport
<1>4. CASE EmptyRows \/ EmptyGraph \/ WriteRows \/ WriteGraph \/ HashOutputs
           \/ PrintReport \/ ClearOutputs \/ Raise \/ Kill \/ Merge
  <2>1. /\ report' = report /\ analyses' = analyses
        /\ analyser' \in Writing => analyser \in Writing
    BY <1>4 DEF EmptyRows, EmptyGraph, WriteRows, WriteGraph, HashOutputs,
                PrintReport, ClearOutputs, Raise, Kill, Merge, Step, Writing
  <2> QED
    BY <1>d, <1>e, <2>1 DEF This
<1> QED
  BY <1>1, <1>2, <1>3, <1>4 DEF Attribute

(* A query's own step adds what it has just seen to what it knows. *)
LEMMA QueryReadsStep ==
    ASSUME Inv, Undisturbed, NEW p \in Queries, Query(p), NEW q \in Queries
    PROVE  Knows(q)'
<1>a. TypeOK /\ AnalyserInv /\ ReportInv /\ Knows(q)
  BY DEF Inv, QueryInv
<1>b. UNCHANGED <<report, rows, graph, analyses, analyser>>
  BY QueryReads
<1>c. \A x \in Queries : x # p => query'[x] = query[x]
  <2>1. DOMAIN query = Queries
    BY <1>a DEF TypeOK
  <2> QED
    BY <2>1 DEF Query, Reads, At, ReadReport, VerifyRows, VerifyGraph, ReadRows,
           ReadGraph, RereadReport, Restart
<1>1. CASE p # q
  <2>1. query'[q] = query[q]
    BY <1>1, <1>c
  <2> QED
    BY <1>a, <1>b, <2>1 DEF Knows, IsAnalysis, This
<1>2. CASE p = q
  <2>a. query \in [Queries -> QueryRecord]
    BY <1>a DEF TypeOK, QueryRecord
  <2>b. query[q] \in QueryRecord
    BY <2>a
  <2>1. CASE ReadReport(q)
    <3>1. /\ query'[q].at = "verify rows" /\ query'[q].report = report /\ report.valid
      BY <2>1, <2>a, <2>b DEF ReadReport, QueryRecord
    <3>2. /\ IsAnalysis(report.of, rows, graph)
          /\ report.rows = rows /\ report.graph = graph /\ analyser \in {"done", "print"}
      BY <1>a, <3>1 DEF ReportInv, AnalyserInv, Undisturbed, TypeOK, Steps, Early,
                         Writing, Clearing
    <3> QED
      BY <1>b, <3>1, <3>2 DEF Knows, IsAnalysis, Writing
  <2>2. CASE VerifyRows(q) \/ VerifyGraph(q)
    <3>1. /\ query[q].at # "start" /\ query'[q].at \in {"verify graph", "read rows"}
          /\ query'[q].report = query[q].report
      BY <2>2, <2>a, <2>b DEF VerifyRows, VerifyGraph, Reads, At, QueryRecord
    <3> QED
      BY <1>a, <1>b, <3>1 DEF Knows, IsAnalysis, This
  <2>3. CASE ReadRows(q)
    <3>1. /\ query[q].at = "read rows" /\ query'[q].at = "read graph"
          /\ query'[q].report = query[q].report /\ query'[q].rows = rows
      BY <2>3, <2>a, <2>b DEF ReadRows, Reads, QueryRecord
    <3>2. report = query[q].report => rows = query[q].report.rows
      BY <1>a, <3>1 DEF ReportInv, Knows
    <3> QED
      BY <1>a, <1>b, <3>1, <3>2 DEF Knows, IsAnalysis, This
  <2>4. CASE ReadGraph(q)
    <3>1. /\ query[q].at = "read graph" /\ query'[q].at = "reread report"
          /\ query'[q].report = query[q].report /\ query'[q].rows = query[q].rows
          /\ query'[q].graph = graph
      BY <2>4, <2>a, <2>b DEF ReadGraph, Reads, QueryRecord
    <3>2. report = query[q].report => graph = query[q].report.graph
      BY <1>a, <3>1 DEF ReportInv, Knows
    <3> QED
      BY <1>a, <1>b, <3>1, <3>2 DEF Knows, IsAnalysis, This
  <2>5. CASE RereadReport(q)
    <3>1. /\ query[q].at = "reread report" /\ query'[q].at = "printed"
          /\ query'[q].report = query[q].report /\ query'[q].rows = query[q].rows
          /\ query'[q].graph = query[q].graph /\ report = query[q].report
      BY <2>5, <2>a, <2>b DEF RereadReport, Reads, At, QueryRecord
    <3> QED
      BY <1>a, <1>b, <3>1 DEF Knows, IsAnalysis, This
  <2>6. CASE Restart(q)
    <3>1. query'[q].at = "start"
      BY <2>6, <2>a DEF Restart, Unread
    <3> QED
      BY <3>1 DEF Knows
  <2> QED
    BY <1>2, <2>1, <2>2, <2>3, <2>4, <2>5, <2>6 DEF Query
<1> QED
  BY <1>1, <1>2

(* Every step of anyone keeps what the queries know. *)
LEMMA QueryStep == Inv /\ [Next]_vars => QueryInv'
<1> SUFFICES ASSUME Inv, [Next]_vars, Undisturbed' PROVE \A q \in Queries : Knows(q)'
  BY DEF QueryInv
<1>1. CASE Attribute \/ Merge
  BY <1>1, WriterStep DEF Inv, QueryInv
<1>2. ASSUME NEW p \in Queries, Query(p) PROVE \A q \in Queries : Knows(q)'
  <2>1. Undisturbed
    BY <1>2, QueryReads DEF Undisturbed, Unmerged
  <2> QED
    BY <1>2, <2>1, QueryReadsStep
<1>3. CASE UNCHANGED vars
  BY <1>3 DEF vars, Inv, QueryInv, Undisturbed, Unmerged, Knows, IsAnalysis, This
<1> QED
  BY <1>1, <1>2, <1>3 DEF Next

-----------------------------------------------------------------------------
(* The invariant holds in every state of the protocol. *)
THEOREM Invariance == Spec => []Inv
<1>1. Inv /\ [Next]_vars => Inv'
  BY TypeStep, AnalyserStep, ReportStep, QueryStep DEF Inv
<1> QED
  BY InitInv, <1>1, PTL DEF Spec

(* A valid report vouches for both files, for any number of analyses and     *)
(* queries, whatever failed or was killed before.                            *)
THEOREM ReportsVouch == Spec => []ReportVouches
<1>1. Inv => ReportVouches
  BY DEF Inv, ReportInv, ReportVouches
<1> QED
  BY Invariance, <1>1, PTL

(* Whatever query.py prints is one accepted analysis, however many runs of   *)
(* attribute.py came between its reads.                                      *)
THEOREM QueriesPrintOneAnalysis == Spec => []PrintedIsOneAnalysis
<1>1. Inv => PrintedIsOneAnalysis
  <2> SUFFICES ASSUME Inv, Undisturbed, NEW q \in Queries, query[q].at = "printed"
               PROVE  IsAnalysis(query[q].report.of, query[q].rows, query[q].graph)
    BY DEF PrintedIsOneAnalysis, PrintedIsAnalysis
  <2>1. Knows(q)
    BY DEF Inv, QueryInv
  <2> QED
    BY <2>1 DEF Knows, IsAnalysis
<1> QED
  BY Invariance, <1>1, PTL

-----------------------------------------------------------------------------
(* The relay *)

Verdicts == {"ok", "error"}
Answers == [job : Jobs, answer : Verdicts]

RelayTypes ==
    /\ thread \in [Jobs -> {"none", "waiting"} \cup Ends]
    /\ relay_waiters \in SUBSET Jobs
    /\ future \in [Jobs -> Verdicts \cup {"pending"}]
    /\ relay_failure \in BOOLEAN
    /\ reader \in [at : {"reading", "completing", "failing", "ended"},
                   jobs : SUBSET Jobs, answer : Verdicts]
    /\ toLeaf \in Seq(Jobs)
    /\ fromLeaf \in Seq(Answers)
    /\ leaf \in [Jobs -> {"none", "running", "done"}]
    /\ leafLive \in BOOLEAN
    /\ written \in SUBSET Jobs

(* A pending future is registered or in the hands of the reader; a job not   *)
(* delegated yet has none.                                                   *)
WaiterKnown ==
    /\ relay_failure <=> reader.at \in {"failing", "ended"}
    /\ relay_failure => relay_waiters = {}
    /\ reader.at \in {"reading", "ended"} => reader.jobs = {}
    /\ \A j \in Jobs : thread[j] = "waiting" /\ future[j] = "pending" =>
          j \in relay_waiters \cup reader.jobs
    /\ \A j \in Jobs : thread[j] = "none" =>
          j \notin relay_waiters \cup reader.jobs /\ future[j] = "pending"

(* Good news is true wherever it is. *)
AnswersTrue ==
    /\ \A i \in DOMAIN fromLeaf :
          fromLeaf[i].answer = "ok" => fromLeaf[i].job \in written
    /\ reader.answer = "ok" => reader.jobs \subseteq written
    /\ \A j \in Jobs : future[j] = "ok" \/ thread[j] = "ok" => j \in written

Queued(j) == \E i \in DOMAIN toLeaf : toLeaf[i] = j
Answered(j) == \E i \in DOMAIN fromLeaf : fromLeaf[i].job = j
InFlight(j) == Queued(j) \/ leaf[j] = "running"

(* A job is with the leaf once, and answered once. *)
OnceEach ==
    /\ \A i, k \in DOMAIN toLeaf : toLeaf[i] = toLeaf[k] => i = k
    /\ \A i, k \in DOMAIN fromLeaf : fromLeaf[i].job = fromLeaf[k].job => i = k
    /\ \A j \in Jobs : Queued(j) => leaf[j] = "none"
    /\ \A j \in Jobs : Answered(j) => leaf[j] = "done"
    /\ \A j \in Jobs : Queued(j) \/ leaf[j] # "none" => thread[j] # "none"

(* While answers are read, the jobs they are for are registered. *)
FlightKnown ==
    /\ reader.at = "reading" => \A j \in Jobs : Answered(j) => j \in relay_waiters
    /\ reader.at = "completing" => \A j \in Jobs : Answered(j) => j \in relay_waiters
    /\ leafLive => ~relay_failure
    /\ leafLive => \A j \in Jobs : InFlight(j) =>
          /\ j \in relay_waiters /\ j \notin reader.jobs
          /\ future[j] = "pending" /\ thread[j] \in {"waiting", "timeout"}
    /\ \A j, k \in Jobs :
          j # k /\ SlotOf[j] = SlotOf[k] /\ InFlight(j) /\ InFlight(k) =>
              "timeout" \in {thread[j], thread[k]}

RelayInv == RelayTypes /\ WaiterKnown /\ AnswersTrue /\ OnceEach /\ FlightKnown
-----------------------------------------------------------------------------
(* What one more element, or one less, does to a sequence. *)
LEMMA AppendElements ==
    ASSUME NEW S, NEW s \in Seq(S), NEW e \in S
    PROVE  /\ Append(s, e) \in Seq(S)
           /\ DOMAIN Append(s, e) = DOMAIN s \cup {Len(s) + 1}
           /\ Len(s) + 1 \notin DOMAIN s
           /\ Append(s, e)[Len(s) + 1] = e
           /\ \A i \in DOMAIN s : Append(s, e)[i] = s[i]
  OBVIOUS

(* The same of its head and tail. *)
LEMMA TailElements ==
    ASSUME NEW S, NEW s \in Seq(S), s # <<>>
    PROVE  /\ Head(s) = s[1] /\ 1 \in DOMAIN s /\ Head(s) \in S
           /\ Tail(s) \in Seq(S)
           /\ \A i \in DOMAIN Tail(s) : /\ i + 1 \in DOMAIN s /\ Tail(s)[i] = s[i + 1]
                                        /\ i \in Nat /\ i + 1 # 1
           /\ \A i \in DOMAIN s \ {1} : /\ i - 1 \in DOMAIN Tail(s)
                                        /\ Tail(s)[i - 1] = s[i]
  OBVIOUS

(* The invariant holds before any job. *)
LEMMA RelayInvInit == RelayInit => RelayInv
  <1> SUFFICES ASSUME RelayInit PROVE RelayInv
    OBVIOUS
  <1>. USE DEF RelayInit
  <1>1. RelayTypes
    <2>1. toLeaf \in Seq(Jobs) /\ fromLeaf \in Seq(Answers)
      OBVIOUS
    <2>2. reader \in [at : {"reading", "completing", "failing", "ended"},
                     jobs : SUBSET Jobs, answer : Verdicts]
      BY DEF Verdicts
    <2>3. /\ thread \in [Jobs -> {"none", "waiting"} \cup Ends]
          /\ future \in [Jobs -> Verdicts \cup {"pending"}]
          /\ leaf \in [Jobs -> {"none", "running", "done"}]
      OBVIOUS
    <2>. QED  BY <2>1, <2>2, <2>3 DEF RelayTypes
  <1>2. WaiterKnown
    BY DEF WaiterKnown
  <1>3. AnswersTrue
    BY DEF AnswersTrue
  <1>4. OnceEach /\ FlightKnown
    BY DEF OnceEach, FlightKnown, Queued, Answered, InFlight
  <1>. QED  BY <1>1, <1>2, <1>3, <1>4 DEF RelayInv

(* No step leaves the types. *)
LEMMA TypesStep ==
    ASSUME RelayTypes, [RelayNext]_relayVars
    PROVE  RelayTypes'
  <1>. USE DEF RelayTypes, Verdicts, Ends
  <1>1. ASSUME NEW j \in Jobs, Delegate(j)
        PROVE  RelayTypes'
    <2>1. thread' \in [Jobs -> {"none", "waiting"} \cup Ends]
      BY <1>1 DEF Delegate, Registered, To
    <2>2. toLeaf' \in Seq(Jobs) /\ relay_waiters' \in SUBSET Jobs
      <3>1. toLeaf' \in {toLeaf, Append(toLeaf, j)} /\ Append(toLeaf, j) \in Seq(Jobs)
        BY <1>1, AppendElements DEF Delegate, Registered
      <3>2. relay_waiters' \in {relay_waiters, relay_waiters \cup {j}}
        BY <1>1 DEF Delegate, Registered
      <3>. QED  BY <3>1, <3>2
    <2>. QED  BY <1>1, <2>1, <2>2 DEF Delegate, leafVars
  <1>2. ASSUME NEW j \in Jobs, Resume(j) \/ TimeOut(j)
        PROVE  RelayTypes'
    BY <1>2 DEF Resume, TimeOut, Waiting, To, lockedVars, leafVars
  <1>3. CASE Pop
    <2>1. Head(fromLeaf) \in Answers /\ Tail(fromLeaf) \in Seq(Answers)
      BY <1>3, TailElements DEF Pop, Answers
    <2>. QED  BY <1>3, <2>1 DEF Pop, leafVars, Answers
  <1>4. CASE FailAll
    BY <1>4 DEF FailAll, leafVars
  <1>5. CASE Complete
    BY <1>5 DEF Complete, lockedVars, leafVars
  <1>6. CASE Shutdown \/ Die
    BY <1>6 DEF Shutdown, Die, lockedVars, leafVars
  <1>7. CASE LeafTakes
    BY <1>7, TailElements DEF LeafTakes, lockedVars
  <1>8. ASSUME NEW j \in Jobs, LeafAnswers(j)
        PROVE  RelayTypes'
    <2>1. PICK answer \in Verdicts :
            /\ written' = IF answer = "ok" THEN written \cup {j} ELSE written
            /\ fromLeaf' = Append(fromLeaf, [job |-> j, answer |-> answer])
      BY <1>8 DEF LeafAnswers
    <2>2. [job |-> j, answer |-> answer] \in Answers
      BY <2>1 DEF Answers
    <2>3. fromLeaf' \in Seq(Answers)
      BY <2>1, <2>2, AppendElements DEF Answers
    <2>. QED  BY <1>8, <2>1, <2>3 DEF LeafAnswers, lockedVars, Answers
  <1>9. CASE LeafExits
    BY <1>9 DEF LeafExits, lockedVars
  <1>10. CASE UNCHANGED relayVars
    BY <1>10 DEF relayVars
  <1>. QED
    BY <1>1, <1>2, <1>3, <1>4, <1>5, <1>6, <1>7, <1>8, <1>9, <1>10
       DEF RelayNext, Delegations, Waits, ReaderStep, LeafStep

-----------------------------------------------------------------------------
(* A future leaves relay_waiters only for the hands of the reader. *)
LEMMA WaiterStep ==
    ASSUME RelayTypes, WaiterKnown, [RelayNext]_relayVars
    PROVE  WaiterKnown'
  <1>. USE DEF WaiterKnown, RelayTypes
  <1>1. ASSUME NEW j \in Jobs, Delegate(j)
        PROVE  WaiterKnown'
    BY <1>1 DEF Delegate, Registered, To
  <1>2. ASSUME NEW j \in Jobs, Resume(j) \/ TimeOut(j)
        PROVE  WaiterKnown'
    BY <1>2 DEF Resume, TimeOut, Waiting, To, lockedVars, Verdicts
  <1>3. CASE Pop
    BY <1>3 DEF Pop, Reading
  <1>4. CASE FailAll
    BY <1>4 DEF FailAll, Reading
  <1>5. CASE Complete
    BY <1>5 DEF Complete, lockedVars, Verdicts
  <1>6. CASE Shutdown \/ Die \/ LeafStep \/ UNCHANGED relayVars
    <2>1. UNCHANGED <<thread, relay_waiters, relay_failure, future, reader>>
      BY <1>6 DEF Shutdown, Die, LeafStep, LeafTakes, LeafAnswers, LeafExits, relayVars,
                  lockedVars
    <2>. QED  BY <2>1
  <1>. QED
    BY <1>1, <1>2, <1>3, <1>4, <1>5, <1>6 DEF RelayNext, Delegations, Waits, ReaderStep

(* An answer stays with its job. *)
LEMMA AnswersStep ==
    ASSUME RelayTypes, AnswersTrue, [RelayNext]_relayVars
    PROVE  AnswersTrue'
  <1>. USE DEF AnswersTrue, RelayTypes
  <1>1. ASSUME NEW j \in Jobs, Delegate(j)
        PROVE  AnswersTrue'
    BY <1>1 DEF Delegate, Registered, To, leafVars
  <1>2. ASSUME NEW j \in Jobs, Resume(j) \/ TimeOut(j)
        PROVE  AnswersTrue'
    BY <1>2 DEF Resume, TimeOut, Waiting, To, lockedVars, leafVars
  <1>3. CASE Pop
    <2>1. /\ Head(fromLeaf).answer = "ok" => Head(fromLeaf).job \in written
          /\ \A i \in DOMAIN Tail(fromLeaf) :
                Tail(fromLeaf)[i].answer = "ok" => Tail(fromLeaf)[i].job \in written
      BY <1>3, TailElements DEF Pop
    <2>. QED  BY <1>3, <2>1 DEF Pop, leafVars
  <1>4. CASE FailAll
    BY <1>4 DEF FailAll, leafVars
  <1>5. CASE Complete
    BY <1>5 DEF Complete, lockedVars, leafVars
  <1>6. CASE Shutdown \/ Die \/ LeafTakes \/ LeafExits \/ UNCHANGED relayVars
    BY <1>6 DEF Shutdown, Die, LeafTakes, LeafExits, relayVars, lockedVars, leafVars
  <1>7. ASSUME NEW j \in Jobs, LeafAnswers(j)
        PROVE  AnswersTrue'
    <2>1. PICK answer \in Verdicts :
            /\ written' = IF answer = "ok" THEN written \cup {j} ELSE written
            /\ fromLeaf' = Append(fromLeaf, [job |-> j, answer |-> answer])
      BY <1>7 DEF LeafAnswers, Verdicts
    <2>2. [job |-> j, answer |-> answer] \in Answers
      BY <2>1 DEF Answers
    <2>3. \A i \in DOMAIN fromLeaf' :
            fromLeaf'[i].answer = "ok" => fromLeaf'[i].job \in written'
      BY <2>1, <2>2, AppendElements DEF Answers
    <2>. QED  BY <1>7, <2>1, <2>3 DEF LeafAnswers, lockedVars
  <1>. QED
    BY <1>1, <1>2, <1>3, <1>4, <1>5, <1>6, <1>7
       DEF RelayNext, Delegations, Waits, ReaderStep, LeafStep

-----------------------------------------------------------------------------
(* OnceEach and FlightKnown depend on the sequences only through who is in   *)
(* them, but for the order of the head.                                      *)
LEMMA Sending ==
    ASSUME RelayTypes, OnceEach, NEW j \in Jobs, leaf[j] = "none", ~Queued(j),
           toLeaf' = Append(toLeaf, j), UNCHANGED leaf
    PROVE  /\ \A i, k \in DOMAIN toLeaf' : toLeaf'[i] = toLeaf'[k] => i = k
           /\ \A k \in Jobs : Queued(k)' <=> k = j \/ Queued(k)
  BY AppendElements DEF RelayTypes, OnceEach, Queued

(* Of a sequence whose elements differ, the tail keeps all but the head. *)
LEMMA TailMembers ==
    ASSUME NEW S, NEW s \in Seq(S), s # <<>>,
           \A i, k \in DOMAIN s : s[i] = s[k] => i = k
    PROVE  /\ \A i, k \in DOMAIN Tail(s) : Tail(s)[i] = Tail(s)[k] => i = k
           /\ \A x : (\E i \in DOMAIN Tail(s) : Tail(s)[i] = x)
                        <=> x # Head(s) /\ \E i \in DOMAIN s : s[i] = x
  <1>1. \A i, k \in DOMAIN Tail(s) : Tail(s)[i] = Tail(s)[k] => i = k
    BY TailElements
  <1>2. ASSUME NEW x, NEW i \in DOMAIN Tail(s), Tail(s)[i] = x
        PROVE  x # Head(s) /\ \E k \in DOMAIN s : s[k] = x
    BY <1>2, TailElements
  <1>3. ASSUME NEW x, x # Head(s), NEW i \in DOMAIN s, s[i] = x
        PROVE  \E k \in DOMAIN Tail(s) : Tail(s)[k] = x
    BY <1>3, TailElements
  <1>. QED  BY <1>1, <1>2, <1>3

(* The leaf takes a job. *)
LEMMA Taking ==
    ASSUME RelayTypes, OnceEach, LeafTakes
    PROVE  /\ \A i, k \in DOMAIN toLeaf' : toLeaf'[i] = toLeaf'[k] => i = k
           /\ Head(toLeaf) \in Jobs /\ Queued(Head(toLeaf))
           /\ \A k \in Jobs : Queued(k)' <=> k # Head(toLeaf) /\ Queued(k)
  <1>1. /\ toLeaf \in Seq(Jobs) /\ toLeaf # <<>> /\ toLeaf' = Tail(toLeaf)
        /\ \A i, k \in DOMAIN toLeaf : toLeaf[i] = toLeaf[k] => i = k
    BY DEF LeafTakes, RelayTypes, OnceEach
  <1>2. Head(toLeaf) \in Jobs /\ Queued(Head(toLeaf))
    BY <1>1, TailElements DEF Queued
  <1>. QED  BY <1>1, <1>2, TailMembers DEF Queued

(* An answer on its way to the reader. *)
LEMMA Reported ==
    ASSUME RelayTypes, OnceEach, NEW j \in Jobs, LeafAnswers(j)
    PROVE  /\ \A i, k \in DOMAIN fromLeaf' : fromLeaf'[i].job = fromLeaf'[k].job => i = k
           /\ \A k \in Jobs : Answered(k)' <=> k = j \/ Answered(k)
  <1>1. PICK answer \in Verdicts : fromLeaf' = Append(fromLeaf, [job |-> j, answer |-> answer])
    BY DEF LeafAnswers, Verdicts
  <1>2. [job |-> j, answer |-> answer] \in Answers /\ fromLeaf \in Seq(Answers)
    BY DEF Answers, RelayTypes
  <1>3. ~Answered(j)
    BY DEF LeafAnswers, OnceEach
  <1>. QED  BY <1>1, <1>2, <1>3, AppendElements DEF OnceEach, Answered

(* The reader takes an answer. *)
LEMMA Popped ==
    ASSUME RelayTypes, OnceEach, Pop
    PROVE  /\ \A i, k \in DOMAIN fromLeaf' : fromLeaf'[i].job = fromLeaf'[k].job => i = k
           /\ Head(fromLeaf).job \in Jobs /\ Answered(Head(fromLeaf).job)
           /\ \A k \in Jobs : Answered(k)' <=> k # Head(fromLeaf).job /\ Answered(k)
  <1>1. /\ fromLeaf \in Seq(Answers) /\ fromLeaf # <<>> /\ fromLeaf' = Tail(fromLeaf)
        /\ \A i, k \in DOMAIN fromLeaf : fromLeaf[i].job = fromLeaf[k].job => i = k
    BY DEF Pop, RelayTypes, OnceEach
  <1>2. /\ Head(fromLeaf) = fromLeaf[1] /\ 1 \in DOMAIN fromLeaf
        /\ Head(fromLeaf) \in Answers
    BY <1>1, TailElements
  <1>3. Head(fromLeaf).job \in Jobs /\ Answered(Head(fromLeaf).job)
    BY <1>2 DEF Answers, Answered
  <1>4. /\ \A i \in DOMAIN fromLeaf' : /\ i + 1 \in DOMAIN fromLeaf /\ i + 1 # 1 /\ i \in Nat
                                       /\ fromLeaf'[i] = fromLeaf[i + 1]
        /\ \A i \in DOMAIN fromLeaf \ {1} : /\ i - 1 \in DOMAIN fromLeaf'
                                            /\ fromLeaf'[i - 1] = fromLeaf[i]
    BY <1>1, TailElements
  <1>5. \A i, k \in DOMAIN fromLeaf' : fromLeaf'[i].job = fromLeaf'[k].job => i = k
    BY <1>1, <1>4
  <1>6. ASSUME NEW k \in Jobs, Answered(k)'
        PROVE  k # Head(fromLeaf).job /\ Answered(k)
    BY <1>1, <1>2, <1>4, <1>6 DEF Answered
  <1>7. ASSUME NEW k \in Jobs, Answered(k), k # Head(fromLeaf).job
        PROVE  Answered(k)'
    BY <1>2, <1>4, <1>7 DEF Answered
  <1>. QED  BY <1>3, <1>5, <1>6, <1>7

(* No step gives a job to the leaf twice, or answers it twice. *)
LEMMA OnceStep ==
    ASSUME RelayTypes, OnceEach, [RelayNext]_relayVars
    PROVE  OnceEach'
  <1>. USE DEF RelayTypes
  <1>1. ASSUME NEW j \in Jobs, Delegate(j)
        PROVE  OnceEach'
    <2>1. leaf[j] = "none" /\ ~Queued(j) /\ ~Answered(j)
      BY <1>1 DEF Delegate, Starts, OnceEach
    <2>2. UNCHANGED <<leaf, fromLeaf>> /\ thread'[j] # "none"
          /\ \A k \in Jobs \ {j} : thread'[k] = thread[k]
      BY <1>1 DEF Delegate, Registered, To, leafVars
    <2>3. CASE toLeaf' = toLeaf
      BY <2>1, <2>2, <2>3 DEF OnceEach, Queued, Answered, InFlight
    <2>4. CASE toLeaf' = Append(toLeaf, j)
      BY <2>1, <2>2, <2>4, Sending DEF OnceEach, Answered, InFlight
    <2>. QED  BY <1>1, <2>3, <2>4 DEF Delegate, Registered
  <1>2. ASSUME NEW j \in Jobs, Resume(j) \/ TimeOut(j)
        PROVE  OnceEach'
    BY <1>2 DEF Resume, TimeOut, Waiting, To, lockedVars, leafVars, OnceEach, Queued,
                Answered, InFlight, Verdicts
  <1>3. CASE Pop
    BY <1>3, Popped DEF Pop, leafVars, OnceEach, Queued, InFlight
  <1>4. CASE LeafTakes
    BY <1>4, Taking DEF LeafTakes, lockedVars, OnceEach, Answered, InFlight
  <1>5. ASSUME NEW j \in Jobs, LeafAnswers(j)
        PROVE  OnceEach'
    BY <1>5, Reported DEF LeafAnswers, lockedVars, OnceEach, Queued, InFlight
  <1>6. CASE FailAll \/ Complete \/ Shutdown \/ Die \/ LeafExits \/ UNCHANGED relayVars
    <2>1. UNCHANGED <<thread, toLeaf, fromLeaf, leaf>>
      BY <1>6 DEF FailAll, Complete, Shutdown, Die, LeafExits, relayVars, lockedVars, leafVars
    <2>. QED  BY <2>1 DEF OnceEach, Queued, Answered, InFlight
  <1>. QED
    BY <1>1, <1>2, <1>3, <1>4, <1>5, <1>6
       DEF RelayNext, Delegations, Waits, ReaderStep, LeafStep

(* A job leaves relay_waiters only when it is answered, or the leaf is gone. *)
LEMMA FlightStep ==
    ASSUME RelayInv, [RelayNext]_relayVars
    PROVE  FlightKnown'
  <1>. USE DEF RelayInv, RelayTypes
  <1>1. ASSUME NEW j \in Jobs, Delegate(j)
        PROVE  FlightKnown'
    <2>1. leaf[j] = "none" /\ ~Queued(j) /\ ~Answered(j)
      BY <1>1 DEF Delegate, Starts, OnceEach
    <2>2. /\ UNCHANGED <<leaf, fromLeaf, reader, relay_failure, leafLive, future>>
          /\ relay_waiters' \in {relay_waiters, relay_waiters \cup {j}}
          /\ \A k \in Jobs \ {j} : thread'[k] = thread[k]
      BY <1>1 DEF Delegate, Registered, To, leafVars
    <2>3. CASE toLeaf' = toLeaf
      BY <2>1, <2>2, <2>3 DEF FlightKnown, Queued, Answered, InFlight
    <2>4. CASE /\ leafLive /\ toLeaf' = Append(toLeaf, j) /\ thread'[j] = "waiting"
               /\ relay_waiters' = relay_waiters \cup {j}
      <3>1. \A k \in Jobs : InFlight(k)' <=> k = j \/ InFlight(k)
        BY <2>1, <2>2, <2>4, Sending DEF InFlight
      <3>2. \A k \in Jobs : Answered(k)' <=> Answered(k)
        BY <2>2 DEF Answered
      <3>3. j \notin reader.jobs /\ future[j] = "pending"
        BY <1>1 DEF Delegate, Starts, WaiterKnown
      <3>4. \A k \in Jobs \ {j} : SlotOf[k] = SlotOf[j] /\ InFlight(k) => thread[k] = "timeout"
        <4>1. \A k \in Jobs \ {j} : SlotOf[k] = SlotOf[j] => thread[k] = "none" \/ Ended(k)
          BY <1>1 DEF Delegate, Starts, SlotFree
        <4>2. \A k \in Jobs : InFlight(k) => thread[k] \in {"waiting", "timeout"}
          BY <2>4 DEF FlightKnown
        <4>. QED  BY <4>1, <4>2 DEF Ended, Ends
      <3>5. \A k, l \in Jobs :
               k # l /\ SlotOf[k] = SlotOf[l] /\ InFlight(k)' /\ InFlight(l)' =>
                   "timeout" \in {thread'[k], thread'[l]}
        BY <2>2, <3>1, <3>4 DEF FlightKnown
      <3>6. \A k \in Jobs : InFlight(k)' =>
               /\ k \in relay_waiters' /\ k \notin reader'.jobs
               /\ future'[k] = "pending" /\ thread'[k] \in {"waiting", "timeout"}
        BY <2>2, <2>4, <3>1, <3>3 DEF FlightKnown
      <3>. QED  BY <2>2, <2>4, <3>2, <3>5, <3>6 DEF FlightKnown
    <2>. QED  BY <1>1, <2>3, <2>4 DEF Delegate, Registered, To
  <1>2. ASSUME NEW j \in Jobs, Resume(j) \/ TimeOut(j)
        PROVE  FlightKnown'
    <2>1. /\ UNCHANGED <<toLeaf, leaf, fromLeaf, relay_waiters, reader, relay_failure,
                         leafLive, future>>
          /\ thread[j] = "waiting"
          /\ \A k \in Jobs \ {j} : thread'[k] = thread[k]
          /\ thread'[j] = "timeout" \/ future[j] # "pending"
      BY <1>2 DEF Resume, TimeOut, Waiting, To, lockedVars, leafVars
    <2>2. \A k \in Jobs : /\ InFlight(k)' <=> InFlight(k)
                          /\ Answered(k)' <=> Answered(k)
      BY <2>1 DEF InFlight, Queued, Answered
    <2>. QED  BY <2>1, <2>2 DEF FlightKnown
  <1>3. CASE Pop
    <2>1. /\ UNCHANGED <<thread, toLeaf, leaf, relay_failure, leafLive, future>>
          /\ reader.at = "reading"
          /\ reader' = [at |-> "completing", jobs |-> {Head(fromLeaf).job},
                        answer |-> Head(fromLeaf).answer]
          /\ relay_waiters' = relay_waiters \ {Head(fromLeaf).job}
      BY <1>3 DEF Pop, Reading, leafVars
    <2>2. \A k \in Jobs : InFlight(k)' <=> InFlight(k)
      BY <2>1 DEF InFlight, Queued
    <2>3. Head(fromLeaf).job \in Jobs /\ ~InFlight(Head(fromLeaf).job)
      BY <1>3, Popped DEF OnceEach, InFlight
    <2>4. \A k \in Jobs : Answered(k)' <=> k # Head(fromLeaf).job /\ Answered(k)
      BY <1>3, Popped
    <2>. QED  BY <2>1, <2>2, <2>3, <2>4 DEF FlightKnown
  <1>4. CASE FailAll
    <2>1. /\ UNCHANGED <<thread, toLeaf, leaf, fromLeaf, leafLive>>
          /\ reader.at = "reading" /\ reader'.at = "failing"
      BY <1>4 DEF FailAll, Reading, leafVars
    <2>2. ~leafLive
      <3>1. CASE fromLeaf = <<>>
        BY <1>4, <3>1 DEF FailAll
      <3>2. CASE fromLeaf # <<>>
        <4>1. /\ Head(fromLeaf) = fromLeaf[1] /\ 1 \in DOMAIN fromLeaf
              /\ Head(fromLeaf) \in Answers
          BY <3>2, TailElements
        <4>2. Head(fromLeaf).job \in Jobs /\ Answered(Head(fromLeaf).job)
          BY <4>1 DEF Answers, Answered
        <4>. QED  BY <1>4, <2>1, <3>2, <4>2 DEF FailAll, FlightKnown
      <3>. QED  BY <3>1, <3>2
    <2>3. \A k \in Jobs : InFlight(k)' <=> InFlight(k)
      BY <2>1 DEF InFlight, Queued
    <2>. QED  BY <2>1, <2>2, <2>3 DEF FlightKnown
  <1>5. CASE Complete
    <2>1. /\ UNCHANGED <<thread, toLeaf, leaf, fromLeaf, leafLive, relay_waiters,
                         relay_failure>>
          /\ reader.at \in {"completing", "failing"}
          /\ reader'.jobs = {}
          /\ reader'.at = IF reader.at = "failing" THEN "ended" ELSE "reading"
          /\ \A k \in Jobs : k \notin reader.jobs => future'[k] = future[k]
      BY <1>5 DEF Complete, lockedVars, leafVars
    <2>2. \A k \in Jobs : /\ InFlight(k)' <=> InFlight(k)
                          /\ Answered(k)' <=> Answered(k)
      BY <2>1 DEF InFlight, Queued, Answered
    <2>. QED  BY <2>1, <2>2 DEF FlightKnown
  <1>6. CASE LeafTakes
    <2>1. UNCHANGED <<thread, fromLeaf, reader, leafLive, relay_waiters, relay_failure,
                      future>>
          /\ leaf' = [leaf EXCEPT ![Head(toLeaf)] = "running"]
      BY <1>6 DEF LeafTakes, lockedVars
    <2>2. \A k \in Jobs : InFlight(k)' <=> InFlight(k)
      BY <1>6, <2>1, Taking DEF InFlight
    <2>3. \A k \in Jobs : Answered(k)' <=> Answered(k)
      BY <2>1 DEF Answered
    <2>. QED  BY <2>1, <2>2, <2>3 DEF FlightKnown
  <1>7. ASSUME NEW j \in Jobs, LeafAnswers(j)
        PROVE  FlightKnown'
    <2>1. /\ UNCHANGED <<thread, toLeaf, reader, leafLive, relay_waiters, relay_failure,
                         future>>
          /\ leafLive /\ leaf[j] = "running" /\ leaf' = [leaf EXCEPT ![j] = "done"]
      BY <1>7 DEF LeafAnswers, lockedVars
    <2>2. \A k \in Jobs : InFlight(k)' => InFlight(k)
      BY <2>1 DEF InFlight, Queued
    <2>3. j \in relay_waiters
      BY <2>1 DEF FlightKnown, InFlight
    <2>4. \A k \in Jobs : Answered(k)' <=> k = j \/ Answered(k)
      BY <1>7, Reported
    <2>. QED  BY <2>1, <2>2, <2>3, <2>4 DEF FlightKnown
  <1>8. CASE Shutdown \/ Die \/ LeafExits \/ UNCHANGED relayVars
    <2>1. /\ UNCHANGED <<thread, toLeaf, fromLeaf, leaf, reader, relay_waiters,
                         relay_failure, future>>
          /\ leafLive' => leafLive
      BY <1>8 DEF Shutdown, Die, LeafExits, relayVars, lockedVars, leafVars
    <2>2. \A k \in Jobs : /\ InFlight(k)' <=> InFlight(k)
                          /\ Answered(k)' <=> Answered(k)
      BY <2>1 DEF InFlight, Queued, Answered
    <2>. QED  BY <2>1, <2>2 DEF FlightKnown
  <1>. QED
    BY <1>1, <1>2, <1>3, <1>4, <1>5, <1>6, <1>7, <1>8
       DEF RelayNext, Delegations, Waits, ReaderStep, LeafStep

(* The invariant holds in every behaviour of the relay. *)
LEMMA RelayInvariant == RelaySpec => []RelayInv
  <1>1. RelayInv /\ [RelayNext]_relayVars => RelayInv'
    BY TypesStep, WaiterStep, AnswersStep, OnceStep, FlightStep DEF RelayInv
  <1>. QED  BY RelayInvInit, <1>1, PTL DEF RelaySpec

-----------------------------------------------------------------------------
(* When the reader thread has ended, no thread of the pool waits for an      *)
(* answer it will never get: delegate and read_relay_responses.              *)
THEOREM NobodyIsForgotten == RelaySpec => []NobodyForgotten
  <1>1. RelayInv => NobodyForgotten
    BY DEF RelayInv, RelayTypes, WaiterKnown, NobodyForgotten
  <1>. QED  BY RelayInvariant, <1>1, PTL

(* A delegation that succeeds has written its own slot, and the second       *)
(* worker has two jobs of one slot only after a wait for one timed out.      *)
THEOREM RelayedJobsAreDone == RelaySpec => []RelayedIsDone
  <1>1. ASSUME RelayInv PROVE RelayedIsDone
    <2>1. \A j \in Jobs : thread[j] = "ok" => j \in written
      BY <1>1 DEF RelayInv, AnswersTrue
    <2>2. \A j \in Jobs : leaf[j] = "running" => InFlight(j)
      BY DEF InFlight
    <2>. QED  BY <1>1, <2>1, <2>2 DEF RelayInv, FlightKnown, RelayedIsDone
  <1>. QED  BY RelayInvariant, <1>1, PTL
-----------------------------------------------------------------------------
(***************************************************************************)
(* Evidence of ring operations names the resource they are on, for any     *)
(* number of threads, descriptors, installations and closes.               *)
(***************************************************************************)

Doings == [call : Calls \cup {"none", "close"}, done : BOOLEAN,
           number : Numbers \cup {-1}, made : Nat,
           since : SUBSET Numbers, around : SUBSET Debugged]

(* A call has a number once it is entered (close) or done (installation). *)
NativeTypes ==
    /\ resource \in [Numbers -> Nat] /\ active \in [Numbers -> Nat]
    /\ epochs \in [Numbers -> Nat] /\ installs \in Nat
    /\ doing \in [Debugged -> Doings]
    /\ interrupted \subseteq Numbers
    /\ \A t \in Debugged :
          /\ Doing(t, {"close"}) => doing[t].number \in Numbers
          /\ Doing(t, Calls) /\ ~doing[t].done => doing[t].number = -1
          /\ Doing(t, Calls) /\ doing[t].number # -1 => doing[t].made # 0

(* A close beside an installation was there before it, or was seen coming. *)
Witnessed == \A t, u \in Debugged :
    Doing(t, Calls) /\ Doing(u, {"close"}) =>
        u \in doing[t].around \/ doing[u].number \in doing[t].since

(* What an installation is about to return is still there, unless a close of *)
(* the number came during it.                                                *)
Standing == \A t \in Debugged :
    /\ Doing(t, Calls) /\ doing[t].number # -1
    /\ doing[t].number \notin doing[t].since /\ ~evaded
    => resource[doing[t].number] = doing[t].made

(* A link is to what the number means, and nobody is closing it. *)
Links == \A n \in Numbers : active[n] # 0 =>
    Closing(n) = {} /\ (~evaded => resource[n] = active[n])

(* u has freed what number n meant and not yet returned. *)
Freed(u, n) == /\ Doing(u, {"close"}) /\ doing[u].number = n
               /\ doing[u].done /\ doing[u].made # 0

(* Within an epoch the number means what it meant, or its close is under way. *)
Epochal == \A r \in references :
    /\ r.target \in Numbers /\ r.resource # 0
    /\ r.epoch.count \in Nat /\ r.epoch.count <= epochs[r.target]
    /\ r.epoch.count = epochs[r.target] /\ r.target \notin interrupted
          => \/ resource[r.target] = r.resource
             \/ \E u \in Debugged : Freed(u, r.target)

NativeInv == NativeTypes /\ Witnessed /\ Standing /\ Links /\ Epochal

-----------------------------------------------------------------------------
(* Records of calls stay records of calls. *)
LEMMA FreshCall ==
    ASSUME NEW c \in Calls \cup {"none", "close"}, NEW n \in Numbers \cup {-1},
           NEW around \in SUBSET Debugged
    PROVE  /\ [Idle EXCEPT !.call = c, !.around = around] \in Doings
           /\ [Idle EXCEPT !.call = c, !.number = n] \in Doings
           /\ Idle \in Doings
BY DEF Idle, Doings

(* So does one that a step of the kernel or another thread's close changes. *)
LEMMA ChangedCall ==
    ASSUME NEW d \in Doings, NEW n \in Numbers \cup {-1}, NEW m \in Nat, NEW u
    PROVE  /\ [d EXCEPT !.done = TRUE] \in Doings
           /\ [d EXCEPT !.done = TRUE, !.made = m] \in Doings
           /\ [d EXCEPT !.done = TRUE, !.number = n, !.made = m] \in Doings
           /\ n # -1 => [d EXCEPT !.since = @ \cup {n}, !.around = @ \ {u}] \in Doings
BY DEF Doings

(* Nothing is installed, closed or referred to at the start. *)
LEMMA NativeStart == NativeInit => NativeInv
BY DEF NativeInit, NativeInv, NativeTypes, Witnessed, Standing, Links, Epochal,
       Doings, Idle, Calls, Doing, Closing, Freed

(* What a step does not write of such a record it leaves. *)
LEMMA KeptFields ==
    ASSUME NEW d \in Doings, NEW n, NEW m, NEW u
    PROVE  /\ LET e == [d EXCEPT !.done = TRUE] IN
                 /\ e.call = d.call /\ e.done /\ e.number = d.number
                 /\ e.made = d.made /\ e.since = d.since /\ e.around = d.around
           /\ LET e == [d EXCEPT !.done = TRUE, !.made = m] IN
                 /\ e.call = d.call /\ e.done /\ e.number = d.number
                 /\ e.made = m /\ e.since = d.since /\ e.around = d.around
           /\ LET e == [d EXCEPT !.done = TRUE, !.number = n, !.made = m] IN
                 /\ e.call = d.call /\ e.done /\ e.number = n
                 /\ e.made = m /\ e.since = d.since /\ e.around = d.around
           /\ LET e == [d EXCEPT !.since = @ \cup {n}, !.around = @ \ {u}] IN
                 /\ e.call = d.call /\ e.done = d.done /\ e.number = d.number
                 /\ e.made = d.made /\ e.since = d.since \cup {n}
                 /\ e.around = d.around \ {u}
BY DEF Doings

(* The threads' records and the tables keep their types. *)
LEMMA NativeTypesStep ==
    ASSUME NativeTypes, NativeNext
    PROVE  NativeTypes'
<1> USE DEF NativeTypes, Doing
<1>0. -1 \notin Numbers /\ "none" \notin Calls /\ "close" \notin Calls
  BY NativeAssumption DEF Calls
<1>1. PICK t \in Debugged :
         \/ EnterInstall(t) \/ TakeNumber(t) \/ ReturnInstall(t)
         \/ EnterClose(t) \/ FreeNumber(t) \/ ReturnClose(t) \/ Reference(t)
  BY DEF NativeNext
<1>2. CASE EnterInstall(t)
  <2>1. PICK c \in Calls : doing' = [doing EXCEPT ![t] =
           [Idle EXCEPT !.call = c, !.around = {u \in Debugged : Doing(u, {"close"})}]]
    BY <1>2, Zenon DEF EnterInstall
  <2>2. doing' \in [Debugged -> Doings]
    BY <2>1, FreshCall
  <2>3. doing'[t].call = c /\ doing'[t].number = -1
    BY <2>1 DEF Idle
  <2>4. \A u \in Debugged : u # t => doing'[u] = doing[u]
    BY <2>1
  <2> QED  BY <1>0, <1>2, <2>2, <2>3, <2>4 DEF EnterInstall
<1>3. CASE TakeNumber(t)
  <2>1. CASE /\ doing' = [doing EXCEPT ![t].done = TRUE]
             /\ UNCHANGED <<resource, installs>>
    <3>1. doing' \in [Debugged -> Doings]
      BY <2>1, ChangedCall, Zenon
    <3>2. /\ doing'[t].call = doing[t].call /\ doing'[t].done
          /\ doing'[t].number = -1
      <4>1. doing[t].number = -1
        BY <1>3 DEF TakeNumber
      <4>2. doing'[t] = [doing[t] EXCEPT !.done = TRUE]
        BY <2>1
      <4> QED  BY <4>1, <4>2, KeptFields
    <3>3. \A u \in Debugged : u # t => doing'[u] = doing[u]
      BY <2>1
    <3> QED  BY <1>0, <1>3, <2>1, <3>1, <3>2, <3>3 DEF TakeNumber
  <2>2. ASSUME NEW n \in Numbers, installs' = installs + 1,
               resource' = [resource EXCEPT ![n] = installs'],
               doing' = [doing EXCEPT ![t].done = TRUE, ![t].number = n,
                                      ![t].made = installs']
        PROVE  NativeTypes'
    <3>1. installs' \in Nat \ {0} /\ resource' \in [Numbers -> Nat]
      BY <2>2
    <3>2. doing' = [doing EXCEPT ![t] = [doing[t] EXCEPT !.done = TRUE,
                       !.number = n, !.made = installs']]
      BY <2>2
    <3>3. doing' \in [Debugged -> Doings]
      BY <3>1, <3>2, ChangedCall, Zenon
    <3>4. \A u \in Debugged : u # t => doing'[u] = doing[u]
      BY <3>2
    <3>5. /\ doing'[t].call = doing[t].call /\ doing'[t].done
          /\ doing'[t].number = n /\ doing'[t].made # 0
      BY <3>1, <3>2, KeptFields
    <3>6. doing[t].call \in Calls /\ UNCHANGED <<active, epochs, interrupted>>
      BY <1>3 DEF TakeNumber
    <3> HIDE DEF TakeNumber
    <3> QED  BY <1>0, <3>1, <3>3, <3>4, <3>5, <3>6
  <2> QED  BY <1>3, <2>1, <2>2 DEF TakeNumber
<1>4. CASE ReturnInstall(t)
  <2>1. doing' \in [Debugged -> Doings] /\ doing'[t] = Idle
    BY <1>4, FreshCall DEF ReturnInstall
  <2>2. \A u \in Debugged : u # t => doing'[u] = doing[u]
    BY <1>4 DEF ReturnInstall
  <2>3. doing[t].number \in Numbers \cup {-1} /\ doing[t].made \in Nat
    BY DEF Doings
  <2>4. active' \in [Numbers -> Nat]
    BY <1>4, <2>3 DEF ReturnInstall
  <2> QED  BY <1>0, <1>4, <2>1, <2>2, <2>4 DEF ReturnInstall, Idle
<1>5. CASE EnterClose(t)
  <2>1. PICK n \in Numbers :
           /\ active' = [active EXCEPT ![n] = 0]
           /\ doing' = [u \in Debugged |->
                 IF u = t THEN [Idle EXCEPT !.call = "close", !.number = n]
                 ELSE IF Doing(u, Calls)
                 THEN [doing[u] EXCEPT !.since = @ \cup {n}, !.around = @ \ {t}]
                 ELSE doing[u]]
    BY <1>5 DEF EnterClose
  <2>2. doing' \in [Debugged -> Doings]
    <3>1. \A u \in Debugged : [doing[u] EXCEPT !.since = @ \cup {n}, !.around = @ \ {t}] \in Doings
      BY <1>0, ChangedCall, Zenon
    <3>2. [Idle EXCEPT !.call = "close", !.number = n] \in Doings
      BY FreshCall
    <3> QED  BY <2>1, <3>1, <3>2
  <2>3. doing'[t].call = "close" /\ doing'[t].number = n
    BY <2>1 DEF Idle
  <2>4. \A u \in Debugged : u # t =>
           /\ doing'[u].call = doing[u].call /\ doing'[u].done = doing[u].done
           /\ doing'[u].number = doing[u].number /\ doing'[u].made = doing[u].made
    <3>1. SUFFICES ASSUME NEW u \in Debugged, u # t, Doing(u, Calls)
                   PROVE  /\ doing'[u].call = doing[u].call
                          /\ doing'[u].done = doing[u].done
                          /\ doing'[u].number = doing[u].number
                          /\ doing'[u].made = doing[u].made
      BY <2>1
    <3>2. doing'[u] = [doing[u] EXCEPT !.since = @ \cup {n}, !.around = @ \ {t}]
      BY <2>1, <3>1
    <3> QED  BY <3>2, KeptFields
  <2>5. /\ UNCHANGED <<resource, epochs, installs, interrupted>>
        /\ active' \in [Numbers -> Nat]
    BY <1>5, <2>1 DEF EnterClose
  <2> QED  BY <1>0, <2>2, <2>3, <2>4, <2>5
<1>6. CASE FreeNumber(t)
  <2>1. resource[doing[t].number] \in Nat /\ resource' \in [Numbers -> Nat]
    BY <1>6 DEF FreeNumber
  <2>2. doing' = [doing EXCEPT ![t] = [doing[t] EXCEPT !.done = TRUE,
                     !.made = resource[doing[t].number]]]
    BY <1>6 DEF FreeNumber
  <2>3. doing' \in [Debugged -> Doings]
    BY <2>1, <2>2, ChangedCall, Zenon
  <2>4. \A u \in Debugged : u # t => doing'[u] = doing[u]
    BY <2>2
  <2>5. doing'[t].call = "close" /\ doing'[t].number = doing[t].number
    BY <1>6, <2>2 DEF FreeNumber, Doings
  <2> QED  BY <1>0, <1>6, <2>1, <2>3, <2>4, <2>5 DEF FreeNumber
<1>7. CASE ReturnClose(t)
  <2>1. doing' \in [Debugged -> Doings] /\ doing'[t] = Idle
    BY <1>7, FreshCall DEF ReturnClose
  <2>2. \A u \in Debugged : u # t => doing'[u] = doing[u]
    BY <1>7 DEF ReturnClose
  <2>3. interrupted' \subseteq Numbers /\ epochs' \in [Numbers -> Nat]
    BY <1>7 DEF ReturnClose
  <2> QED  BY <1>0, <1>7, <2>1, <2>2, <2>3 DEF ReturnClose, Idle
<1>8. CASE Reference(t)
  BY <1>8 DEF Reference
<1> QED  BY <1>1, <1>2, <1>3, <1>4, <1>5, <1>6, <1>7, <1>8

Beside == Witnessed /\ Standing /\ Links /\ Epochal

(* What kinds of calls there are, and -1 is no number. *)
LEMMA Kinds == -1 \notin Numbers /\ "none" \notin Calls /\ "close" \notin Calls
BY NativeAssumption DEF Calls

(* A new installation has met nothing but the closes around it. *)
LEMMA EnterInstallKeeps ==
    ASSUME NativeInv, NEW t \in Debugged, EnterInstall(t)
    PROVE  Beside'
<1> USE DEF NativeInv, NativeTypes, Doing
<1>1. PICK c \in Calls : doing' = [doing EXCEPT ![t] =
         [Idle EXCEPT !.call = c, !.around = {u \in Debugged : Doing(u, {"close"})}]]
  BY Zenon DEF EnterInstall
<1>2. /\ doing'[t].call = c /\ doing'[t].number = -1
      /\ doing'[t].around = {u \in Debugged : doing[u].call = "close"}
  BY <1>1 DEF Idle
<1>3. doing[t].call = "none" /\ \A u \in Debugged : u # t => doing'[u] = doing[u]
  BY <1>1 DEF EnterInstall
<1>4. UNCHANGED <<resource, active, epochs, interrupted, evaded, references>>
  BY DEF EnterInstall
<1>5. Witnessed'
  BY <1>2, <1>3, Kinds DEF Witnessed
<1>6. Standing'
  BY <1>2, <1>3, <1>4 DEF Standing
<1>7. Links'
  BY <1>2, <1>3, <1>4, Kinds DEF Links, Closing
<1>8. Epochal'
  <2>1. \A u \in Debugged : \A n : Freed(u, n) => Freed(u, n)'
    BY <1>3 DEF Freed
  <2> QED  BY <1>4, <2>1 DEF Epochal
<1> QED  BY <1>5, <1>6, <1>7, <1>8 DEF Beside

(* A number is only given out when it means nothing. *)
LEMMA TakeNumberKeeps ==
    ASSUME NativeInv, NEW t \in Debugged, TakeNumber(t)
    PROVE  Beside'
<1> USE DEF NativeInv, NativeTypes, Doing
<1>1. /\ doing[t].call \in Calls /\ ~doing[t].done /\ doing[t].number = -1
      /\ UNCHANGED <<active, epochs, interrupted, evaded, references>>
  BY DEF TakeNumber
<1>2. \A u \in Debugged : u # t => doing'[u] = doing[u]
  BY DEF TakeNumber
<1>3. /\ doing'[t].call = doing[t].call /\ doing'[t].since = doing[t].since
      /\ doing'[t].around = doing[t].around
  <2>1. CASE doing' = [doing EXCEPT ![t].done = TRUE]
    <3>1. doing'[t] = [doing[t] EXCEPT !.done = TRUE]
      BY <2>1
    <3> QED  BY <3>1, KeptFields
  <2>2. ASSUME NEW n, NEW m,
               doing' = [doing EXCEPT ![t].done = TRUE, ![t].number = n, ![t].made = m]
        PROVE  /\ doing'[t].call = doing[t].call /\ doing'[t].since = doing[t].since
               /\ doing'[t].around = doing[t].around
    <3>1. doing'[t] = [doing[t] EXCEPT !.done = TRUE, !.number = n, !.made = m]
      BY <2>2
    <3> QED  BY <3>1, KeptFields
  <2> QED  BY <2>1, <2>2 DEF TakeNumber
<1>4. \/ doing'[t].number = -1 /\ UNCHANGED resource
      \/ \E n \in Numbers :
            /\ resource[n] = 0 /\ doing'[t].number = n
            /\ resource' = [resource EXCEPT ![n] = doing'[t].made]
  <2>1. CASE doing' = [doing EXCEPT ![t].done = TRUE] /\ UNCHANGED resource
    <3>1. doing'[t] = [doing[t] EXCEPT !.done = TRUE]
      BY <2>1
    <3> QED  BY <1>1, <2>1, <3>1, KeptFields
  <2>2. ASSUME NEW n \in Numbers, resource[n] = 0, NEW m,
               resource' = [resource EXCEPT ![n] = m],
               doing' = [doing EXCEPT ![t].done = TRUE, ![t].number = n, ![t].made = m]
        PROVE  /\ resource[n] = 0 /\ doing'[t].number = n
               /\ resource' = [resource EXCEPT ![n] = doing'[t].made]
    <3>1. doing'[t] = [doing[t] EXCEPT !.done = TRUE, !.number = n, !.made = m]
      BY <2>2
    <3> QED  BY <2>2, <3>1, KeptFields
  <2> QED  BY <2>1, <2>2 DEF TakeNumber
<1>5. \A n \in Numbers : resource[n] # 0 => resource'[n] = resource[n]
  BY <1>4
<1>6. Witnessed'
  BY <1>1, <1>2, <1>3, Kinds DEF Witnessed
<1>7. Standing'
  <2>1. \A u \in Debugged \ {t} : doing[u].number \in Numbers \cup {-1}
    BY DEF Doings
  <2> QED  BY <1>1, <1>2, <1>3, <1>4, <1>5, <2>1 DEF Standing
<1>8. Links'
  BY <1>1, <1>2, <1>3, <1>5, Kinds DEF Links, Closing
<1>9. Epochal'
  <2>1. \A u \in Debugged : \A n : Freed(u, n) => Freed(u, n)'
    BY <1>1, <1>2, Kinds DEF Freed
  <2> QED  BY <1>1, <1>5, <2>1 DEF Epochal
<1> QED  BY <1>6, <1>7, <1>8, <1>9 DEF Beside

(* It is linked only if no close of it came between. *)
LEMMA ReturnInstallKeeps ==
    ASSUME NativeInv, NEW t \in Debugged, ReturnInstall(t)
    PROVE  Beside'
<1> USE DEF NativeInv, NativeTypes, Doing
<1>1. /\ doing[t].call \in Calls /\ doing' = [doing EXCEPT ![t] = Idle]
      /\ UNCHANGED <<resource, epochs, interrupted, evaded, references>>
  BY DEF ReturnInstall
<1>2. /\ doing'[t].call = "none"
      /\ \A u \in Debugged : u # t => doing'[u] = doing[u]
  BY <1>1 DEF Idle
<1>3. Witnessed'
  BY <1>2, Kinds DEF Witnessed
<1>4. Standing'
  BY <1>1, <1>2, Kinds DEF Standing
<1>5. Links'
  <2>1. \A n \in Numbers : Closing(n)' = Closing(n)
    BY <1>1, <1>2, Kinds DEF Closing
  <2>2. \/ UNCHANGED active
        \/ doing[t].number \in Numbers /\ active' = [active EXCEPT ![doing[t].number] = 0]
        \/ /\ doing[t].number \in Numbers /\ ~Overlapped(t)
           /\ active' = [active EXCEPT ![doing[t].number] = doing[t].made]
    <3>1. doing[t].number \in Numbers \cup {-1}
      BY DEF Doings
    <3> QED  BY <3>1 DEF ReturnInstall
  <2>3. ~Overlapped(t) /\ doing[t].number \in Numbers =>
           /\ Closing(doing[t].number) = {}
           /\ ~evaded => resource[doing[t].number] = doing[t].made
    BY <1>1, Kinds DEF Overlapped, Standing
  <2> QED  BY <1>1, <2>1, <2>2, <2>3 DEF Links
<1>6. Epochal'
  <2>1. \A u \in Debugged : \A n : Freed(u, n) => Freed(u, n)'
    BY <1>1, <1>2, Kinds DEF Freed
  <2> QED  BY <1>1, <2>1 DEF Epochal
<1> QED  BY <1>3, <1>4, <1>5, <1>6 DEF Beside

(* A close unlinks its number and is seen by the installations beside it. *)
LEMMA EnterCloseKeeps ==
    ASSUME NativeInv, NEW t \in Debugged, EnterClose(t)
    PROVE  Beside'
<1> USE DEF NativeInv, NativeTypes, Doing
<1>1. PICK n \in Numbers :
         /\ active' = [active EXCEPT ![n] = 0]
         /\ doing' = [u \in Debugged |->
               IF u = t THEN [Idle EXCEPT !.call = "close", !.number = n]
               ELSE IF Doing(u, Calls)
               THEN [doing[u] EXCEPT !.since = @ \cup {n}, !.around = @ \ {t}]
               ELSE doing[u]]
  BY DEF EnterClose
<1>2. /\ doing[t].call = "none"
      /\ UNCHANGED <<resource, epochs, interrupted, evaded, references>>
  BY DEF EnterClose
<1>3. doing'[t].call = "close" /\ doing'[t].number = n
  BY <1>1 DEF Idle
<1>4. ASSUME NEW u \in Debugged, u # t, doing[u].call \in Calls
      PROVE  /\ doing'[u].call = doing[u].call /\ doing'[u].number = doing[u].number
             /\ doing'[u].made = doing[u].made
             /\ doing'[u].since = doing[u].since \cup {n}
             /\ doing'[u].around = doing[u].around \ {t}
  <2>1. doing'[u] = [doing[u] EXCEPT !.since = @ \cup {n}, !.around = @ \ {t}]
    BY <1>1, <1>4
  <2> QED  BY <2>1, KeptFields
<1>5. \A u \in Debugged : u # t /\ doing[u].call \notin Calls => doing'[u] = doing[u]
  BY <1>1
<1>6. Witnessed'
  <2>1. SUFFICES ASSUME NEW i \in Debugged, NEW u \in Debugged,
                        doing'[i].call \in Calls, doing'[u].call = "close"
                 PROVE  u \in doing'[i].around \/ doing'[u].number \in doing'[i].since
    BY DEF Witnessed
  <2>2. i # t /\ doing[i].call \in Calls
    BY <1>3, <1>5, <2>1, Kinds
  <2>3. CASE u = t
    BY <1>3, <1>4, <2>2, <2>3
  <2>4. CASE u # t
    <3>1. doing[u].call = "close" /\ doing'[u] = doing[u]
      BY <1>4, <1>5, <2>1, <2>4, Kinds
    <3> QED  BY <1>4, <2>2, <2>4, <3>1 DEF Witnessed
  <2> QED  BY <2>3, <2>4
<1>7. Standing'
  <2>1. SUFFICES ASSUME NEW i \in Debugged, doing'[i].call \in Calls,
                        doing'[i].number # -1, ~evaded',
                        doing'[i].number \notin doing'[i].since
                 PROVE  resource'[doing'[i].number] = doing'[i].made
    BY DEF Standing
  <2>2. i # t /\ doing[i].call \in Calls
    BY <1>3, <1>5, <2>1, Kinds
  <2> QED  BY <1>2, <1>4, <2>1, <2>2 DEF Standing
<1>8. Links'
  <2>1. \A m \in Numbers \ {n} : Closing(m)' = Closing(m)
    BY <1>2, <1>3, <1>4, <1>5, Kinds DEF Closing
  <2> QED  BY <1>1, <1>2, <2>1 DEF Links
<1>9. Epochal'
  <2>1. \A u \in Debugged : \A m : Freed(u, m) => Freed(u, m)'
    BY <1>2, <1>5, Kinds DEF Freed
  <2> QED  BY <1>2, <2>1 DEF Epochal
<1> QED  BY <1>6, <1>7, <1>8, <1>9 DEF Beside

(* What is freed is linked no more; an installation of it either saw the     *)
(* close come, or the close was around it: evaded.                           *)
LEMMA FreeNumberKeeps ==
    ASSUME NativeInv, NEW t \in Debugged, FreeNumber(t)
    PROVE  Beside'
<1> USE DEF NativeInv, NativeTypes, Doing
<1> DEFINE n == doing[t].number
<1>1. /\ doing[t].call = "close" /\ ~doing[t].done /\ n \in Numbers
      /\ resource' = [resource EXCEPT ![n] = 0]
      /\ UNCHANGED <<active, epochs, interrupted, references>>
  BY DEF FreeNumber
<1>2. /\ doing'[t].call = "close" /\ doing'[t].number = n
      /\ doing'[t].done /\ doing'[t].made = resource[n]
  <2>1. doing'[t] = [doing[t] EXCEPT !.done = TRUE, !.made = resource[n]]
    BY DEF FreeNumber
  <2> QED  BY <1>1, <2>1, KeptFields
<1>3. \A u \in Debugged : u # t => doing'[u] = doing[u]
  BY DEF FreeNumber
<1>4. Witnessed'
  BY <1>1, <1>2, <1>3, Kinds DEF Witnessed
<1>5. Standing'
  <2>1. SUFFICES ASSUME NEW i \in Debugged, doing'[i].call \in Calls,
                        doing'[i].number # -1, ~evaded',
                        doing'[i].number \notin doing'[i].since
                 PROVE  resource'[doing'[i].number] = doing'[i].made
    BY DEF Standing
  <2>2. i # t /\ doing'[i] = doing[i]
    BY <1>2, <1>3, <2>1, Kinds
  <2>3. ~evaded
    BY <2>1 DEF FreeNumber
  <2>4. doing[i].made # 0 /\ doing[i].number \in Numbers
    BY <2>1, <2>2 DEF Doings
  <2>5. resource[doing[i].number] = doing[i].made
    BY <2>1, <2>2, <2>3 DEF Standing
  <2>6. CASE doing[i].number = n
    <3>1. t \in doing[i].around
      BY <1>1, <2>1, <2>2, <2>6 DEF Witnessed
    <3> QED  BY <2>1, <2>2, <2>4, <2>5, <2>6, <3>1 DEF FreeNumber
  <2>7. CASE doing[i].number # n
    BY <1>1, <2>2, <2>4, <2>5, <2>7
  <2> QED  BY <2>6, <2>7
<1>6. Links'
  <2>1. \A m \in Numbers : Closing(m)' = Closing(m)
    BY <1>1, <1>2, <1>3 DEF Closing
  <2>2. t \in Closing(n)
    BY <1>1 DEF Closing
  <2>3. evaded => evaded'
    BY DEF FreeNumber
  <2> QED  BY <1>1, <2>1, <2>2, <2>3 DEF Links
<1>7. Epochal'
  <2>1. \A u \in Debugged : \A m : Freed(u, m) => Freed(u, m)'
    BY <1>1, <1>3 DEF Freed
  <2>2. \A m \in Numbers : m = n /\ resource[m] # 0 => Freed(t, m)'
    BY <1>2 DEF Freed
  <2>3. ASSUME NEW r \in references, resource[r.target] = r.resource, r.resource # 0
        PROVE  resource'[r.target] = r.resource \/ \E u \in Debugged : Freed(u, r.target)'
    <3>1. r.target \in Numbers
      BY DEF Epochal
    <3>2. CASE r.target = n
      BY <2>2, <2>3, <3>1, <3>2
    <3>3. CASE r.target # n
      BY <1>1, <2>3, <3>1, <3>3
    <3> QED  BY <3>2, <3>3
  <2> HIDE DEF n
  <2> QED  BY <1>1, <2>1, <2>3 DEF Epochal
<1> QED  BY <1>4, <1>5, <1>6, <1>7 DEF Beside

(* A close that freed something begins an epoch, or failed. *)
LEMMA ReturnCloseKeeps ==
    ASSUME NativeInv, NEW t \in Debugged, ReturnClose(t)
    PROVE  Beside'
<1> USE DEF NativeInv, NativeTypes, Doing
<1> DEFINE n == doing[t].number
<1>1. /\ doing[t].call = "close" /\ n \in Numbers
      /\ UNCHANGED <<resource, active, evaded, references>>
  BY DEF ReturnClose
<1>2. /\ doing'[t].call = "none"
      /\ \A u \in Debugged : u # t => doing'[u] = doing[u]
  BY DEF ReturnClose, Idle
<1>3. Witnessed'
  BY <1>2, Kinds DEF Witnessed
<1>4. Standing'
  BY <1>1, <1>2, Kinds DEF Standing
<1>5. Links'
  <2>1. \A m \in Numbers : Closing(m)' \subseteq Closing(m)
    BY <1>2 DEF Closing
  <2> QED  BY <1>1, <2>1 DEF Links
<1>6. Epochal'
  <2>1. \A u \in Debugged : \A m : Freed(u, m) => Freed(u, m)' \/ u = t
    BY <1>2 DEF Freed
  <2>2. \/ epochs' = [epochs EXCEPT ![n] = @ + 1] /\ UNCHANGED interrupted
        \/ /\ UNCHANGED epochs /\ interrupted \subseteq interrupted'
           /\ doing[t].made # 0 => n \in interrupted'
    BY DEF ReturnClose
  <2>3. SUFFICES ASSUME NEW r \in references
                 PROVE  /\ r.target \in Numbers /\ r.resource # 0
                        /\ r.epoch.count \in Nat
                        /\ r.epoch.count <= epochs'[r.target]
                        /\ r.epoch.count = epochs'[r.target]
                              /\ r.target \notin interrupted'
                           => \/ resource'[r.target] = r.resource
                              \/ \E u \in Debugged : Freed(u, r.target)'
    BY <1>1 DEF Epochal
  <2>4. CASE epochs' = [epochs EXCEPT ![n] = @ + 1] /\ UNCHANGED interrupted
    <3>1. CASE r.target = n
      BY <1>1, <2>4, <3>1 DEF Epochal
    <3>2. CASE r.target # n
      <4>1. ~Freed(t, r.target)
        BY <3>2 DEF Freed
      <4> QED  BY <1>1, <2>1, <2>4, <3>2, <4>1 DEF Epochal
    <3> QED  BY <3>1, <3>2
  <2>5. CASE /\ UNCHANGED epochs /\ interrupted \subseteq interrupted'
             /\ doing[t].made # 0 => n \in interrupted'
    <3>1. r.target \notin interrupted' => ~Freed(t, r.target)
      BY <2>5 DEF Freed
    <3> QED  BY <1>1, <2>1, <2>5, <3>1 DEF Epochal
  <2> QED  BY <2>2, <2>4, <2>5
<1> QED  BY <1>3, <1>4, <1>5, <1>6 DEF Beside

(* An operation is remembered with what its number means now. *)
LEMMA ReferenceKeeps ==
    ASSUME NativeInv, NEW t \in Debugged, Reference(t)
    PROVE  Beside'
<1> USE DEF NativeInv, NativeTypes, Doing
<1>1. UNCHANGED <<resource, doing, active, epochs, interrupted, evaded>>
  BY DEF Reference
<1>2. Witnessed' /\ Standing' /\ Links'
  BY <1>1 DEF Witnessed, Standing, Links, Closing
<1>3. Epochal'
  <2>1. \A u \in Debugged : \A m : Freed(u, m)' <=> Freed(u, m)
    BY <1>1 DEF Freed
  <2>2. PICK n \in Numbers :
           resource[n] # 0 /\ references' = references \cup {Evidence(n)}
    BY DEF Reference
  <2> QED  BY <1>1, <2>1, <2>2 DEF Epochal, Evidence, Epoch
<1> QED  BY <1>2, <1>3 DEF Beside

-----------------------------------------------------------------------------
(* No step of a thread breaks the invariant. *)
LEMMA NativeKept == NativeInv /\ [NativeNext]_nativeVars => NativeInv'
<1> SUFFICES ASSUME NativeInv, [NativeNext]_nativeVars PROVE NativeInv'
  OBVIOUS
<1>1. CASE UNCHANGED nativeVars
  BY <1>1 DEF nativeVars, NativeInv, NativeTypes, Witnessed, Standing, Links,
              Epochal, Doing, Closing, Freed
<1>2. CASE NativeNext
  <2>1. NativeTypes'
    BY <1>2, NativeTypesStep DEF NativeInv
  <2>2. Beside'
    BY <1>2, EnterInstallKeeps, TakeNumberKeeps, ReturnInstallKeeps,
       EnterCloseKeeps, FreeNumberKeeps, ReturnCloseKeeps, ReferenceKeeps
       DEF NativeNext
  <2> QED  BY <2>1, <2>2 DEF NativeInv, Beside
<1> QED  BY <1>1, <1>2

(* The two conjuncts of the property are those of the invariant, read of an  *)
(* operation now.                                                            *)
LEMMA NativeSound == NativeInv => ReferencesNameResources
<1> SUFFICES ASSUME NativeInv, NEW n \in Numbers
             PROVE  /\ ~evaded /\ active[n] # 0 => active[n] = resource[n]
                    /\ \A earlier \in references :
                          /\ earlier.target = n /\ earlier.epoch = Epoch(n)
                          /\ ~Epoch(n).unresolved /\ n \notin interrupted
                          /\ resource[n] # 0
                          => resource[n] = earlier.resource
  BY DEF ReferencesNameResources, Evidence, Linked
<1>1. ~evaded /\ active[n] # 0 => active[n] = resource[n]
  BY DEF NativeInv, Links
<1>2. ASSUME NEW earlier \in references, earlier.target = n,
             earlier.epoch = Epoch(n), ~Epoch(n).unresolved, n \notin interrupted
      PROVE  resource[n] = earlier.resource
  <2>1. \A u \in Debugged : ~Freed(u, n)
    BY <1>2 DEF Epoch, Closing, Freed
  <2>2. earlier.epoch.count = epochs[n]
    BY <1>2 DEF Epoch
  <2> QED  BY <1>2, <2>1, <2>2 DEF NativeInv, Epochal
<1> QED  BY <1>1, <1>2

(* Links and epochs of ring operations name the resource they are on, for    *)
(* any number of threads, calls and descriptors: native_socket_lifetimes.py, *)
(* native_close_epochs.py.                                                   *)
THEOREM EvidenceNamesResources == NativeSpec => []ReferencesNameResources
<1>1. NativeSpec => []NativeInv
  BY NativeStart, NativeKept, PTL DEF NativeSpec
<1> QED  BY <1>1, NativeSound, PTL
=============================================================================
