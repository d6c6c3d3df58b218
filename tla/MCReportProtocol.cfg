SPECIFICATION Spec
CONSTANTS
    q1 = q1
    Queries = {q1}
    MaxAnalyses = 3
CHECK_DEADLOCK FALSE
INVARIANTS
    ReportVouches
    PrintedIsOneAnalysis
