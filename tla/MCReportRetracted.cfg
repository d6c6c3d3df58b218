SPECIFICATION Spec
CONSTANTS
    q1 = q1
    Queries = {q1}
    MaxAnalyses = 1
CHECK_DEADLOCK FALSE
INVARIANT
    ChangesAreNoticed
