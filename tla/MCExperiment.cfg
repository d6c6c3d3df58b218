SPECIFICATION Spec
CONSTANTS
    Waves <- MCTogether
    Fds = {3}
    MaxEffects = 2
CHECK_DEADLOCK FALSE
INVARIANTS
    WindowsHoldTruth
    AnalysisSeesWholeTrace
    CompleteIsRecorded
PROPERTIES
    SessionEnds
