SPECIFICATION LiveSpec
CONSTANTS
    Callers = {k1, k2, k3}
    MaxCalls = 3
INVARIANTS TypeOK NoSecondRun CancelledNeverRuns PayloadStable OwnResult
PROPERTIES CallsReturn AbandonedRecovers
CHECK_DEADLOCK FALSE
