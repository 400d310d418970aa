SPECIFICATION FairSpec
CONSTANTS
    Worker = {w1, w2}
    PrefetchFactor = 1
    Scenarios <- OneEpoch
PROPERTIES PersistentStopReturns
CHECK_DEADLOCK FALSE
