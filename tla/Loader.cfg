SPECIFICATION FairSpec
CONSTANTS
    Worker = {w1, w2}
    PrefetchFactor = 1
    Scenarios <- Loaders
INVARIANTS DeliveredInOrder EndMeansComplete NoEpochIsMissed
PROPERTIES EveryCallReturns
CHECK_DEADLOCK FALSE
