SPECIFICATION FairSpec
CONSTANTS
    Function = {f1, f2, f3}
    Null = Null
    MaxInputs = 2
    MaxRoots = 2
    Graphs <- AllGraphs
    RootLists <- AllRootLists
INVARIANTS TypeOK SortedIsPostOrder SortsExactlyReachable CycleReportIsTrue
PROPERTIES SortTerminates ContractSpec
CHECK_DEADLOCK FALSE
