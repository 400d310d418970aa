SPECIFICATION FairSpec
CONSTANTS
    Leaf = {x}
    Null = Null
    MaxFn = 3
    MaxInputs = 2
    Scenarios <- Programs
INVARIANTS GradientsMatchPaths ConsumersRunFirst ParentCountMatchesEdges NoLeftoverGradients
PROPERTIES DirectlySharedSurvives ExclusiveWalkIsFreed EveryCallEnds
CHECK_DEADLOCK FALSE
