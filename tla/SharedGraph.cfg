SPECIFICATION Spec
CONSTANTS
    Leaf = {x}
    Null = Null
    MaxFn = 4
    MaxInputs = 1
    Scenarios <- Chains
PROPERTIES SharedGraphSurvives
CHECK_DEADLOCK FALSE
