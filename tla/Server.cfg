SPECIFICATION FairSpec
CONSTANTS
    Name = {m}
    Predict = {r1, r2}
    Load = {l1, l2}
    Unload = {u1}
    None = None
    MaxStarts = 1
INVARIANTS OfferedModelsServe ReplacementIsSeamless NoBatchThreadIsLost
PROPERTIES BatchersAreUsedAsAgreed EveryCallReturns
CHECK_DEADLOCK FALSE
