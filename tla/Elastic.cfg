SPECIFICATION FairSpec
CONSTANTS
    w1 = w1
    w2 = w2
    w3 = w3
    Worker = {w1, w2, w3}
    Configs <- SmallTeams
    MaxRound = 6
    MaxCrashes = 1
INVARIANTS MembershipIsConsistent NoOrphanMembers JoinsWithinBudget
PROPERTIES RoundNeverGoesBack EveryRunEnds
CHECK_DEADLOCK FALSE
