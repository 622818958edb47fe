SPECIFICATION FairSpec
CONSTANTS
    Subject = {s1}
    Worker = {w1, w2}
    TopLevel = 2
    MaxChanges = 3
    MaxFaults = 2
INVARIANTS PageTellsTheTruth
PROPERTIES RolesFollowRanks
CHECK_DEADLOCK FALSE
