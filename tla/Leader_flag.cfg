SPECIFICATION FairSpec
CONSTANTS
    Replicas = {r1, r2}
    MaxTerms = 5
    MaxFaults = 3
CHECK_DEADLOCK FALSE
PROPERTIES LeaderIsFlagged
