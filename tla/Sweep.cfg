SPECIFICATION FairSpec
CONSTANTS
    Replicas = {r1, r2}
    Nodes = {n1}
    Users = {u1}
    configConfirmTimeout = 2
    configConfirmBackoffMax = 5
    MaxRev = 2
    MaxFaults = 1
PROPERTIES NudgesAreSpaced LostResultLands
CHECK_DEADLOCK FALSE
