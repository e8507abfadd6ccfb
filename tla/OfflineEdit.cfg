SPECIFICATION Spec
CONSTANTS
    Keys = {"hsi", "dns"}
    Payloads = {pA, pB}
    Absent = Absent
    Skew = 1
    MaxTime = 2
    MaxEdits = 2
    MaxMsgs = 2
    MaxOps = 2
    MaxFaults = 1
SYMMETRY PayloadSymmetry
INVARIANTS DeletionLeavesNoOrphan
PROPERTIES DecidedEditsStayDecided
CHECK_DEADLOCK FALSE
