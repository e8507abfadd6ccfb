SPECIFICATION FairSpec
CONSTANTS
    Workers = {w1, w2}
    HsiKeys = {h1, h2}
    OtherKeys = {d}
    Compaction = TRUE
    MaxRev = 3
    MaxFaults = 1
INVARIANTS CheckpointIsCovered
PROPERTIES ChangesAreRecorded
CHECK_DEADLOCK FALSE
