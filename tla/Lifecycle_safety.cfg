SPECIFICATION Spec
CONSTANTS
    Reqs = {"A", "B"}
    Togs = {TRUE}
    DefaultTog = TRUE
    Opts = {"none"}
    DefaultOpt = "none"
    Omitted = Omitted
    Absent = Absent
    Workers = {w1, w2}
    OpMenu <- MCEdits
    Attests = {TRUE}
    Compaction = FALSE
    MaxRev = 4
    MaxMsgs = 3
    MaxFaults = 1
INVARIANTS ResourceVersionChain CommittedIsProjected CurrentIsApplied
PROPERTIES RollbackHitsFailedVersion RollbackRestoresApplied
CHECK_DEADLOCK FALSE
