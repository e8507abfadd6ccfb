SPECIFICATION FairSpec
CONSTANTS
    Reqs = {"A", "B"}
    Togs = {TRUE}
    DefaultTog = TRUE
    Opts = {"none"}
    DefaultOpt = "none"
    Omitted = Omitted
    Absent = Absent
    Workers = {w1, w2}
    OpMenu <- MCEdits
    Attests = {TRUE, FALSE}
    Compaction = TRUE
    MaxRev = 3
    MaxMsgs = 2
    MaxFaults = 1
INVARIANTS ConfirmedRevisionIsApplied
PROPERTIES FailedVersionIsRetired AttestationIsConfirmed
CHECK_DEADLOCK FALSE
