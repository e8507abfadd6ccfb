SPECIFICATION FairSpec
CONSTANTS
    Reqs = {"A", "B"}
    Togs = {TRUE, FALSE}
    DefaultTog = TRUE
    Opts = {"none", "ports"}
    DefaultOpt = "none"
    Omitted = Omitted
    Absent = Absent
    Clients = {c1, c2, c3}
    OpMenu <- MCOpMenu
    InitialValues <- MCInitialValues
    casMaxRetries = 2
    MaxRev = 2
INVARIANTS TypeOK ConflictNeedsInterference
PROPERTIES EveryRequestIsAnswered ResourceVersionChain OnlyDesireRequestsChangeDesire CASIsAtomic
CHECK_DEADLOCK FALSE
