SPECIFICATION FairSpec
CONSTANTS
    Users = {u1}
    Times = {1, 2}
    Kinds = {"pppoe", "other", "poison"}
    maxRetries = 2
    maxBatchSize = 2
    MaxLog = 3
    MaxMsgs = 3
    MaxFaults = 2
INVARIANTS CommittedIsSettled OutagesParkNothing StatusIsNewest DeadLetterHasARow
PROPERTIES BatchEqualsSingles EveryMessageIsSettled WedgeHeals
CHECK_DEADLOCK FALSE
