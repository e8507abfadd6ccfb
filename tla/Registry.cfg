SPECIFICATION FairSpec
CONSTANTS
    Replicas = {r1}
    Threads = {t1}
    Addrs = {a1, a2}
    NoAddr = NoAddr
    Models = {m1}
    Unknown = Unknown
    NoModel = NoModel
    Absent = Absent
    Requests = {"register", "heartbeat", "shutdown", "unregister", "delete", "clear"}
    HeartbeatTimeout = 2
    MaxDelay = 1
    MaxBoots = 2
PROPERTIES EvictionNeedsSilence SilentNodeIsEvicted LiveNodeIsReached
CHECK_DEADLOCK FALSE
