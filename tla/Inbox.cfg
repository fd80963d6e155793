SPECIFICATION Spec
CONSTANTS
    c1 = c1
    c2 = c2
    c3 = c3
    t1 = t1
    t2 = t2
    r1 = r1
    None = None
    Threads = {t1, t2}
    SplitThreads = {}
    Replies = {r1}
    Clients = {c1, c2, c3}
    HostOf <- OneProcess
    Ops <- SomeOps
    Echoes = TRUE
    WithoutId = {2}
    MaxSaid = 3
    MaxRepeats = 2
    MaxFaults = 1
SYMMETRY Interchange
INVARIANTS
    TypeOK
    InboundOnce
    ReplyOnce
    LikedOnce
PROPERTIES
    SyncComplete
