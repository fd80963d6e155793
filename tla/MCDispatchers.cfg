SPECIFICATION DispatchSpec
CONSTANTS
    w1 = w1
    w2 = w2
    p1 = p1
    p2 = p2
    j1 = j1
    j2 = j2
    None = None
    Posts = {p1, p2}
    Jobs = {j1, j2}
    Workers = {w1, w2}
    Clients = {}
    HostOf <- TwoProcesses
    Ops = {}
    MaxAttemptsChoices = {2}
    MaxDelay = 1
    Backoff <- ShortBackoff
    LockTimeout = 2
    BatchSize = 1
    MaxCrashes = 1
    MaxLost = 1
INVARIANTS
    JobExclusive
    RowsTellTruth
PROPERTIES
    JobsEnd
