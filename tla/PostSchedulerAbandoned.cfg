SPECIFICATION Spec
CONSTANTS
    w1 = w1
    w2 = w2
    c1 = c1
    c2 = c2
    p1 = p1
    p2 = p2
    j1 = j1
    j2 = j2
    None = None
    Posts = {p1}
    Jobs = {j1}
    Workers = {w1, w2}
    Clients = {c1}
    HostOf <- OneProcess
    Ops = {"schedule"}
    MaxAttemptsChoices = {0, 2}
    MaxDelay = 1
    Backoff <- ShortBackoff
    LockTimeout = 2
    BatchSize = 1
    MaxCrashes = 1
    MaxLost = 1
INVARIANT
    AbandonedIsLockable
