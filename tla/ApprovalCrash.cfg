SPECIFICATION ApprovalSpec
CONSTANTS
    w1 = w1
    w2 = w2
    c1 = c1
    c2 = c2
    p1 = p1
    p2 = p2
    j1 = j1
    j2 = j2
    r1 = r1
    None = None
    Posts = {p1}
    Jobs = {}
    Workers = {}
    Clients = {c1}
    Requests = {r1}
    HostOf <- OneProcess
    Ops = {}
    MaxAttemptsChoices = {2}
    MaxDelay = 1
    Backoff <- FlatBackoff
    LockTimeout = 2
    BatchSize = 1
    MaxCrashes = 1
    MaxLost = 0
INVARIANT
    ApprovedIsRun
