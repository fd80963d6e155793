SPECIFICATION ApprovalSpec
CONSTANTS
    w1 = w1
    w2 = w2
    c1 = c1
    c2 = c2
    p1 = p1
    p2 = p2
    j1 = j1
    j2 = j2
    r1 = r1
    None = None
    Posts = {p1, p2}
    Jobs = {j1, j2}
    Workers = {w1, w2}
    Clients = {c1, c2}
    Requests = {r1}
    HostOf <- OneProcess
    Ops = {"schedule", "reschedule", "cancel", "publish", "delete"}
    MaxAttemptsChoices = {0, 2}
    MaxDelay = 1
    Backoff <- FlatBackoff
    LockTimeout = 2
    BatchSize = 2
    MaxCrashes = 0
    MaxLost = 1
INVARIANTS
    JobExclusive
    AttemptsBounded
    PublishedOnce
    OneLiveJob
    OneClaim
PROPERTIES
    OneDecision
    NotReopened
    ImplementsPostLifecycle
    CanceledStaysCanceled
    ImplementsLifecycle
SYMMETRY Interchange
