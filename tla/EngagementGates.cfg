SPECIFICATION FairSpec
CONSTANTS
    p1 = p1
    c1 = c1
    g1 = g1
    g2 = g2
    u1 = u1
    q1 = q1
    q2 = q2
    None = None
    Gates = {g1, g2}
    Posts = {q1, q2}
    Users = {u1}
    Processors = {p1}
    Clients = {c1}
    HostOf <- ApiAndCron
    Ops <- SomeOps
    CreatedWith <- OwnPosts
    ChangedTo <- Opened
    MaxReplies = 1
    MaxSent = 1
    Jitter = 1
    BackoffTime = 1
    Limit = 1
    Window = 1
    BatchSize = 2
    OthersActive = 1
    MaxFaults = 1
INVARIANTS
    NoReplyLost
    ActionOnce
    LimitKept
PROPERTIES
    BackoffKept
    RepliesSettled
