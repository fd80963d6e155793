SPECIFICATION FairSpec
CONSTANTS
    d1 = d1
    d2 = d2
    c1 = c1
    e1 = e1
    e2 = e2
    None = None
    Enrollments = {e1, e2}
    Dispatchers = {d2}
    Clients = {c1}
    HostOf <- ApiAndCron
    Ops = {"enroll", "cancel", "pause", "replace", "delete"}
    MessageLists <- ShortAndLong
    MaxSteps = 2
    Jitter = 1
    BackoffTime = 1
    Limit = 1
    Window = 2
    BatchSize = 2
    OthersDue = 1
    MaxFailures = 1
    MaxCrashes = 1
INVARIANTS
    TypeOK
    InOrder
    SentOnce
    LimitKept
PROPERTIES
    CompletedIsSent
    BackoffKept
    EnrollmentsEnd
