SPECIFICATION Spec
CONSTANTS
    d1 = d1
    d2 = d2
    c1 = c1
    e1 = e1
    e2 = e2
    None = None
    Enrollments = {e1, e2}
    Dispatchers = {d1}
    Clients = {c1}
    HostOf <- ApiAndCron
    Ops = {"enroll", "cancel"}
    MessageLists <- TwoSteps
    MaxSteps = 2
    Jitter = 0
    BackoffTime = 1
    Limit = 2
    Window = 1
    BatchSize = 2
    OthersDue = 0
    MaxFailures = 0
    MaxCrashes = 0
PROPERTY
    ClosedNotSent
