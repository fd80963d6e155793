SPECIFICATION Spec
CONSTANTS
    c1 = c1
    c2 = c2
    c3 = c3
    x = x
    p1 = p1
    p2 = p2
    k1 = k1
    None = None
    Posts = {p1, p2}
    Keys = {k1}
    Platforms = {x}
    Clients = {c1, c2, c3}
    HostOf <- TwoProcesses
    Ops <- SomeOps
    NewPolicies <- TwoPolicies
    MaxPolicies = 2
    MaxRows = 2
    MaxFailures = 1
    MaxCrashes = 1
SYMMETRY Interchange
INVARIANTS
    TypeOK
    Ledger
    PublishedOncePerKey
PROPERTIES
    OvershootBounded
