SPECIFICATION Spec
CONSTANTS
    a1 = a1
    a2 = a2
    e1 = e1
    s1 = s1
    p1 = p1
    openai = openai
    anthropic = anthropic
    None = None
    Chats = {a1, a2}
    Executions = {e1}
    HostOf <- OneProcess
    Packages = {s1}
    Manifest <- AllActions
    Providers = {openai, anthropic}
    Adapters = {openai, anthropic}
    RouteRows <- SomeRoutes
    Posts = {p1}
    MaxCalls = 3
    MaxFaults = 1
SYMMETRY Interchange
INVARIANTS
    TypeOK
    UsageTellsCalls
    AuditTrail
PROPERTIES
    PreviewIsCurrent
