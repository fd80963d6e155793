SPECIFICATION Spec
CONSTANTS
    c1 = c1
    c2 = c2
    u1 = u1
    u2 = u2
    None = None
    Users = {u1, u2}
    Clients = {c1, c2}
    HostOf <- OneProcess
    Modes <- AllOrFollowers
    PageSize = 1
    MaxChanges = 1
SYMMETRY Symmetry
PROPERTIES
    LostOnlyIfGone
    SyncedWasTrue
