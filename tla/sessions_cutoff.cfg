SPECIFICATION Spec
CONSTANTS
    Client = {c1}
    Admin = {a1}
    Pair = {p1, p2}
    NoPair = NoPair
    Kind = {"refresh"}
    MaxTime = 3
    UserTtl = 1
    MinHotTtl = 1
    HotTtl = 2
    CutoffTtl = 2
    AccessTtl = 1
    RefreshTtl = 2
    InitialStatus = {"ACTIVE"}
    Faults = {"redis_error", "redis_loss"}
SYMMETRY Symmetry
INVARIANTS CutoffIsFinal InactiveIsLockedOut
