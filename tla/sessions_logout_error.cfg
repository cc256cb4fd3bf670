SPECIFICATION Spec
CONSTANTS
    Client = {c1}
    Admin = {}
    Pair = {p1}
    NoPair = NoPair
    Kind = {"access"}
    MaxTime = 3
    UserTtl = 1
    MinHotTtl = 1
    HotTtl = 3
    CutoffTtl = 3
    AccessTtl = 3
    RefreshTtl = 3
    InitialStatus = {"ACTIVE"}
    Faults = {"redis_error"}
SYMMETRY Symmetry
INVARIANTS LogoutIsFinal
