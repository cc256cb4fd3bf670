SPECIFICATION Spec
CONSTANTS
    Client = {c1, c2}
    Admin = {}
    Pair = {p1, p2, p3}
    NoPair = NoPair
    Kind = {"refresh"}
    MaxTime = 2
    UserTtl = 1
    MinHotTtl = 1
    HotTtl = 3
    CutoffTtl = 3
    AccessTtl = 3
    RefreshTtl = 3
    InitialStatus = {"ACTIVE"}
    Faults = {}
SYMMETRY Symmetry
INVARIANTS RefreshIsSingleUse
