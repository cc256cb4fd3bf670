SPECIFICATION Spec
CONSTANTS
    Client = {c1, c2}
    Admin = {}
    Pair = {p1, p2}
    NoPair = NoPair
    Kind = {"refresh"}
    MaxTime = 4
    UserTtl = 1
    MinHotTtl = 1
    HotTtl = 2
    CutoffTtl = 2
    AccessTtl = 1
    RefreshTtl = 2
    InitialStatus = {"ACTIVE"}
    Faults = {"db_error"}
SYMMETRY Symmetry
INVARIANTS RevokedIsFinal LogoutIsFinal
