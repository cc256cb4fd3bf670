SPECIFICATION Spec
CONSTANTS
    Client = {c1, c2}
    Admin = {a1}
    Pair = {p1}
    NoPair = NoPair
    Kind = {"access"}
    MaxTime = 3
    UserTtl = 2
    MinHotTtl = 1
    HotTtl = 3
    CutoffTtl = 3
    AccessTtl = 3
    RefreshTtl = 3
    InitialStatus = {"PENDING"}
    Faults = {"redis_loss"}
SYMMETRY Symmetry
INVARIANTS TypeOK RevokedIsFinal InactiveIsLockedOut
