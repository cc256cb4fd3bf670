SPECIFICATION Spec
CONSTANTS
    Client = {c1}
    Admin = {a1, a2}
    Pair = {p1}
    NoPair = NoPair
    Kind = {"access"}
    MaxTime = 4
    UserTtl = 1
    MinHotTtl = 1
    HotTtl = 3
    CutoffTtl = 3
    AccessTtl = 3
    RefreshTtl = 3
    InitialStatus = {"ACTIVE"}
    Faults = {}
SYMMETRY Symmetry
INVARIANTS CutoffIsFinal
