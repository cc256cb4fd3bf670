SPECIFICATION Spec
CONSTANTS
    Request = {r1, r2}
    Key = {k1, k2}
    Field = {}
    Stamp = stamp
    None = None
    Op = {"fields", "set", "clear", "delete", "stamp"}
    Faults = {"storage", "stop"}
SYMMETRY Symmetry
INVARIANTS TypeOK AvatarExists ReplacedGoes FieldsSurvive
CHECK_DEADLOCK FALSE
