SPECIFICATION Spec
CONSTANTS
    Reader = {r1}
    Writer = {w1, w2}
    Key = {"page", "email", "list"}
    Op = {"findAll", "findByEmail", "findAllByUser", "prefetchUsers", "prefetchTimelines", "createUser", "register", "updateUser", "deleteUser", "eventWrite"}
    Ttl = 1
    MaxTime = 2
    Faults = {"stop"}
SYMMETRY Symmetry
INVARIANTS TypeOK BoundedStaleness InvalidationIsComplete
CHECK_DEADLOCK FALSE
