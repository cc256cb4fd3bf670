SPECIFICATION Spec
CONSTANTS
    Task = {t1, t2, t3, t4}
    IsFinite = TRUE
    Configured = 5
INVARIANTS TypeOK CountIsExact NoIdleSlot FirstInFirstOut
PROPERTIES ImplementsPool EveryMailSettles
CHECK_DEADLOCK FALSE
