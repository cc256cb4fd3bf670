SPECIFICATION FairSpec
CONSTANTS
    Request = {r1, r2, r3}
    Id = {i1, i2}
    Email = {e1, e2}
    Phone = {p1}
    Attempts = 3
    None = None
INVARIANTS TypeOK IdentitiesAreDistinct AnswersMatchRows
PROPERTIES ImplementsRegistry EveryRequestIsAnswered
CHECK_DEADLOCK FALSE
