SPECIFICATION Spec
CONSTANTS
    Request = {r1, r2}
    Challenge = {k1, k2, k3}
    Otp = {o1}
    None = None
    Faults = {"stop"}
    Op = {"login", "my_initiate", "initiate", "confirm", "totp", "backup", "email", "send", "request", "recover", "reset", "admin_reset", "my_disable", "require"}
SYMMETRY Symmetry
INVARIANTS TypeOK EnrolledHasCodes SetupTokenIsSpent
PROPERTIES ChallengesAreOneTime CodesAreOneTime TotpNeedsEnrolment EnforcedStaysEnrolled
CHECK_DEADLOCK FALSE
VIEW View
