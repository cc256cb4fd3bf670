SPECIFICATION Spec
CONSTANTS
    Request = {r1, r2}
    Row = {x1, x2, x3}
    Email = {e1, e2}
    Home = e1
    Take = 2
    None = None
    Op = {"forgot", "reset", "send", "verify", "ask", "change", "other"}
SYMMETRY Symmetry
INVARIANTS TypeOK EmailStaysUnique RepeatsOverlap
PROPERTIES CodesAreOneTime ChangeCodeBuysTheChange
