CONSTANTS
    c1 = c1
    oper = oper
    revw = revw
    admn = admn
    h1 = h1
    h2 = h2
    d1 = d1
    NoRow = NoRow
    NoJob = NoJob
    Codes = {c1}
    Users = {oper, revw, admn}
    RoleOf <- MCRoleOf
    Data = {d1}
    Handlers = {h1, h2}
    Predicted = {}
    Faults = {}
    MaxVersion = 3
SPECIFICATION MCSpec
SYMMETRY HandlerSymmetry
INVARIANTS
    TypeOK
    PlansAreReviewed
PROPERTIES
    AtomicOperations
