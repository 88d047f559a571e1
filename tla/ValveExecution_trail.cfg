CONSTANTS
    v1 = v1
    oper = oper
    revw = revw
    admn = admn
    h1 = h1
    h2 = h2
    d1 = d1
    d2 = d2
    NoUser = NoUser
    NoRow = NoRow
    NoJob = NoJob
    Codes = {v1}
    Users = {oper, revw, admn}
    RoleOf <- MCRoleOf
    Data = {d1}
    Handlers = {h1, h2}
    Seeded <- MCSeededSucceeded
    Predicted = {}
    Faults = {"store", "audit", "crash"}
    MaxVersion = 3
SPECIFICATION Spec
SYMMETRY HandlerSymmetry
INVARIANTS
    TrailIsAWalk
    NoPhantomAudit
    SuccessIsAudited
