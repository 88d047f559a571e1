CONSTANTS
    v1 = v1
    oper = oper
    revw = revw
    admn = admn
    h1 = h1
    h2 = h2
    d1 = d1
    d2 = d2
    NoUser = NoUser
    NoRow = NoRow
    NoJob = NoJob
    Codes = {v1}
    Users = {revw, admn}
    RoleOf <- MCRoleOf
    Data = {d1}
    Handlers = {h1, h2}
    Seeded <- MCNotSeeded
    Predicted = {2, 3}
    Faults = {}
    MaxVersion = 4
SPECIFICATION FairSpec
INVARIANTS
    TrailComplete
    ConfirmedIndependently
PROPERTIES
    RequestsEnd
    OneWinnerPerVersion
    SomeRequestWins
