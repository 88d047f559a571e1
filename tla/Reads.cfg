CONSTANTS
    z1 = z1
    z2 = z2
    z3 = z3
    v1 = v1
    oper = oper
    revw = revw
    NoRow = NoRow
    Codes = {z1, z2, z3, v1}
    Users = {oper, revw}
    RoleOf <- MCRoleOf
    Data = {}
    TableOf <- MCTableOf
    Seeded <- MCSeeded
    EntityOf <- MCEntityOf
    Recorded <- MCRecorded
    DefaultPageSize = 1
    MaxPageSize = 2
    MaxPages = 2
    DefaultWindow = 1
    MaxWindow = 2
    DefaultLimit = 1
    MaxLimit = 2
    MaxWrites = 3
    MaxEntries = 3
    MaxTime = 2
SPECIFICATION Spec
INVARIANTS
    ListTypeOK
    ReportTypeOK
    PagesMissAndRepeatFew
    OverviewCountsOnce
    AuditPagesMissFew
    SummaryAddsUp
    HistoryKeepsTheNewest
