CONSTANTS
    v1 = v1
    revw = revw
    admn = admn
    s1 = s1
    s2 = s2
    d1 = d1
    NoUser = NoUser
    NoRow = NoRow
    NoItem = NoItem
    NoCall = NoCall
    Codes = {v1}
    Users = {revw, admn}
    RoleOf <- MCRoleOf
    Data = {d1}
    Seeded <- MCSeeded
    Slots = {s1, s2}
    Admin = admn
    OtherTabs = {revw}
    Searches <- MCSearches
    MaxVersion = 4
SPECIFICATION Spec
SYMMETRY SlotSymmetry
INVARIANTS
    TypeOK
    OffersAreAccepted
    NothingSpinsForEver
PROPERTIES
    ActsOnWhatWasShown
    TickIsForOneVersion
