CONSTANTS
    k1 = k1
    k2 = k2
    k3 = k3
    r1 = r1
    r2 = r2
    Keys = {k1, k2, k3}
    Requests = {r1, r2}
    HasRedis = TRUE
    Limit = 1
    Threshold = 2
    MaxWindow = 2
    MaxArrivals = 2
SPECIFICATION Spec
SYMMETRY LimiterSymmetry
CHECK_DEADLOCK FALSE
INVARIANTS
    TypeOK
    WithinBudget
    RefusedWithReason
    StaleBucketsBounded
