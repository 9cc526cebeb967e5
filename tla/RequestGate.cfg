SPECIFICATION Spec
CONSTANTS
    t1 = t1
    t2 = t2
    v1 = v1
    v2 = v2
    Tenants = {t1, t2}
    Values = {v1, v2}
    Missing = Missing
    Operations = {"chat", "search"}
    KeyIds = {k1, k2}
    Calls = {c1, c2}
    NoCall = NoCall
    NoCounter = NoCounter
    Never = Never
    NoKey = NoKey
    NoRequest = NoRequest
    WindowSeconds = 2
    Limit = 1
    MaxWindow = 2
    MaxFailures = 1
    Documents <- MCDocuments
    Bounds <- MCBounds
SYMMETRY Symmetry
INVARIANTS
    TypeOK
    WindowLimit
    RefusedOverQuota
    CountersExpire
    RevokedIsRefused
    ServedInScope
    ShownCanBeAsked
CHECK_DEADLOCK FALSE
