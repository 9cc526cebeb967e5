SPECIFICATION Spec
CONSTANTS
    Contents = {k1, k2}
    Facets = {f1, f2}
    Paths = {p1}
    Roots = {r1, r2}
    Runners = {x1, x2}
    NoContent = NoContent
    NoRow = NoRow
    NoRun = NoRun
    NoRoot = NoRoot
    Overlapping = TRUE
    Returning = FALSE
    MaxChanges = 1
    MaxRuns = 3
    MaxErrors = 1
SYMMETRY Symmetry
INVARIANTS
    TypeOK
PROPERTIES
    OtherRootsUntouched
    AuditKept
CHECK_DEADLOCK FALSE
