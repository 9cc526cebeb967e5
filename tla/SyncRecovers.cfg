SPECIFICATION Spec
CONSTANTS
    Contents = {k1, k2}
    Facets = {f1}
    Paths = {p1, p2}
    Roots = {r1}
    Runners = {x1}
    NoContent = NoContent
    NoRow = NoRow
    NoRun = NoRun
    NoRoot = NoRoot
    Overlapping = FALSE
    Returning = FALSE
    MaxChanges = 1
    MaxRuns = 3
    MaxErrors = 2
SYMMETRY Symmetry
INVARIANTS
    PreviousSuperseded
PROPERTIES
    RunRebuildsIndex
    RunMirrorsFolder
CHECK_DEADLOCK FALSE
