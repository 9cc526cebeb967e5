SPECIFICATION IndexSpec
CONSTANTS
    Docs = {d1, d2}
    Facets = {f1}
    Requests = {r1}
    None = None
    Idle = Idle
    NoIndex = NoIndex
    EmptyDir = EmptyDir
    Overlapping = FALSE
    MaxUploads = 1
    MaxDeletes = 1
    MaxErrors = 0
SYMMETRY Symmetry
INVARIANTS
    EmptyIndexIsCurrent
CHECK_DEADLOCK FALSE
