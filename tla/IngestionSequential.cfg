SPECIFICATION Spec
CONSTANTS
    Contents = {c1, c2}
    Facets = {f1, f2}
    Paths = {p1, p2}
    Unsupported = {}
    Requests = {r1, r2}
    NoContent = NoContent
    NoRow = NoRow
    NoRequest = NoRequest
    NoJob = NoJob
    Overlapping = FALSE
    MaxUploads = 3
    MaxDeletes = 1
    MaxErrors = 1
    MaxHandlerErrors = 1
    MaxRequestErrors = 1
    MaxLost = 1
    MaxWorkerCrashes = 1
    MaxApiCrashes = 1
SYMMETRY Symmetry
INVARIANTS
    RegistryReflectsIndex
    DeletedIsGone
PROPERTIES
    OnlyPendingFails
    
CHECK_DEADLOCK FALSE
