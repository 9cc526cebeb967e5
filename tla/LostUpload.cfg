SPECIFICATION Spec
CONSTANTS
    Contents = {c1, c2}
    Facets = {f1}
    Paths = {p1}
    Unsupported = {}
    Requests = {r1, r2}
    NoContent = NoContent
    NoRow = NoRow
    NoRequest = NoRequest
    NoJob = NoJob
    Overlapping = TRUE
    MaxUploads = 2
    MaxDeletes = 0
    MaxErrors = 0
    MaxHandlerErrors = 0
    MaxRequestErrors = 0
    MaxLost = 0
    MaxWorkerCrashes = 0
    MaxApiCrashes = 0
SYMMETRY Symmetry
INVARIANTS
    RegistryReflectsIndex
CHECK_DEADLOCK FALSE
