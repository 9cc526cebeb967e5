SPECIFICATION Spec
CONSTANTS
    Contents = {c1, c2}
    Facets = {f1}
    Paths = {p1}
    Unsupported = {}
    Requests = {r1, r2}
    NoContent = NoContent
    NoRow = NoRow
    NoRequest = NoRequest
    NoJob = NoJob
    Overlapping = TRUE
    MaxUploads = 3
    MaxDeletes = 1
    MaxErrors = 1
    MaxHandlerErrors = 0
    MaxRequestErrors = 1
    MaxLost = 0
    MaxWorkerCrashes = 1
    MaxApiCrashes = 1
SYMMETRY Symmetry
INVARIANTS
    TypeOK
    VersionTrail
    OneVersionStored
    CompletedIsSearchable
PROPERTIES
    AuditAppendOnly
    ImplementsVersionedIndex
CHECK_DEADLOCK FALSE
