SPECIFICATION FairSpec
CONSTANTS
    Contents = {c1, c2}
    Facets = {f1}
    Paths = {p1}
    Unsupported = {}
    Requests = {r1, r2}
    NoContent = NoContent
    NoRow = NoRow
    NoRequest = NoRequest
    NoJob = NoJob
    Overlapping = TRUE
    MaxUploads = 1
    MaxDeletes = 0
    MaxErrors = 0
    MaxHandlerErrors = 0
    MaxRequestErrors = 0
    MaxLost = 0
    MaxWorkerCrashes = 1
    MaxApiCrashes = 0
PROPERTIES
    ReachesTerminal
CHECK_DEADLOCK FALSE
