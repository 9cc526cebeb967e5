SPECIFICATION FairSpec
CONSTANTS
    Contents = {c1, c2}
    Facets = {f1}
    Paths = {p1, p2}
    Unsupported = {p2}
    Requests = {r1, r2}
    NoContent = NoContent
    NoRow = NoRow
    NoRequest = NoRequest
    NoJob = NoJob
    Overlapping = TRUE
    MaxUploads = 2
    MaxDeletes = 1
    MaxErrors = 1
    MaxHandlerErrors = 0
    MaxRequestErrors = 0
    MaxLost = 1
    MaxWorkerCrashes = 0
    MaxApiCrashes = 1
PROPERTIES
    TaskReachesTerminal
CHECK_DEADLOCK FALSE
