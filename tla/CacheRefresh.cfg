SPECIFICATION Spec
CONSTANTS
    Docs = {d1, d2}
    Facets = {f1, f2}
    Requests = {r1,r2}
    None = None
    Idle = Idle
    NoIndex = NoIndex
    EmptyDir = EmptyDir
    Overlapping = FALSE
    MaxUploads = 3
    MaxDeletes = 2
    MaxErrors = 2
    Chats = {c1}
    Questions = {q1}
    Scopes = {{f1}, {f1, f2}}
    ChatsOverlap = FALSE
    MaxChats = 2
    MaxExpired = 1
SYMMETRY Symmetry
INVARIANTS
    TypeOK
    AnswersInScope
    CachedIsCurrent
    IndexIsCurrent
PROPERTIES
    ChangeRefreshesCache
    SuccessRepairsIndex
    ChangeRepairsSearch
CHECK_DEADLOCK FALSE
