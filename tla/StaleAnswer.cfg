SPECIFICATION Spec
CONSTANTS
    Docs = {d1, d2}
    Facets = {f1}
    Requests = {r1}
    None = None
    Idle = Idle
    NoIndex = NoIndex
    EmptyDir = EmptyDir
    Overlapping = FALSE
    MaxUploads = 2
    MaxDeletes = 0
    MaxErrors = 0
    Chats = {c1}
    Questions = {q1}
    Scopes = {{f1}}
    ChatsOverlap = TRUE
    MaxChats = 2
    MaxExpired = 0
SYMMETRY Symmetry
INVARIANTS
    CachedIsCurrent
CHECK_DEADLOCK FALSE
