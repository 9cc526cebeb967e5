SPECIFICATION FairSpec
CONSTANTS
    Tabs = {b1, b2}
    Tenants = {t1, t2}
    NoConversation = NoConversation
    Bounds <- MCBounds
INVARIANTS
    TypeOK
    TenantsApart
    ScreenMatches
    ContextIsScreen
    ToldComesFirst
PROPERTIES
    StreamEnds
CHECK_DEADLOCK FALSE
