SPECIFICATION Tables
CONSTANTS
    Labels = {"a", "b"}
    Targets = {"ip1", "ip2"}
    MaxLabels = 2
    MaxEntries = 2
    Names = {n1, n2, n3, n4}
    Types = {"A"}
    NoEntry = NoEntry
    CacheCap = 3
    TtlMin = 1
    TtlMax = 2
    TtlFallback = 1
    OldMax = 0
    StoredTtls = {0, 9}
SYMMETRY Symmetry
INVARIANTS
    PurgedIsRuled
    LookupFollowsLists
PROPERTIES
    ImplementsCache
    LeastRecentlyUsedLeaves
CHECK_DEADLOCK FALSE
