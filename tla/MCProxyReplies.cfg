SPECIFICATION Spec
CONSTANTS
    n1 = n1
    t1 = t1
    t2 = t2
    t3 = t3
    Queries = {q1, q2, q3}
    NoQuery = NoQuery
    Permits = 2
    BacklogCap = 1
    MaxAge = 0
    RecvBatchMax = 1
    ObfsBatchMax = 1
    Names = {n1}
    Types = {"A", "AAAA"}
    NoEntry = NoEntry
    CacheCap = 1
    TtlMin = 1
    TtlMax = 1
    TtlFallback = 1
    OldMax = 0
    Confs <- RedirectConfs
    BadConf = BadConf
    NoFile = NoFile
    MaxEdits = 0
    TargetList <- TwoTargets
    Strategies = {"ordered", "round_robin"}
    CursorMod = 3
    UpstreamTimeout = 1
    NoType = NoType
    Malformed = Malformed
    NoReply = NoReply
    Asked <- KeysOrMalformed
SYMMETRY QuerySymmetry
INVARIANTS
    ReplyToAsker
    TurnsTaken
