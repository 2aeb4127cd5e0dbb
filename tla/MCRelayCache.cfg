SPECIFICATION Spec
CONSTANTS
    q1 = q1
    q2 = q2
    q3 = q3
    n1 = n1
    n2 = n2
    Queries = {q1, q2, q3}
    NoQuery = NoQuery
    Permits = 2
    BacklogCap = 1
    MaxAge = 1
    RecvBatchMax = 2
    ObfsBatchMax = 1
    Names = {n1}
    Types = {"A", "AAAA"}
    NoEntry = NoEntry
    CacheCap = 1
    TtlMin = 1
    TtlMax = 2
    TtlFallback = 1
    OldMax = 4
    Confs <- RedirectConfs
    BadConf = BadConf
    NoFile = NoFile
    MaxEdits = 0
    NoType = NoType
    Malformed = Malformed
    NoReply = NoReply
    Asked <- AllAsked
    AnswerTtls = {0, 1, 9}
    ResolveTimeout = 1
SYMMETRY QuerySymmetry
INVARIANTS
    TypeOK
    ReplyToAsker
    BoundedStaleness
    Places
    PermitsConserved
    NoLostWakeup
