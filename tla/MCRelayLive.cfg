SPECIFICATION FairSpec
CONSTANTS
    q1 = q1
    q2 = q2
    q3 = q3
    n1 = n1
    n2 = n2
    Queries = {q1, q2}
    NoQuery = NoQuery
    Permits = 1
    BacklogCap = 1
    MaxAge = 0
    RecvBatchMax = 2
    ObfsBatchMax = 1
    Names = {n1}
    Types = {"A"}
    NoEntry = NoEntry
    CacheCap = 1
    TtlMin = 1
    TtlMax = 2
    TtlFallback = 1
    OldMax = 0
    Confs <- LiveConfs
    BadConf = BadConf
    NoFile = NoFile
    MaxEdits = 2
    NoType = NoType
    Malformed = Malformed
    NoReply = NoReply
    Asked <- KeysAsked
    AnswerTtls = {0}
    ResolveTimeout = 1
PROPERTIES
    EveryQueryLeaves
    EveryTaskReplies
    EditTakesEffect
