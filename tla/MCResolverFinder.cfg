SPECIFICATION FairSpec
CONSTANTS
    Resolvers = {d, u, v, w}
    Doh = {d}
    Alive = {d, u, w}
    Configured = {d, w}
    Listed = {d, u, v}
    Concurrency = 2
    MaxHealthy = 2
    FailedCap = 1
    FlushInterval = 2
    UdpTimeout = 1
    DohTimeout = 1
    SockBuf = 1
INVARIANTS
    TypeOK
    PoolUsable
    FailedNotPooled
PROPERTY SearchEnds
