SPECIFICATION Spec
CONSTANTS
    t1 = t1
    t2 = t2
    t3 = t3
    k1 = k1
    k2 = k2
    c1 = c1
    c2 = c2
    c3 = c3
    n1 = n1
    n2 = n2
    Tasks = {t1, t2, t3}
    Names = {n1, n2}
    Types = {"A", "AAAA"}
    Asked <- AskedQuestions
    NoReply = NoReply
    Subnets = {"net"}
    NoClient = "none"
    Https = {"https"}
    Quic = {"quic"}
    Udp = {"udp"}
    Pools <- PoolOrders
    Packets <- QueryPackets
    Conns = {c1, c2, c3}
    NoConn = NoConn
    Ports = {1, 2}
    Relays <- RelayInstances
    WorkerOf <- OneWorker
    WorkerKey <- OneKey
    Endpoints = {"cloudflare", "google"}
    Addresses = {1, 2, 3}
    Gives <- Zone
    ARounds = 2
    CursorMod = 4
    NoSeal = NoSeal
SYMMETRY Symmetry
CHECK_DEADLOCK FALSE
INVARIANTS
    AnswerMatches
    OnlyOwnAddresses
    CachedOpens
    StaleNotHandedBack
    UpstreamSeesSubnet
