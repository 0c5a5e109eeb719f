SPECIFICATION FairSpec
CONSTANTS
    Conns = {c1, c2}
    NoConn = NoConn
    Reqs = {r1, r2}
    Addrs = {a1, a2}
    NoAddr = NoAddr
    Kinds = {"http", "h2", "grpc"}
INVARIANTS
    TypeOK
    CountedOnce
    Findable
PROPERTIES
    DisconnectEnds
CHECK_DEADLOCK FALSE
