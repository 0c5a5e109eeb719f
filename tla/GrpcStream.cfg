SPECIFICATION FairSpec
CONSTANTS
    Modes = {"Unary", "ClientStream", "ServerStream", "BidiStream"}
    Requests <- MCRequests
    Slots = {s1, s2}
    NoSlot = NoSlot
INVARIANTS
    TypeOK
    NoSendOnClosed
    WaitGroupExact
    OkMeansAllSent
PROPERTIES
    WaitGroupReuse
    Returns
    ServerStreamEnds
CHECK_DEADLOCK FALSE
