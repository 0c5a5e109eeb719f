SPECIFICATION FairSpec
CONSTANTS
    Clients = {a, b}
    Colors = {aqua}
    NoColor = NoColor
    BufferSize = 2
    MaxReads = 1
INVARIANTS
    TypeOK
    ClosedOnce
    NothingMissed
PROPERTIES
    LeaversLeave
    ShowsChat
    Reached
    LostLeave
CHECK_DEADLOCK FALSE
