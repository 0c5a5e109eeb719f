SPECIFICATION Spec
CONSTANTS
    Clients = {a, b}
    Colors = {aqua}
    NoColor = NoColor
    BufferSize = 1
    MaxReads = 2
INVARIANTS
    EchoReturned
CHECK_DEADLOCK FALSE
