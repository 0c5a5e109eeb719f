SPECIFICATION Spec
CONSTANTS
    Clients = {a, b}
    Colors = {aqua, black}
    NoColor = NoColor
    BufferSize = 1
    MaxReads = 0
INVARIANTS
    DistinctColors
CHECK_DEADLOCK FALSE
