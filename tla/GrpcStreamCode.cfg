SPECIFICATION Spec
CONSTANTS
    Modes = {"ServerStream", "BidiStream"}
    Requests <- MCCodeRequests
    Slots = {s1}
    NoSlot = NoSlot
INVARIANTS
    CodeDelivered
CHECK_DEADLOCK FALSE
