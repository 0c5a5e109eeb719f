SPECIFICATION FairSpec
CONSTANTS
    Callers = {c1, c2}
    NoCaller = NoCaller
    Usages = {0, 50}
PROPERTIES
    CpuAsDocumented
CHECK_DEADLOCK FALSE
