SPECIFICATION FairSpec
CONSTANTS
    Callers = {c1, c2}
    NoCaller = NoCaller
    Usages = {0, 50, 100}
    MaxUnits = 2
INVARIANTS
    TypeOK
    TargetMaintained
PROPERTIES
    AllReleased
    SetsTargets
CHECK_DEADLOCK FALSE
