SPECIFICATION FairSpec
CONSTANTS
    Callers = {c1, c2}
    NoCaller = NoCaller
    Usages = {0, 50, 100}
INVARIANTS
    TypeOK
    ControllerPaired
    TargetMaintained
PROPERTIES
    StressResumes
    SetsTargets
CHECK_DEADLOCK FALSE
