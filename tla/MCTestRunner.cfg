CHECK_DEADLOCK FALSE
SPECIFICATION FairSpec
CONSTANTS
    t0 = t0
    t1 = t1
    t2 = t2
    t3 = t3
    Tests <- AllOfThem
    Registry <- TwoModules
    NoRngTests <- WithoutRng
    MAX_ARGS = 5
    MAX_TARGETS = 3
    MAX_SUBPROCESSES = 3
    ByteRange = 4
    PipeSize = 2
INVARIANTS
    JobRunsOnce
    SuccessMeansAllPassed
    NoFalseAlarm
PROPERTY
    Ends
