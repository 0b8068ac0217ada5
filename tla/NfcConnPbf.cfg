CONSTANTS
    SmallBuf = 2
    BigBuf = 3
    Environments <- PbfEnvironments
SPECIFICATION Spec
INVARIANT LastIsLast
CHECK_DEADLOCK FALSE
