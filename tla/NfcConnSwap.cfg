CONSTANTS
    SmallBuf = 2
    BigBuf = 3
    Environments <- SwapEnvironments
SPECIFICATION Spec
INVARIANT ConnIsOwn
CHECK_DEADLOCK FALSE
