CONSTANTS
    SmallBuf = 2
    BigBuf = 3
    Environments <- RawEnvironments
SPECIFICATION Spec
INVARIANT FragmentsForwarded
CHECK_DEADLOCK FALSE
