SPECIFICATION Spec
CONSTANTS
    NCI_MAX_CMD_WINDOW = 1
    PoolOutcomes = {TRUE}
    Environments <- RecoveryOnly
INVARIANTS
    NoIdleQueue
CHECK_DEADLOCK FALSE
