SPECIFICATION Spec
CONSTANTS
    NCI_MAX_CMD_WINDOW = 1
    PoolOutcomes = {TRUE}
    Environments <- EarlyOnly
PROPERTIES
    ShutdownWaits
CHECK_DEADLOCK FALSE
