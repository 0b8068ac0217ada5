SPECIFICATION Spec
CONSTANTS
    NCI_MAX_CMD_WINDOW = 1
    PoolOutcomes = {TRUE}
    Environments <- RefusedOnly
INVARIANT
    ClosedWhenReported
CHECK_DEADLOCK FALSE
