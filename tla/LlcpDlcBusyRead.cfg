SPECIFICATION Spec
CONSTANTS
    Client = client
    Server = server
    LLCP_SEQ_MODULO = 4
    PoolOutcomes = {TRUE}
    Environments <- BusyReadOnly
INVARIANTS
    RxCongestionIsReal
CHECK_DEADLOCK FALSE
