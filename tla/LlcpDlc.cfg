SPECIFICATION FairSpec
CONSTANTS
    Client = client
    Server = server
    LLCP_SEQ_MODULO = 4
    PoolOutcomes = {TRUE}
    Environments <- DlcEnvironments
INVARIANTS
    TypeOK
    HalfDuplex
    InSequence
    DeliveredAsTold
PROPERTIES
    CongestionEnds
    DataAcknowledged
CHECK_DEADLOCK FALSE
