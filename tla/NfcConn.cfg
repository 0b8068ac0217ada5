CONSTANTS
    SmallBuf = 2
    BigBuf = 3
    Environments <- ConnEnvs
SPECIFICATION FairSpec
INVARIANTS MessagesIntact
PROPERTIES DataBeforeDeactivation Served
CHECK_DEADLOCK FALSE
