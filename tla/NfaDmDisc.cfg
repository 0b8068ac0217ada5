SPECIFICATION FairSpec
CONSTANTS
    Environments <- DiscEnvironments
INVARIANTS
    InStep
    RspAwaited
    ActivationsPaired
    ShutdownGraceful
PROPERTIES
    CallsAnswered
CHECK_DEADLOCK FALSE
