SPECIFICATION Spec
CONSTANTS
    Initiator = initiator
    Target = target
    NumSaps = 1
    Environments <- EndsOnly
INVARIANTS
    DiscWasSent
CHECK_DEADLOCK FALSE
