SPECIFICATION FairSpec
CONSTANTS
    Initiator = initiator
    Target = target
    NumSaps = 2
    Environments <- LinkEnvironments
INVARIANTS
    LinkKept
    OneReport
PROPERTIES
    DeactivationCompletes
    DiscoverAnswered
    UiCongestionEnds
CHECK_DEADLOCK FALSE
