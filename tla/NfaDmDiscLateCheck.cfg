SPECIFICATION FairSpec
CONSTANTS
    Environments <- LateCheck
PROPERTIES
    CheckAnswered
CHECK_DEADLOCK FALSE
