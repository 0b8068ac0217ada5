SPECIFICATION FairSpec
CONSTANTS
    NCI_MAX_CMD_WINDOW = 1
    PoolOutcomes = {TRUE}
    Environments <- NcifEnvironments
INVARIANTS
    ChannelOwned
    WindowReopens
    AnswersMatch
PROPERTIES
    OneReportInTime
    RequestAnswered
    QueueDrains
CHECK_DEADLOCK FALSE
