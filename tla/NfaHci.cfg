SPECIFICATION FairSpec
CONSTANTS
    Environments <- All
    NFA_HCI_MAX_GATE_CB = 5
    NFA_HCI_MAX_PIPE_CB = 5
    NFA_HCI_MAX_SESSION_ID_RETRY_CNT = 1
INVARIANTS OneAtATime GatesAndPipes RestingAgrees
PROPERTIES CallsAnswered StartupEnds
CHECK_DEADLOCK FALSE
