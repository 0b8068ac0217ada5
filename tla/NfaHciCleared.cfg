SPECIFICATION FairSpec
CONSTANTS
    Environments <- Clearing
    NFA_HCI_MAX_GATE_CB = 5
    NFA_HCI_MAX_PIPE_CB = 5
    NFA_HCI_MAX_SESSION_ID_RETRY_CNT = 1
PROPERTIES AnsweredWhateverComes
CHECK_DEADLOCK FALSE
