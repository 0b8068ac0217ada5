SPECIFICATION WeaklyFairSpec
CONSTANTS
  Nothing = Nothing
  GKI_DELAY_STOP_SYS_TICK = 2
  TickWidth = 5
  NFC_PERIOD = 1
  NFA_PERIOD = 2
  Environments <- LateEnvironments
PROPERTY ThreadsShutDown
CHECK_DEADLOCK FALSE
