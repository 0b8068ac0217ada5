SPECIFICATION FairSpec
CONSTANTS
  Nothing = Nothing
  GKI_DELAY_STOP_SYS_TICK = 2
  TickWidth = 5
  NFC_PERIOD = 1
  NFA_PERIOD = 2
  Environments <- AllEnvironments
INVARIANTS
  TypeOK
  BuffersConserved
  NotEarly
PROPERTIES
  TasksServed
  TimersServed
CHECK_DEADLOCK FALSE
