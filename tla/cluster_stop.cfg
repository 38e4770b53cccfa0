\* Two workers, stopped during a reload.
SPECIFICATION FairSpec
CONSTANTS
  NumWorkers = 2
  KillDisconnects = TRUE
  MaxCrashes = 0
  MaxReloads = 1
CHECK_DEADLOCK FALSE
PROPERTIES
  SIGINTTerminates
