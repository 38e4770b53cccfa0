\* Two workers, of which one dies during a reload.
SPECIFICATION FairSpec
CONSTANTS
  NumWorkers = 2
  KillDisconnects = TRUE
  MaxCrashes = 1
  MaxReloads = 1
CHECK_DEADLOCK FALSE
PROPERTIES
  ReloadEnds
