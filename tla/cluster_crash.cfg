\* Two workers, of which one dies before it listens.
SPECIFICATION Spec
CONSTANTS
  NumWorkers = 2
  KillDisconnects = TRUE
  MaxCrashes = 1
  MaxReloads = 0
CHECK_DEADLOCK FALSE
INVARIANTS
  CrashedWorkersAreReplaced
