\* Three workers, two that die by themselves, two reloads, one stop.  The
\* master may end when all workers have.
SPECIFICATION FairSpec
CONSTANTS
  NumWorkers = 3
  KillDisconnects = TRUE
  MaxCrashes = 2
  MaxReloads = 2
CHECK_DEADLOCK FALSE
INVARIANTS
  TypeOK
  CapacityKept
  NoSurplus
PROPERTIES
  NoDowntime
  ReloadIsComplete
  ReloadEndsOrStalls
  CleanTermination
