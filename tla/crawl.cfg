\* Two clients, one with requests of all kinds, against five servers.  All clients end.
SPECIFICATION FairSpec
CONSTANTS
  Clients = {c1, c2}
  c1 = c1
  c2 = c2
  Worlds <- SomeWorlds
  Requests <- SomeRequests
  PageSize = 2
  Estimates = {0, 2, 5}
  Second = 2
  MaxNow = 1
  MaxPage = 9
CHECK_DEADLOCK FALSE
INVARIANTS
  TypeOK
  GotIsSlice
  NothingMissed
  ControlsAreOwn
  OneMemento
  ClosestMementoServed
  DatetimeLeadsBack
PROPERTIES
  CrawlEnds
