\* Three datasources of all kinds in all orders, two connections.  A process that has exited
\* does nothing more.
SPECIFICATION FairSpec
CONSTANTS
  NumDatasources = 3
  Configurations <- AllConfigurations
  Clients = {c1, c2}
  c1 = c1
  c2 = c2
CHECK_DEADLOCK FALSE
INVARIANTS
  TypeOK
  ListensWhenSettled
  IndexListsWhatIsServed
  StopIsFinal
  DocumentsAreClosed
PROPERTIES
  WorkerListens
  ConnectionsEnd
