\* Three sub-datasources: 0 holds triples only, 1 estimates its counts and 2
\* may fail or be down.  Two concurrent requests, of which either may name a
\* graph.  Requests are finite in number, and the process may end.
SPECIFICATION FairSpec
CONSTANTS
  N = 3
  r1 = r1
  r2 = r2
  p1 = p1
  p2 = p2
  g = g
  Requests = {r1, r2}
  Patterns = {p1, p2, g}
  GraphPatterns = {g}
  TripleOnly = {0}
  Availability = {{0, 1, 2}, {0, 1}}
  Estimating = {1}
  Failing = {2}
  MaxSize = 2
  Contents <- SomeContents
  Estimates = {0, 3}
  MaxOffset = 3
  Limits = {2}
  CacheThreshold = 1
  CacheKey <- BoundPositions
CHECK_DEADLOCK FALSE
INVARIANTS
  TypeOK
  PageIsSlice
  ClosedPageIsFull
  ExactTotalIsTrue
PROPERTIES
  StreamProtocol
  IsConcatenation
  EveryQueryCloses
