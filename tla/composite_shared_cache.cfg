\* One estimating sub-datasource, after one that counts exactly, and two
\* patterns that bind the same positions and so share an entry of the cache.
SPECIFICATION Spec
CONSTANTS
  N = 2
  r1 = r1
  r2 = r2
  p1 = p1
  p2 = p2
  g = g
  Requests = {r1, r2}
  Patterns = {p1, p2}
  GraphPatterns = {}
  TripleOnly = {}
  Availability = {{0, 1}}
  Estimating = {0}
  Failing = {}
  MaxSize = 2
  Contents <- AllContents
  Estimates = {0, 1, 3}
  MaxOffset = 3
  Limits = {2}
  CacheThreshold = 1
  CacheKey <- BoundPositions
CHECK_DEADLOCK FALSE
INVARIANTS
  EveryPageIsSlice
