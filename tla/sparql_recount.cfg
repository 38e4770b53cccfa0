\* The bounds of sparql.cfg.  Counts 5 and 100001, one on each side of the threshold of the cache.
\* Requests are finite in number, and the process may end.
SPECIFICATION FairSpec
CONSTANTS
  r1 = r1
  r2 = r2
  r3 = r3
  p1 = p1
  p2 = p2
  Requests = {r1, r2, r3}
  Patterns = {p1, p2}
  PatternOf <- MCPatternOf
  Numbers <- MCNumbers
  CacheThreshold = 100000
CHECK_DEADLOCK FALSE
PROPERTIES
  FallbackMeansCounting
