SPECIFICATION FairSpec
CONSTANTS
  h1 = h1  h2 = h2  c1 = c1  c2 = c2   n1 = n1
  p1 = p1  i1 = i1  i2 = i2
  Handler = {h1, h2}
  Pod = {n1}
  Conn = {c1, c2}
  Pair = {p1}
  Item = {i1, i2}
  Existing = {i1, i2}
  PodOf <- MCPodOf
  Pool <- MCPool
  PairOf <- MCPairOf
  TTL = 0
  Batch = 1
  MaxNow = 2
  MaxRequests = 2
  MaxChanges = 1
  NoHandler = NoHandler
  NoRow = NoRow
CHECK_DEADLOCK FALSE
INVARIANTS TypeOK LagBounded
PROPERTIES EveryCheckEnds
