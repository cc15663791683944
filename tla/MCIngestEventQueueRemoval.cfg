CONSTANTS
  w1 = w1
  w2 = w2
  h1 = h1
  h2 = h2
  a = a
  b = b
  c = c
  i = i
  j = j
  Pipeline = {p1, p2}
  Startup = Startup
  HasStartup = TRUE
  Writer = {w1, w2}
  batchOf <- MCBatchPair
  idOf <- MCOwnId
  handleOf <- MCHandlePair
  None = None
  QueueLimit = 1
  RunawaySize = 0
  SeedLimit = 1
  MaxRetries = 0
  Collisions = 2
  Happens = {"failed insert", "scale down"}
  MaxGen = 2
  MaxRefs = 2
SYMMETRY Symmetry
SPECIFICATION Spec
INVARIANTS GracefulRemovalKeepsEvents NoneRefused
CHECK_DEADLOCK FALSE
