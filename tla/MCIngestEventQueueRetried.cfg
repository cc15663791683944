CONSTANTS
  w1 = w1
  w2 = w2
  h1 = h1
  h2 = h2
  a = a
  b = b
  c = c
  i = i
  j = j
  Pipeline = {p1, p2}
  Startup = Startup
  HasStartup = TRUE
  Writer = {w1}
  batchOf <- MCBatchOne
  idOf <- MCSameId
  handleOf <- MCHandleOne
  None = None
  QueueLimit = 1
  RunawaySize = 0
  SeedLimit = 1
  MaxRetries = 1
  Collisions = 2
  Happens = {"failed insert", "scale down"}
  MaxGen = 1
  MaxRefs = 2
SYMMETRY Symmetry
SPECIFICATION Spec
INVARIANTS GracefulRemovalKeepsEvents
CHECK_DEADLOCK FALSE
