CONSTANTS
  w1 = w1
  w2 = w2
  h1 = h1
  h2 = h2
  a = a
  b = b
  c = c
  i = i
  j = j
  Pipeline = {p1}
  Startup = Startup
  HasStartup = TRUE
  Writer = {w1, w2}
  batchOf <- MCBatchPair
  idOf <- MCSameId
  handleOf <- MCHandlePair
  None = None
  QueueLimit = 1
  RunawaySize = 0
  SeedLimit = 1
  MaxRetries = 1
  Collisions = 1
  Happens = {"failed insert", "stall"}
  MaxGen = 2
  MaxRefs = 4
SYMMETRY Symmetry
SPECIFICATION Spec
INVARIANTS NoOverRelease NoneVanishes
CHECK_DEADLOCK FALSE
