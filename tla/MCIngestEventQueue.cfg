CONSTANTS
  w1 = w1
  w2 = w2
  h1 = h1
  h2 = h2
  a = a
  b = b
  c = c
  i = i
  j = j
  Pipeline = {p1, p2}
  Startup = Startup
  HasStartup = FALSE
  Writer = {w1}
  batchOf <- MCBatchOne
  idOf <- MCSameId
  handleOf <- MCHandleOne
  None = None
  QueueLimit = 1
  RunawaySize = 0
  SeedLimit = 1
  MaxRetries = 1
  Collisions = 2
  Happens = {"failed insert", "scale down", "producer crash", "processor crash", "stall", "runaway queue"}
  MaxGen = 2
  MaxRefs = 3
SYMMETRY Symmetry
SPECIFICATION Spec
INVARIANTS TypeOK ExclusiveRef PublishedHasBody NoOverRelease NoneVanishes
CHECK_DEADLOCK FALSE
