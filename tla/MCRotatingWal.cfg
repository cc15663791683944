CONSTANTS
  BatchCount = 2
  WorkerCount = 2
  MaxBatchBytes = 2
  MaxCommitAttempts = 2
  MaxDisturbances = 2
SPECIFICATION Spec
INVARIANTS TypeOK AckedNeverLost DuplicatesBounded SealedIsHandled
PROPERTIES AckedIsShipped
CHECK_DEADLOCK FALSE
