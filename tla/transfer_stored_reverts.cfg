SPECIFICATION Spec
CONSTANTS
  NumTasks = 1
  Worker = {w1, w2}
  Ext = {jpg}
  NoExt = NoExt
  MaxAttempts = 2
  Overlap = FALSE
  LockSets <- NoLocks
  CommitAckLoss = FALSE
  MaxRetries = 0
  MaxReleases = 1
  MaxFaults = 0
INVARIANT StoredImpliesCompleted
