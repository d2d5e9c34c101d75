\* Nothing takes a claim from a running worker: attempts time out before
\* their claims go stale, no administrator releases, commits are acknowledged.
SPECIFICATION Spec
CONSTANTS
  NumTasks = 2
  Worker = {w1, w2}
  Ext = {jpg, png}
  NoExt = NoExt
  MaxAttempts = 2
  Overlap = FALSE
  LockSets <- OneLock
  CommitAckLoss = FALSE
  MaxRetries = 1
  MaxReleases = 0
  MaxFaults = 1
SYMMETRY WorkerSymmetry
INVARIANTS
  ClaimIsOwned
  RowDescribesBucket
PROPERTIES
  ImplementsLifecycle
