\* Two tasks whose claims are taken away from running workers, by the stale
\* timeout and by an administrator; a fault; a commit whose answer is lost.
SPECIFICATION FairSpec
CONSTANTS
  NumTasks = 2
  Worker = {w1, w2}
  Ext = {jpg}
  NoExt = NoExt
  MaxAttempts = 2
  Overlap = TRUE
  LockSets <- NoLocks
  CommitAckLoss = TRUE
  MaxRetries = 0
  MaxReleases = 1
  MaxFaults = 1
INVARIANTS
  AttemptBudget
  RowsAreReferenced
PROPERTIES
  EveryTaskSettles
