\* Several workers, claims that go stale under them, rows locked at a claim.
SPECIFICATION Spec
CONSTANTS
  User = {u1}
  Tweet = {t1}
  Worker = {w1, w2}
  NoWorker = NoWorker
  BatchSize = 2
  MaxAttempts = 2
  Overlap = TRUE
  LockSets <- AnyLocks
  MaxVersion = 2
  MaxRefreshes = 1
  MaxFaults = 1
SYMMETRY WorkerSymmetry
PROPERTIES
  NoRefreshLost
