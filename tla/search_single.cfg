\* The default deployment: one worker; a batch of both kinds, errors and
\* crashes, a lost index.
SPECIFICATION FairSpec
CONSTANTS
  User = {u1}
  Tweet = {t1, t2}
  Worker = {w1}
  NoWorker = NoWorker
  BatchSize = 2
  MaxAttempts = 2
  Overlap = FALSE
  LockSets <- NoLocks
  MaxVersion = 2
  MaxRefreshes = 0
  MaxFaults = 2
INVARIANTS
  CompletedIsFresh
PROPERTIES
  EventuallySearchable
