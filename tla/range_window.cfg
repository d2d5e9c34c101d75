\* More parts than the window, a window wider than the download parallelism.
SPECIFICATION FairSpec
CONSTANTS
  NumParts = 6
  PartLimit = 10
  DownloadParallelism = 2
  UploadParallelism = 2
  MaxInFlightParts = 3
INVARIANTS
  SelectHasBranch
  InFlightBound
  HashedInOrder
  CompleteIsWhole
PROPERTIES
  Finishes
CHECK_DEADLOCK FALSE
