\* Bodies of up to five buffers of one to four bytes, more than the window and
\* its parallelism; the sixth is beyond the part limit.  Offsets have four bits.
SPECIFICATION SpecPaths
CONSTANTS
  MaxUint = 15
  MaxParts = 6
  MaxChunk = 4
  PartLimit = 5
  DownloadParallelism = 2
  UploadParallelism = 2
  MaxInFlightParts = 3
INVARIANTS
  WholeObject
  HeldBound
  RefusedIffTooLong
  PathsCutAlike
PROPERTIES
  Finishes
\* A transfer ends.
CHECK_DEADLOCK FALSE
