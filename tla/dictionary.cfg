\* Nine loads of up to four requests in two processes, five ids, one fault.
SPECIFICATION Spec
CONSTANTS
  Null = Null
  Trim <- McTrim
  Instances <- McInstances
  Callers <- McCallers
  Home <- McHome
  Loads <- McLoads
  MaxId = 5
  MaxFaults = 1
INVARIANTS
  CacheAgrees
  PreloadCovers
  OwnRowsReadable
  KnownStringsAreFree
PROPERTY
  EveryCallReturns
CHECK_DEADLOCK FALSE
