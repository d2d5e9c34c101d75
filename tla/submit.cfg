\* Ten loads of one to three concurrent requests, with one fault at any step.
SPECIFICATION Spec
CONSTANTS
  Null = Null
  Unparsable = Unparsable
  Loads <- McLoads
  Interval = 2
  MaxItems = 3
  MaxFaults = 1
INVARIANTS
  ReportedIsStored
  HistoryFaithful
  TransferOwed
  RelationsMatch
  NothingLostSilently
PROPERTY
  FactsAreKept
CHECK_DEADLOCK FALSE
