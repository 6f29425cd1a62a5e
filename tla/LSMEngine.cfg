SPECIFICATION MCSpec
CONSTANTS
  Key = {1, 2}
  c1 = c1
  c2 = c2
  Client = {c1, c2}
  None = None
  NotFound = NotFound
  MemtableFlushThreshold = 2
  CompactionThreshold = 1
  OpChCap = 1
  MaxCalls = 4
  MaxCrashes = 2
  MaxFaults = 1
  MaxNow = 2
INVARIANTS ScanAgreesWithGet HighestVersionWins LogIsInSequence 
PROPERTIES ImplementsKVStore
CHECK_DEADLOCK FALSE
