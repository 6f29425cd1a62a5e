SPECIFICATION CrashSpec
CONSTANTS
  Torn = Torn
  MaxIndex = 6
  MaxTerm = 2
  MaxBatch = 2
  MaxCrashes = 2
INVARIANTS RestartIsIndexed
CHECK_DEADLOCK FALSE
