SPECIFICATION MCSpec
CONSTANTS
  None = None
  MaxNow = 3
  Client = {c1, c2}
  Handler = {h1, h2}
  Cost = 2
  Burst = 2
  Torn = Torn
  MaxIndex = 6
  MaxTerm = 2
  MaxBatch = 2
  MaxCrashes = 2
  NodeCount = 2
  MaxOutages = 1
  Key = {k1}
  Window = 1
  Elevated = 1
  HighTraffic = 2
  Critical = 3
  HotThreshold = 2
  Hold = 1
  MaxRequests = 2
  Keys = 2
  warmupConcurrency = 1
  Baseline = 1
  Peak = 4
  Scale = 2
  RampUp = 1
  PeakDuration = 2
  RampDown = 1
  Concurrency = 2
  ResultsCap = 1
  InjectAt = 2
  Peer = {n1, n2}
  Call = {m1}
  Absent = Absent
  MaxChanges = 2
  Type = {"EMERGENCY", "ATHLETICS", "PARADE"}
  Attendance = {0, 20000}
  Given = {"", "NORMAL"}
  MaxRounds = 1
INVARIANTS RateIsBounded StorageTypeOK RestartKeepsLog WindowsAreExact CriticalHolds EveryRequestIsReported PartitionIsolates StoredOnceAsIngested 
PROPERTIES ImplementsDurableLog DiscoveryConverges RunReturns
CHECK_DEADLOCK FALSE
