SPECIFICATION Spec
CONSTANTS
  n1 = n1
  n2 = n2
  n3 = n3
  c1 = c1
  c2 = c2
  c3 = c3
  None = None
  Torn = Torn
  Node <- Nodes3
  Command <- NoCommands
  SnapshotThreshold = 0
  MaxReplicationBatchSize = 2
  MaxAppendBatchSize = 2
  Lossy = TRUE
  MaxTerm = 2
  MaxLate = 1
  MaxRestarts = 1
  Turn <- Turn12
  Appliers <- NoNodes
  Links <- AllLinks
SYMMETRY AnyNode
VIEW View
ACTION_CONSTRAINTS OneCall
INVARIANTS ElectionSafety VotesBind LeaderHintIsTrue
CHECK_DEADLOCK FALSE
