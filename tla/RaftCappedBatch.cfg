SPECIFICATION Spec
CONSTANTS
  n1 = n1
  n2 = n2
  n3 = n3
  c1 = c1
  c2 = c2
  c3 = c3
  None = None
  Torn = Torn
  Node <- Nodes3
  Command <- Commands3
  SnapshotThreshold = 0
  MaxReplicationBatchSize = 1
  MaxAppendBatchSize = 2
  Lossy = FALSE
  MaxTerm = 3
  MaxLate = 0
  MaxRestarts = 0
  Turn <- Turn123
  Appliers <- NoNodes
  Links <- Relay123
VIEW NewestView
ACTION_CONSTRAINTS InTurn InOrder SomeLinks OneCall SomeApply PromptAppend NoLookBack NewestVotes
INVARIANTS LeaderCompleteness
CHECK_DEADLOCK FALSE
