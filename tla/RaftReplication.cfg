SPECIFICATION Spec
CONSTANTS
  n1 = n1
  n2 = n2
  n3 = n3
  c1 = c1
  c2 = c2
  c3 = c3
  None = None
  Torn = Torn
  Node <- Nodes3
  Command <- Commands3
  SnapshotThreshold = 0
  MaxReplicationBatchSize = 2
  MaxAppendBatchSize = 2
  Lossy = TRUE
  MaxTerm = 3
  MaxLate = 0
  MaxRestarts = 0
  Turn <- Turn121
  Appliers <- NoNodes
  Links <- Star2
VIEW NewestView
ACTION_CONSTRAINTS InTurn InOrder CommandFirst SomeApply SomeLinks OneCall PromptAppend NoLookBack NewestVotes
INVARIANTS LogMatching LeaderCompleteness
CHECK_DEADLOCK FALSE
