SPECIFICATION Spec
CONSTANTS
  n1 = n1
  n2 = n2
  n3 = n3
  c1 = c1
  c2 = c2
  c3 = c3
  None = None
  Torn = Torn
  Node <- Nodes3
  Command <- Commands2
  SnapshotThreshold = 0
  MaxReplicationBatchSize = 2
  MaxAppendBatchSize = 2
  Lossy = TRUE
  MaxTerm = 2
  MaxLate = 0
  MaxRestarts = 1
  Turn <- Turn12
  Appliers <- Both12
  Links <- Star2
VIEW NewestView
ACTION_CONSTRAINTS InTurn InOrder CommandFirst SomeApply OneApplies SomeLinks OneCall PromptAppend NewestVotes AfterCrash
INVARIANTS RestartKeepsLog AcknowledgedIsDurable  StateMachineSafety AppliedExactly
CHECK_DEADLOCK FALSE
