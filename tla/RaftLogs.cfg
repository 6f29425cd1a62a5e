SPECIFICATION Spec
CONSTANTS
  n1 = n1
  n2 = n2
  n3 = n3
  c1 = c1
  c2 = c2
  c3 = c3
  None = None
  Torn = Torn
  Node <- Nodes3
  Command <- Commands2
  SnapshotThreshold = 1
  MaxReplicationBatchSize = 2
  MaxAppendBatchSize = 2
  Lossy = TRUE
  MaxTerm = 2
  MaxLate = 1
  MaxRestarts = 0
  Turn <- Turn12
  Appliers <- Both12
  Links <- Star2
VIEW NewestView
ACTION_CONSTRAINTS NoLookBack InTurn CommandFirst InOrder PromptAppend OneCall SomeApply LateOrSnapshots OneApplies ApplyOrInstall NewestVotes
INVARIANTS TypeOK LogIndexed CommittedIsHeld StateMachineSafety AppliedExactly
PROPERTIES CommittedIsFinal
CHECK_DEADLOCK FALSE
