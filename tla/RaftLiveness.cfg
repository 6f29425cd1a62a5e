SPECIFICATION FairSpec
CONSTANTS
  n1 = n1
  n2 = n2
  n3 = n3
  c1 = c1
  c2 = c2
  c3 = c3
  None = None
  Torn = Torn
  Node <- Nodes2
  Command <- Commands2
  SnapshotThreshold = 0
  MaxReplicationBatchSize = 1
  MaxAppendBatchSize = 2
  Lossy = TRUE
  MaxTerm = 1
  MaxLate = 0
  MaxRestarts = 0
  Turn <- Turn12
  Appliers <- NoNodes
  Links <- AllLinks
PROPERTIES ProposalsEnd
CHECK_DEADLOCK FALSE
