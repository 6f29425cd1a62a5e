SPECIFICATION MCSpec
CONSTANTS
  NodeCount = 2
  Key = {k1, k2}
  Writer = {1}
  Reader = {2, 3}
  None = None
  NotFound = NotFound
  Written = {k1}
  CacheCapacity = 1
  MaxTerm = 2
  MaxLost = 2
  n1 = n1
  n2 = n2
  k1 = k1
  TTL = 1
  MaxLog = 3
  MaxRestarts = 1
  MaxNow = 2
VIEW View
ACTION_CONSTRAINTS InOrder DuringWrite OneVictim Roles
INVARIANTS AnswersAreTrue CacheIsSound  ReadsTryEveryNode  
CHECK_DEADLOCK FALSE
