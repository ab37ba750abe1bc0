SPECIFICATION ReliableSpec
CONSTANTS
  t1 = t1
  t2 = t2
  n1 = n1
  n2 = n2
  tagA = tagA
  Task = {t1, t2}
  Node = {n1, n2}
  NoNode = NoNode
  Tag = {tagA}
  NoTag = NoTag
  Priority <- MCPriority
  Affinity <- MCAffinity
  PrimaryCap <- MCPrimaryCap
  MaxRetries = 1
  DefaultRetries = 1
  MaxFaults = 0
  MaxWorkers = 1
  AssignBatch = 1
  MaxRestarts = 1
  MaxDeaths = 1
  MaxLost = 0
INVARIANTS
  CoordinatorInv
PROPERTIES
  CompletedTaskIsFinal
  QueuedTaskIsTaken
