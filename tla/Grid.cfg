SPECIFICATION OnePartSpec
CONSTANTS
  t1 = t1
  t2 = t2
  n2 = n2
  tagA = tagA
  Task = {t1, t2}
  Node = {n2}
  NoNode = NoNode
  Tag = {tagA}
  NoTag = NoTag
  Priority <- MCPriority
  Affinity <- MCAffinity
  PrimaryCap <- MCPrimaryCap
  MaxRetries = 1
  DefaultRetries = 1
  MaxFaults = 0
  MaxWorkers = 1
  AssignBatch = 2
  MaxRestarts = 0
  MaxDeaths = 0
  MaxLost = 1
  GateTask = {t1, t2}
  MaxPauses = 2
  MaxEscalations = 1
  Recorder = {w1, w2}
  CostTask = {t1, t2}
  HourLimit = 4
  DayLimit = 6
  TaskLimit = 3
  SoftHour = 3
  SoftDay = 5
  WarnHour = 2
  MaxCosts = 4
  Elector = {a, b}
  NoElector = NoElector
  MaxRefreshers = 2
  MaxFailures = 1
  MaxCrashes = 1
  Slug = {"r"}
  RunState = {"draft", "review"}
  Unset = "unset"
  Archived = "archived"
  Transitions <- MCTransitions
  Given <- MCGiven
  MaxAtHome = 1
  MaxAway = 2
  MaxTurns = 2
  MaxTrips = 1
INVARIANTS
  AgentsHeld
  AgreementKept
PROPERTIES
  ImplementsLedger
  
CHECK_DEADLOCK FALSE
