SPECIFICATION ServicesSpec
CONSTANTS
  AgentTask = {t1, t2}
  DefaultTask = {t1}
  Suspending = {t2}
  NoAgentTask = NoAgentTask
  MaxStarts = 2
  MaxStops = 2
  MaxChanges = 2
  BusType = {"a", "b"}
  Trace = {t1}
  Subscriber = {"ab", "ba"}
  ReEmits <- MCReEmits
  MaxHops = 2
  Checked = {v}
  SoftLimit <- MCSoft
  HardLimit <- MCHard
  DefaultCalls = 1
  LlmFailures = 2
  MaxEmits = 1
  MaxUse = 2
  Watched = {"state_exists", "cross_profile_no_cycle"}
  MaxOverrides = 1
  Sending = {c1, c2}
  Retries = {2, 4}
  Threshold = 1
  Part = {1, 2}
  MaxSecond = 1
  Tool = {"a", "s", "g"}
  Kind <- MCKind
  Hanging = {"s"}
  ToolCall = {1, 2}
  NoCall = 0
  Threads = 1
  Links <- MCLinks
  MaxWorkerCrashes = 2
INVARIANTS
  EndedWell
PROPERTIES
  LoopsProgress
  GuardsProgress
  CallersReturn
CHECK_DEADLOCK FALSE
