SPECIFICATION StorageSpec
CONSTANTS
  r1 = r1
  r2 = r2
  p1 = p1
  Slug = {r1, r2}
  Process = {p1}
  MayUse <- AllRuns
  State <- MCState
  InitialState = "draft"
  Edges <- MCEdges
  NoState = NoState
  MaxVersion = 3
  MaxCrashes = 1
  MaxYear = 1
  SegmentSize = 2
  MaxEntries = 3
  MaxAuditCrashes = 1
  Fact = {f1, f2, f3}
  Tag = {t1, t2}
  MaxFacts = 2
  Row = {r1, r2, r3, r4}
  MaxRows = 2
  CleanInterval = 2
  MaxHits = 1
  MemNode = {n1, n2, n3}
  MaxSets = 3
  MaxStamp = 3
  Title = {a, b}
  Channel = {c1}
  PostInterval = 2
  Window = 3
  MaxAlertTime = 4
  MaxAlerts = 4
  Key = {k1}
  Rate = 1
  Burst = 2
  MaxNow = 3
  MaxKills = 1
  Profile = {p1}
  Version = {2, 10}
  TextRank <- MCTextRank
  MaxRevision = 2
  MaxOutside = 1
  OldState = {a, c}
  NewName = {a, c, d}
  Ended = {c}
  PluginId = {"a", "b", "p"}
  Provider = {"p", "b"}
  NoPlugin = NoPlugin
  DepGraphs <- MCGraphs
  MaxRelease = 2
  MaxEdits = 1
  MaxHooks = 1
  Package = {p1, p2}
  Published = {p1, p2}
  Signed = {p1}
  MaxStops = 2
  MaxFull = 1
  Job = {t1, t2}
  Command = {"command"}
  MaxAborts = 1
  Completion = {q1, q2}
  MaxSwitches = 3
  HookHandler = {h1, h2}
  Coroutine = {h2}
  MaxHookOps = 5
  Override = {1, 2}
  Jitter = 1
  MaxSignals = 1
  Draft = {d1, d2}
  MaxHistory = 5
  Promotion = 2
  MaxRejections = 7
  MaxFixes = 3
  MaxReboots = 1
  ErrorText <- MCErrors
  MaxPlans = 3
  Handled = {"retry"}
  MaxMinutes = 5
INVARIANTS
  FilesKept
  DerivedAgrees
  TimesKept
  SequencesSafe
  LoadOrder
PROPERTIES
  SuccessRests
CHECK_DEADLOCK FALSE
