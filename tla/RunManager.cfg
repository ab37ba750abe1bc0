SPECIFICATION RaceSpec
CONSTANTS
  r1 = r1
  r2 = r2
  p1 = p1
  p2 = p2
  Slug = {r1, r2}
  Process = {p1, p2}
  MayUse <- OneShared
  State <- MCState
  InitialState = "draft"
  Edges <- MCEdges
  NoState = NoState
  MaxVersion = 1
  MaxCrashes = 1
  MaxYear = 0
  MaxCalls = 6
INVARIANTS
  RecoveryInv
CHECK_DEADLOCK FALSE
