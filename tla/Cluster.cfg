SPECIFICATION ClusterSpec
CONSTANTS
  n1 = n1
  n2 = n2
  a = a
  b = b
  NoNode = NoNode
  Caller = {"loop", "handler", "main"}
  MaxElections = 3
  MaxForced = 3
  MaxFaults = 2
INVARIANTS
  BridgeInv
PROPERTIES
  BridgeSettles
  LockIsReleased
CHECK_DEADLOCK FALSE
