SPECIFICATION SteadySpec
CONSTANTS
  n1 = n1
  n2 = n2
  n3 = n3
  a = a
  b = b
  NoNode = NoNode
  Node = {n1, n2, n3}
  Command = {a}
  MaxTerm = 2
  MaxLog = 1
  MaxRestarts = 0
SYMMETRY Alike
INVARIANTS
  TypeOK
  OneLeaderPerTerm
  VotesExclusive
CHECK_DEADLOCK FALSE
