SPECIFICATION Spec
CONSTANTS
  a1 = a1
  s1 = s1
  Profiles <- All
  Async = {a1}
  Sync = {s1}
INVARIANTS
  WorkflowInv
PROPERTIES
  ApprovedByHuman
  AnswerHonoured
  TimeoutNotEarly
  OverdueMovesOn
