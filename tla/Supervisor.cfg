SPECIFICATION Spec
CONSTANTS
  t1 = t1
  t2 = t2
  Task = {t1, t2}
  Prefix <- Distinct
  MaxWorkers = 1
  MaxSteps = 2
  CallbacksRaise = TRUE
  Direct = TRUE
  MaxDeliveries = 1
  MaxRuns = 3
INVARIANTS
  PoolInv
PROPERTIES
  CancelIsFinal
  PoolDrains
