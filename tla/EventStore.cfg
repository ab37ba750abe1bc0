SPECIFICATION Spec
CONSTANTS
  Store = {s1}
  BatchSize = 2
  MaxBatch = 2
  MaxEvents = 4
  MaxCrashes = 2
  MaxFaults = 1
  MaxArchives = 1
INVARIANTS
  StoreInv
PROPERTIES
  EventsImmutable
  PurgeRemovesExpired
