CONSTANTS
  Events = {e1, e2}
  Public = {e1}
  Workers = {w1, w2}
  MaxAttempts = 3
  MaxRequeues = 2
  None = None
SPECIFICATION FairSpec
INVARIANTS
  HolderHasLease
PROPERTIES
  KeepsPromise
  EventSettles
CHECK_DEADLOCK FALSE
