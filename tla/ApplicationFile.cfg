SPECIFICATION Spec
CONSTANTS
  r1 = r1
  r2 = r2
  r3 = r3
  o1 = o1
  Requests = {r1, r2, r3}
  Owners = {o1}
  None = None
  MaxReviews = 1
SYMMETRY Symmetry
CHECK_DEADLOCK FALSE
INVARIANTS
  ReadyWasComplete
  
  TimelineEndsAtStatus
