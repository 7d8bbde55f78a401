SPECIFICATION Spec
CONSTANTS
  Requests = {r1, r2, r3}
  Keys = {k1}
  Bodies = {b1, b2}
  Calls = {c1, c2}
  Subjects = {s1, s2}
  Emails = {e1, e2}
  None = None
SYMMETRY Symmetry
CHECK_DEADLOCK FALSE
INVARIANTS
  OneEffectPerKey
  OwnAddress
  OneAccountPerPerson
PROPERTIES
  KeepsPromise
