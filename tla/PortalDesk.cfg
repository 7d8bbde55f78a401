SPECIFICATION Spec
CONSTANTS
  b1 = b1
  b2 = b2
  o1 = o1
  o2 = o2
  Borrowers = {b1, b2}
  Staff = {ad}
  OrgOf <- MCOrgOf
  Tasks = {t1}
  Conversations = {c1}
  Notifications = {n1}
  None = None
  MaxRequests = 5
CHECK_DEADLOCK FALSE
INVARIANTS
  CompletedIsStamped
PROPERTIES
  ClosedIsClosedToStaff
