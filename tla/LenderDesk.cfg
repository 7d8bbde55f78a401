SPECIFICATION Spec
CONSTANTS
  p1 = p1
  p2 = p2
  l1 = l1
  l2 = l2
  Lenders = {l1, l2}
  Programs = {p1, p2}
  LenderOf <- MCLenderOf
  a1 = a1
  a2 = a2
  Profiles = {a1, a2}
  None = None
  MaxRequests = 3
  MaxAnswers = 2
  MaxVersion = 2
SYMMETRY Symmetry
CHECK_DEADLOCK FALSE
INVARIANTS
  EvaluatedTermsSubmitted
  DecisionsSeeEachOther
  WaitingIsCounted
  DeclinedIsNotified
