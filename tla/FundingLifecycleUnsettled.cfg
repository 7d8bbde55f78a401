CONSTANTS
  o1 = o1
  o2 = o2
  c1 = c1
  c2 = c2
  c3 = c3
  p1 = p1
  Offers = {o1}
  Conditions = {c1, c3}
  Programs = {p1}
  ProgramOf <- MCProgramOf
  MadeOn <- MCMadeOn
  SubmissionOf <- MCSubmissionOf
  MaxVersion = 2
  MaxInFlight = 1
  MaxMatchings = 2
  None = None
SPECIFICATION MCSpec
INVARIANTS
  OwnSubmissionIsSettled
CHECK_DEADLOCK FALSE
