CONSTANTS
  NContracts = 1
  Behind = {1}
  MaxAttempts = 2
  RenewalTicks = 2
  MaxKills = 1
  MaxRequeues = 1
  MaxResolutions = 1
  Junk = Junk
  Malformed = {}
SPECIFICATION FairSpec
INVARIANTS
  OneEnvelope
  VoidAskedOnce
  SignatureMovesFunding
  GivenUpIsReported
PROPERTIES
  MessageSettles
  FundedIsRenewed
