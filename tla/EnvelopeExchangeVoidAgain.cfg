CONSTANTS
  NContracts = 1
  Behind = {1}
  MaxAttempts = 2
  RenewalTicks = 2
  MaxKills = 0
  MaxRequeues = 1
  MaxResolutions = 1
  Junk = Junk
  Malformed = {}
SPECIFICATION Spec
PROPERTY
  AmbiguousVoidIsFinal
