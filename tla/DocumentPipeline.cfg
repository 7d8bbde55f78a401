CONSTANTS
  Sessions = {s1, s2, s3}
  Legacy = {s1}
  Contents = {good, evil}
  Infected = {evil}
  Unreadable = {s3}
  Workers = {w1, w2}
  MaxAttempts = 2
  MaxVersions = 2
  None = None
SPECIFICATION FairSpec
INVARIANTS
  DownloadedIsScanned
  GivenUpIsReported
PROPERTIES
  NoStarvation
CHECK_DEADLOCK FALSE
