SPECIFICATION FairSpec
CONSTANTS
  MaxPid = 2
  ScanThreshold = 1
  MaxPending = 1
  MaxRetries = 1
  Interests = {TRUE}
  MaxTid = 0
  MaxIncidents = 1
PROPERTIES
  NewProcessFound
