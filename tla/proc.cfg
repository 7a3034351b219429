SPECIFICATION FairSpec
CONSTANTS
  MaxPid = 2
  ScanThreshold = 1
  MaxPending = 1
  MaxRetries = 1
  Interests = {TRUE, FALSE}
  MaxTid = 1
  MaxIncidents = 2
INVARIANTS
  TypeOK
  ExitIsReal
PROPERTIES
  EndedDropped
  ThreadsFollowed
  ChangeFindsAll
