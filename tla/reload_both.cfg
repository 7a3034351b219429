SPECIFICATION FairSpec
CONSTANTS
  MaxWrites = 1
  MaxRequests = 2
  IpcReload = TRUE
  QuietStart = FALSE
PROPERTIES
  InForceIsRefreshed
