SPECIFICATION FairSpec
CONSTANTS
  MaxWrites = 2
  MaxRequests = 1
  IpcReload = TRUE
  QuietStart = TRUE
PROPERTIES
  SavedIsLoaded
