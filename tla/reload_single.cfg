SPECIFICATION FairSpec
CONSTANTS
  MaxWrites = 2
  MaxRequests = 0
  IpcReload = FALSE
  QuietStart = TRUE
INVARIANTS
  TypeOK
  NothingMissed
PROPERTIES
  KeepsPromise
  SavedIsLoaded
