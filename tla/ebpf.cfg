SPECIFICATION FairSpec
CONSTANTS
  MaxTask = 2
  MaxPending = 1
  MaxRetries = 1
  Interests = {TRUE, FALSE}
  MaxIncidents = 2
  Watched = {1}
INVARIANTS
  TypeOK
  AnnouncedIsNotLost
  NewTidIsNotLost
  EndedIsNotLost
PROPERTIES
  AnnouncedIsTracked
  TrackedGetsFiltered
