SPECIFICATION FairSpec
CONSTANTS
  StillActive = StillActive
  Killed = Killed
INVARIANTS TypeOK RunsWithModOnly BufferOutlivesRemote SaysWhatItLeaves
PROPERTY NeverLeftSuspended
CHECK_DEADLOCK FALSE
