SPECIFICATION FairSpec
CONSTANTS
  j1 = j1
  j2 = j2
  None = None
  Torn = Torn
  MaxRun = 2
  Job <- TwoJobs
  Chunks <- TwoJobChunks
  MaxCrashes = 2
INVARIANTS
  TypeOK
  StateIsSound
  JobsAreKept
  ExtendsUntilBurst
  UniqueUntilCrash
PROPERTIES
  EventuallyAccepted
CHECK_DEADLOCK FALSE
