SPECIFICATION FairSpec
CONSTANTS
  j1 = j1
  ssh = ssh
  None = None
  SshJob <- SshJobs
  Job <- TwoJobs
  Chunks <- TwoJobChunks
  LateFlush <- Late
  MaxRun = 2
  MaxCrashes = 2
  MaxRotations = 1
INVARIANTS
  TypeOK
  StateIsSound
  CapturedIsQueued
  CursorSkipsNothing
  CommandsAreUnique
  ExtendsUntilCrash
PROPERTIES
  EventuallyAccepted
