SPECIFICATION Spec
CONSTANTS
  j1 = j1
  ssh = ssh
  None = None
  Job <- TwoJobs
  Chunks <- TwoJobChunks
  SshJob <- SshJobs
  LateFlush <- Nothing
  MaxRun = 2
  MaxCrashes = 1
  MaxRotations = 0
INVARIANTS
  OutboxExtendsChain
