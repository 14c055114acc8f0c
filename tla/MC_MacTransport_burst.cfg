SPECIFICATION Spec
CONSTANTS
  j1 = j1
  j2 = j2
  None = None
  Torn = Torn
  MaxRun = 2
  Job <- TwoJobs
  Chunks <- TwoJobChunks
  MaxCrashes = 0
INVARIANTS
  OutboxExtendsChain
