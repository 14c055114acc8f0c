SPECIFICATION Spec
CONSTANTS
  p1 = p1
  p2 = p2
  Process = {p1, p2}
  NoEvent = NoEvent
  Event <- Chain
  Batch <- ChainBatch
  MaxCrashes = 1
SYMMETRY Processes
INVARIANTS
  TypeOK
  NoEvidenceLost
PROPERTIES
  QueueImplemented
