SPECIFICATION FairSpec
CONSTANTS
  p1 = p1
  p2 = p2
  Process = {p1}
  NoEvent = NoEvent
  Event <- Events
  Batch <- Batches
  MaxCrashes = 2
INVARIANTS
  OneCopy
PROPERTIES
  EventuallyAcknowledged
