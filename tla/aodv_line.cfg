SPECIFICATION Spec
CONSTANTS
  A = A
  B = B
  C = C
  E = E
  Node = {A, B, C}
  NoNode = NoNode
  Link <- Line3
  Flow <- AtoC
  TtlStart = 2
  TtlIncrement = 1
  TtlThreshold = 2
  NetDiameter = 2
  RreqRetries = 1
  RreqRateLimit = 1
  RerrRateLimit = 1
  GratuitousReply = TRUE
  DestinationOnly = FALSE
  EnableHello = {}
  SlowTimers = TRUE
  MaxPackets = 2
  MaxSeq <- TwoA
  MaxFaults = 2
INVARIANTS NextHopInRange TypeOK NoFutureSeq QueuedIsPursued
PROPERTIES SeqOnlyByRequest LostNeighbourUnused
CHECK_DEADLOCK FALSE
