SPECIFICATION Spec
CONSTANTS
  A = A
  B = B
  C = C
  E = E
  Node = {A, B, C, E}
  NoNode = NoNode
  Link <- Triangle
  Flow <- CtoE
  TtlStart = 2
  TtlIncrement = 1
  TtlThreshold = 3
  NetDiameter = 3
  RreqRetries = 2
  RreqRateLimit = 1
  RerrRateLimit = 1
  GratuitousReply = FALSE
  DestinationOnly = FALSE
  EnableHello = {A}
  SlowTimers = FALSE
  MaxPackets = 1
  MaxSeq <- TwoC
  MaxFaults = 0
INVARIANTS RequestIdentity RingBound SearchIsPursued
PROPERTY FloodOnce
CHECK_DEADLOCK FALSE
