SPECIFICATION Spec
CONSTANTS
  A = A
  B = B
  C = C
  E = E
  Node = {A, B, C, E}
  NoNode = NoNode
  Link <- Diamond
  Flow <- Converge
  TtlStart = 3
  TtlIncrement = 1
  TtlThreshold = 3
  NetDiameter = 3
  RreqRetries = 1
  RreqRateLimit = 9
  RerrRateLimit = 1
  GratuitousReply = TRUE
  DestinationOnly = FALSE
  EnableHello = {}
  SlowTimers = FALSE
  MaxPackets = 3
  MaxSeq <- One
  MaxFaults = 0
INVARIANT LoopFree
CHECK_DEADLOCK FALSE
