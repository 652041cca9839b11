SPECIFICATION Spec
CONSTANTS
  Node = {1, 2, 3}
  NoNode = 0
  Link <- Triangle
  SlowTimers = TRUE
  MaxPeriod <- TwiceBy1
  MaxHop = 2
  MaxFaults <- NoFault
INVARIANTS NextHopHasRoute LoopFree
CHECK_DEADLOCK FALSE
