SPECIFICATION Spec
CONSTANTS
  Node = {1, 2, 3}
  NoNode = 0
  Link <- Line3
  SlowTimers = TRUE
  MaxPeriod <- TwiceBy1Once2
  MaxHop = 3
  MaxFaults <- NoFault
PROPERTY AcceptedIsKept
CHECK_DEADLOCK FALSE
