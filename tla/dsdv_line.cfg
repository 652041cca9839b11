SPECIFICATION FairSpec
CONSTANTS
  Node = {1, 2, 3}
  NoNode = 0
  Link <- Line3
  SlowTimers = TRUE
  MaxPeriod <- OnceBy1
  MaxHop = 3
  MaxFaults <- OneOfEach
INVARIANTS TypeOK UnsentHasEvent NoFutureNumber
PROPERTY AdvertsLeave
CHECK_DEADLOCK FALSE
