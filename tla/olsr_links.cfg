SPECIFICATION TimedSpec
CONSTANTS
  Node = {1, 2, 3, 4}
  Networks <- LinesAndTriangle
  Will <- AllDefault
  MsgId = {1}
  MaxAnsn = 5
INVARIANTS TypeOK OnlyTwoWay SendEntryFound
PROPERTIES RoutesSettle SelectorsSettle
CHECK_DEADLOCK FALSE
