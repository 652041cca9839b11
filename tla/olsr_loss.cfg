SPECIFICATION FairSpec
CONSTANTS
  Node = {1, 2}
  Networks <- OnlyPair
  Will <- AllDefault
  MsgId = {1}
  MaxAnsn = 5
PROPERTY LossIsNoticed
CHECK_DEADLOCK FALSE
