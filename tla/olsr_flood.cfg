SPECIFICATION FairSpec
CONSTANTS
  Node = {1, 2, 3, 4, 5}
  Will <- Mixed
  MaxTc = 2
INVARIANTS TypeOK MprCovers WillingFirst FloodOnce FloodReachesAll
PROPERTY SelectionEnds
CHECK_DEADLOCK FALSE
