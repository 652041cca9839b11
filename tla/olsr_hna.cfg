SPECIFICATION Spec
CONSTANTS
  Gateway = {g1, g2}
  Net = {x1, x2}
  MaxDist = 2
INVARIANT NetworkRoutesAreCurrent
CHECK_DEADLOCK FALSE
