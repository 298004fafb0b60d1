SPECIFICATION Spec
CONSTANTS
  Runs = {r1, r2}
  Orders = {o1, o2}
  NoRun = NoRun
  NoOrder = NoOrder
  StaleAfter = 4
  MaxDelegations = 1
  Adversity <- Starvation
INVARIANTS
  MutualExclusion
CHECK_DEADLOCK FALSE
