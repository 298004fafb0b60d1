SPECIFICATION Spec
CONSTANTS
  Runs = {r1, r2, r3}
  Orders = {o1, o2, o3}
  NoRun = NoRun
  NoOrder = NoOrder
  StaleAfter = 4
  MaxDelegations = 1
  Adversity <- Races
INVARIANTS
  NoOrphan
CHECK_DEADLOCK FALSE
