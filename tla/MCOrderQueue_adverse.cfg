SPECIFICATION FairSpec
CONSTANTS
  Runs = {r1, r2, r3, r4}
  Orders = {o1, o2}
  NoRun = NoRun
  NoOrder = NoOrder
  StaleAfter = 4
  MaxDelegations = 1
  Adversity <- Everything
INVARIANTS
  NoLeakedLock
PROPERTIES
  EveryRunEnds
CHECK_DEADLOCK FALSE
