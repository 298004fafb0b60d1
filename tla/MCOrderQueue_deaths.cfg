SPECIFICATION FairSpec
CONSTANTS
  Runs = {r1, r2, r3, r4}
  Orders = {o1, o2, o3}
  NoRun = NoRun
  NoOrder = NoOrder
  StaleAfter = 4
  MaxDelegations = 1
  Adversity <- Deaths
INVARIANTS
  MutualExclusion
  HeldLockIsFresh
  TakenUpOnce
PROPERTIES
  LockRemovedByRight
  DeadLockExpires
CHECK_DEADLOCK FALSE
