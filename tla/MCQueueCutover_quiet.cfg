SPECIFICATION MCSpec
CONSTANTS
  Runs = {r1, r2, r3, r4, r5}
  Orders = {o1, o2, o3}
  NoRun = NoRun
  NoOrder = NoOrder
  StaleAfter = 4
  MaxDelegations = 1
  Adversity <- NoAdversity
  CutRuns = {c1, c2}
  CutOrders = {co}
INVARIANTS
  TypeOK
  NoOrphan
  ReadyMissesNothing
PROPERTIES
  OldestFirst
  ImplementsService
  EveryOrderServed
CHECK_DEADLOCK FALSE
