SPECIFICATION Spec
CONSTANTS
  f1 = f1
  f2 = f2
  Files <- MCFiles
  Ghost = Ghost
  MaxMeddling = 1
  PlanLists <- MCPlanLists
  Wordings <- MCWordings
  ValidWordings <- MCValidWordings
  Configs <- PushConfig
INVARIANTS
  OnlyScannedIsCommitted
CHECK_DEADLOCK FALSE
