SPECIFICATION Spec
CONSTANTS
  f1 = f1
  f2 = f2
  Files <- MCFiles
  Ghost = Ghost
  MaxMeddling = 0
  PlanLists <- MCPlanLists
  Wordings <- MCWordings
  ValidWordings <- MCValidWordings
  Configs <- PushConfig
INVARIANTS
  PushIsRetried
CHECK_DEADLOCK FALSE
