SPECIFICATION BatchMCSpec
CONSTANTS
  f1 = f1
  f2 = f2
  Files <- MCFiles
  Ghost = Ghost
  MaxMeddling = 2
  PlanLists <- MCPlanLists
  Wordings <- MCWordings
  ValidWordings <- MCValidWordings
  Configs <- AllConfigs
  Repositories <- MCRepositories
  MaxRounds = 2
  MaxEdits = 1
INVARIANT ParentRecordsSubmodule
CHECK_DEADLOCK FALSE
