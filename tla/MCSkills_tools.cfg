SPECIFICATION MCSpec
CONSTANTS
  finding1 = finding1
  init1 = init1
  init2 = init2
  run1 = run1
  run2 = run2
  entry1 = entry1
  entry2 = entry2
  installer1 = installer1
  installer2 = installer2
  Reviewed <- MCReviewed
  SkillOf <- MCSkillOf
  LoopPaths = {"src", "backlog.md"}
  Ledgers = {"backlog.md"}
  GateConfigs <- MCGateConfigs
  MaxIterations = 2
  MaxTouches = 1
  LoopInits <- MCLoopInits
  StageRuns <- MCStageRuns
  Inputs <- MCInputs
  IndexModes <- MCIndexModes
  Disks = {"absent", "plain", "symlink"}
  Evidence = {"log"}
  Streams = {"stdout.txt"}
  Drafts <- MCDrafts
  Nothing = Nothing
  MaxLinger = 1
  Manifest <- MCManifest
  Sources <- MCSources
  Installers <- MCInstallers
  Modes = {"install", "repair"}
  MaxChanges = 1
  Names = {"own", "note"}
  OwnName = "own"
  MaxSetups = 2
INVARIANTS
  OneClaim CleanIsEarned  NothingForgotten ReportIsTrue
  OneOwner OutputTellsTruth
  ReportedIsInstalled ContentSurvives
PROPERTIES
  SessionEnds StageRunsEnd OnlyLinksReplaced
CHECK_DEADLOCK FALSE
