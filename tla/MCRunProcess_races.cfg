SPECIFICATION MCSpec
CONSTANTS
  heir1 = heir1
  Leader = Leader
  Heirs <- MCHeirs
  Stubborn <- MCHeirs
  Detached = {}
  MaxCapture = 1
  MaxBytes = 2
  Jobs = {j1}
  Missing <- Stages
  MaxCycles = 2
  MaxSignals = 1
  MaxHeirs = 1
INVARIANTS
  TypeOK
  ReasonIsTrue
  OutputIsWhole
  OkMeansFinished
  NobodyLeft
PROPERTIES
  TerminationSettles
  PipelineEnds
CHECK_DEADLOCK FALSE
