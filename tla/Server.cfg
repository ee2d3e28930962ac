SPECIFICATION Spec
CONSTANT NumWorkers = 3
INVARIANTS
  FinishedMeansAllExited
  WorkerPanicsUnnoticed
PROPERTIES
  ShutdownTerminates
  PoisonSpreads
