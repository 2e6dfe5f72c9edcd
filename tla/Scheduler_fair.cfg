SPECIFICATION FairSpec
CONSTANTS
  idle = idle
  a = a
  b = b
  NoThread = NoThread
  Idle = idle
  Thread <- TwoThreads
  Levels = 3
  InitPriority <- Priorities
  InitTick = 1
  MaxCritical = 1
  Mortal = {}
  DeleteLocked = FALSE
  EndsAlone = TRUE
  Deletable = {}
  Resumable = {}
PROPERTY UrgentRuns
