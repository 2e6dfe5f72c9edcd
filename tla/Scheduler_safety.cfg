SPECIFICATION Spec
CONSTANTS
  idle = idle
  a = a
  b = b
  NoThread = NoThread
  Idle = idle
  Thread <- TwoThreads
  Levels = 2
  InitPriority <- Priorities
  InitTick = 2
  MaxCritical = 2
  Mortal = {b}
  DeleteLocked = TRUE
  EndsAlone = TRUE
  Deletable = {b}
  Resumable = {b}
INVARIANTS
  TypeOK
  ReadyTableExact
  RunningIsCurrent
  NestsBalanced
  TimeoutFindsSuspended
PROPERTIES
  SwitchRespectsOrder
  ClosedForGood
