SPECIFICATION Spec
CONSTANTS
  t1 = t1
  t2 = t2
  t3 = t3
  h1 = h1
  h2 = h2
  None = None
  Thread = {t1, t2, t3}
  Hart = {h1}
  HartOf <- OneHart
  Priority <- OneHartLevels
  TimerHart = h1
  Giver = {t2, h1}
  Resetter = {t3}
  Timeouts = {TRUE, FALSE}
  InitValue = 1
  MaxValue = 2
INVARIANTS
  TypeOK
  TokensConserved
  NoTokenPastWaiter
  WaitersInOrder
  NoThreadLost
  TimeoutAsserted
PROPERTY FirstComeFirst
