SPECIFICATION Spec
CONSTANTS
  t1 = t1
  t2 = t2
  t3 = t3
  h1 = h1
  h2 = h2
  None = None
  Thread = {t1, t2}
  Hart = {h1, h2}
  HartOf <- TwoHarts
  Priority <- TwoHartLevels
  TimerHart = h1
  Giver = {t2}
  Resetter = {}
  Timeouts = {FALSE}
  InitValue = 0
  MaxValue = 1
INVARIANT NoThreadLost
\* Every thread may come to wait with nobody left to release the semaphore.
CHECK_DEADLOCK FALSE
