SPECIFICATION FairSpec
CONSTANTS
  t1 = t1
  t2 = t2
  t3 = t3
  h1 = h1
  h2 = h2
  NoOwner = NoOwner
  Thread <- MCThread
  Hart <- MCHart
  HartOf <- MCHartOf
  First <- MCFirst
  Priority <- MCEqual
  MaskingCaller = {}
  LockingTrap = {h1}
PROPERTY LockFreed
