SPECIFICATION FairSpec
CONSTANTS
  t1 = t1
  t2 = t2
  t3 = t3
  h1 = h1
  h2 = h2
  NoOwner = NoOwner
  Thread <- MCThread
  Hart <- MCHart
  HartOf <- MCHartOf
  First <- MCFirst
  Priority <- MCUrgentT2
  MaskingCaller = {t2}
  LockingTrap = {h1}
INVARIANTS
  TypeOK
  MutualExclusion
  HolderKeepsHart
  IrqRestored
PROPERTIES
  ImplementsLock
  MaskedFreed
