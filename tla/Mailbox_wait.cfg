SPECIFICATION Spec
CONSTANTS
  t1 = t1
  t2 = t2
  t3 = t3
  isr = isr
  None = None
  Thread = {t1, t2, t3}
  Isr = {isr}
  BasePriority <- ThreeLevels
  Uses <- MailboxOnly
  Limits = {"ticks"}
  HoldMax = 2
  Bit = {b1, b2}
  MbSize = 2
  Mail = {m1, m2}
  Cell = {c1, c2}
  Message = {m1, m2}
  Block = {k1, k2}
  MbRaces = TRUE
INVARIANTS
  MailboxBounded
