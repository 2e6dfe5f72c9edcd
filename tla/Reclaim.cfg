SPECIFICATION Spec
CONSTANTS
  t1 = t1
  t2 = t2
  d1 = d1
  d2 = d2
  None = None
  Thread = {t1, t2}
  Header = 1
  MinSize = 1
  Size = 10
  ObjectSize = 1
  StackSize = 2
  UserSizes <- FewSizes
  SemMax = 1
  Deleter = {d1, d2}
  EndsAlone = TRUE
INVARIANTS
  TypeOK
  HeapExact
  NothingLeaked
PROPERTIES
  ClosedReclaimed
