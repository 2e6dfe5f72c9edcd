SPECIFICATION FairSpec
CONSTANTS
  x = x
  y = y
  z = z
  Timer = {x, y, z}
  Duration = {1, 2}
  TickValues = 8
  Unset = Unset
  OwnOneshot = FALSE
INVARIANTS
  TypeOK
  ListSorted
  ActiveWillFire
PROPERTIES
  FiresOnTime
  EqualInOrder
  CheckFinishes
