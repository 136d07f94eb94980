SPECIFICATION Spec
CONSTANTS
  t1 = t1
  t2 = t2
  Task = {t1, t2}
  Nobody = Nobody
  Slot = {i0, i1, i2, i3, i4}
  RootSlot = i0
  Null = Null
  NInode = 4
  NBlock = 4
  K = 3
  NZone = 3
  Name <- Names
  Programs <- AllPrograms
  Shared = {"s"}
SYMMETRY Slots
INVARIANT TypeOK
 
INVARIANT InodeUnique
INVARIANT CountExact
INVARIANT LinksExact
INVARIANT BlocksExact
