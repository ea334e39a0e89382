SPECIFICATION FairSpec
CONSTANTS
  Tasks = {t1, t2, t3}
  Bauds = {115200, 2000000}
  SlotCount = 2
  MaxLength = 2
  FifoDepth = 2
  MaxMessages = 4
INVARIANTS
  TypeOK
  FillersOwnSlots
  NoTornRead
  NoLostStart
  ExclusiveIsAlone
PROPERTIES
  BaudChangesWhenQuiet
  ImplementsTxLink
CHECK_DEADLOCK FALSE
