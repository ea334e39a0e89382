SPECIFICATION Spec
CONSTANTS
  Tasks = {boot, t1, t2, t3}
  Boot = boot
  Devices = {lcd, flash}
  Streaming = {lcd}
  None = none
  FifoDepth = 2
  MaxNest = 3
SYMMETRY TaskSymmetry
INVARIANTS
  TypeOK
  BusIsExclusive
  SelectionsBalance
  BytesReachTheirDevice
  AnswersAreOwn
