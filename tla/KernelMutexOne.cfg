SPECIFICATION FairSpec
CONSTANTS
  low = low
  peer = peer
  mid = mid
  high = high
  Idle = idle
  Tasks = {low, mid, high, idle}
  uxBasePriority <- Priorities
  Mutexes = {m1}
  None = none
  Waits = {"none", "ticks", "forever"}
  MaxDepth = 2
INVARIANTS
  TypeOK
  InheritsPriority
  NoLostWakeup
PROPERTIES
  ImplementsLocks
  UrgentIsServed
