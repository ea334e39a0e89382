SPECIFICATION Spec
CONSTANTS
  low = low
  peer = peer
  mid = mid
  high = high
  Idle = idle
  Tasks = {low, mid, high, idle}
  uxBasePriority <- Priorities
  Mutexes = {m1, m2}
  None = none
  Waits = {"forever"}
  MaxDepth = 2
INVARIANT HighestRuns
CHECK_DEADLOCK FALSE
