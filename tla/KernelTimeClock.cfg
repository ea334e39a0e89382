SPECIFICATION Spec
CONSTANTS
  t1 = t1
  t2 = t2
  Tasks = {t1, t2}
  Idle = idle
  None = none
  Word = 6
  OverflowWord = 2
  Times = {1, 3, 5}
  MaxPended = 2
  MaxSuppressed = 3
SYMMETRY Alike
INVARIANTS
  ListsAreSound
  TimesAreKept
PROPERTY TimeoutIsExact
