SPECIFICATION Spec
CONSTANTS
  Parts = {"key", "text", "queue", "heap", "sections"}
  Word = 9
  Debounce = 2
  SleepTime = 2
  ResetTime = 4
  RetryTime = 1
  MaxReads = 3
  MaxPresses = 2
  Width = 7
  Height = 7
  MaxWidth = 7
  CellWidth = 2
  CellHeight = 2
  BufferSize = 6
  CursorWord = 38
  MaxText = 6
  Near = 7
  Scales = {0, 1, 2, 3}
  Bytes = {b1, b2}
  Unset = unset
  QueueSizes = {1, 2, 3, 5}
  MaxMessage = 4
  ucHeap = 1
  configTOTAL_HEAP_SIZE = 23
  portBYTE_ALIGNMENT = 2
  xHeapStructSize = 2
  SizeT = 64
  HeapSizes = {0, 1, 4, 61}
  Nums = {2, 33}
  Tasks = {t1, t2}
  Isr = isr
  InitialNesting = 9
  MaxNest = 4
INVARIANT HeapIsSound
PROPERTIES
  QueueIsFifo
  TextIsDrawn
  KeyIsLogged
  SectionsAreAtomic
CHECK_DEADLOCK FALSE
