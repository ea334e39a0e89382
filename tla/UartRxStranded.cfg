SPECIFICATION FairSpec
CONSTANTS
  Fast = fast
  Slow = slow
  DeviceCount = 2
  FifoDepth = 3
  HalfLevel = 2
  RxBufferSize = 2
  Bauds = {fast, slow}
  IdleUnits <- FastSlow
  Period = 2
  Boards <- Passing
PROPERTY ReceivedIsRead
CHECK_DEADLOCK FALSE
