CONSTANTS
  BUBBLEFIFOSIZE = 3
  DrqLevel = 1
  INT8_MAX = 3
  Bytes <- MCBytes
  None = None
  Starts <- Reads
  CpuCalls <- PopOnly
  BubbleCalls <- PushAndClear
  Recorded <- Both
  GuestCommands <- TransferCommands
  SelectValues <- TransferSelect
  WriteValues <- TransferWrites
  PageBytes = 2
  bubbleModuleCount = 3
  MbmPages = 4
  ImagePages = 3
  Driver = TRUE
SPECIFICATION ControllerFairSpec
INVARIANTS PagesAreRead
CHECK_DEADLOCK FALSE
PROPERTY BusyEnds
