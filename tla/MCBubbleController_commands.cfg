CONSTANTS
  BUBBLEFIFOSIZE = 2
  DrqLevel = 1
  INT8_MAX = 3
  Bytes <- MCBytes
  None = None
  Starts <- Reads
  CpuCalls <- PopAndPush
  BubbleCalls <- PushAndClear
  Recorded <- Both
  GuestCommands <- AllKinds
  SelectValues <- CommandSelect
  WriteValues <- CommandWrites
  PageBytes = 2
  bubbleModuleCount = 3
  MbmPages = 4
  ImagePages = 3
  Driver = TRUE
SPECIFICATION ControllerSpec
INVARIANTS IdleStatus ClearEmpties ReadMovesEverything
CHECK_DEADLOCK FALSE
