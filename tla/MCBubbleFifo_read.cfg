CONSTANTS
  BUBBLEFIFOSIZE = 3
  DrqLevel = 1
  INT8_MAX = 3
  Bytes <- MCBytes
  None = None
  Starts <- ReadOrReset
  CpuCalls <- PopOnly
  BubbleCalls <- PushAndClear
  Recorded <- SizeAndRing
SPECIFICATION FairSpec
INVARIANTS SizeTracksContents ReadyIsExact
\* No property promises anything of a torn ring.
CONSTRAINT NotTorn
PROPERTIES FifoOrder PushReturns
\* A damaged fifo_size or a torn ring can leave both threads spinning.
CHECK_DEADLOCK FALSE
