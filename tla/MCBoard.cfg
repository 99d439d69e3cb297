CONSTANTS
  Addresses <- CAddresses
  Bytes <- CBytes
  RomByte <- CRomByte
  Sessions <- CSessions
  FirstMinute = 595
  LastMinute = 607
  MaxSpan = 2
SPECIFICATION BoardSpec
INVARIANT ScreenFollows
INVARIANT ClockReadsTrue
INVARIANT StartedAsAsked
PROPERTY MemoryKept
\* The program ends when start-up fails or the window is closed.
CHECK_DEADLOCK FALSE
