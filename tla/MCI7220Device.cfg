SPECIFICATION Spec
CONSTANTS
  PageBytes = 2
  FifoSize = 3
  DrqLevel = 2
  MbmPages = 5
  DataSize = 1
  Image <- Blank
  Setups <- Parameters
  Sends <- Numbered
  Selects = {14}
  RegValues <- Values
  Commands = {0, 1, 2, 3, 8, 9, 13, 14, 15}
  MaxCommands = 2
INVARIANTS TransfersLand
PROPERTY CommandsEnd
