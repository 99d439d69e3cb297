CONSTANTS
  DeviceLines <- Gpib
  Bases <- Base32
  Masks <- NoneOrGpib
  InitWords <- CascadedOrSingle
  EoiLines <- BubbleAndGpib
  ReadModes <- RequestRegister
  MaxNest = 1
  SingleStep = TRUE
SPECIFICATION PathFairSpec
INVARIANTS RequestsKept SpuriousOnlyAfterLoss HaltKeepsInterrupts
PROPERTIES DeliveredAsAsked HaltWakes
