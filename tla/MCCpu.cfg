SPECIFICATION Spec
CONSTANTS
  ByteSign = 8
  Nibble = 4
  NibbleBits = 2
  Digits = 3
  BitWeights = {1, 2, 4, 8}
  Paragraph = 2
  Loads <- LoadSets
  Vectors <- HandlerOf
  PortBytes <- Devices
INVARIANTS SumsExact ComparisonsDecide DivisionExact StringsComplete
PROPERTY ControlReturns
