CONSTANTS
  PlainKeys <- Letter
  ModifierKeys <- CtrlAndShift
  DebugKeys <- F1
  WdtValues <- ZeroOrTwo
  ByteRange = 3
SPECIFICATION Spec
INVARIANTS ModifiersMatchKeys SlotHoldsLatest
PROPERTIES ExpiryIsReported KeyReachesBus
