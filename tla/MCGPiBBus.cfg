CONSTANTS
  DEVICE_COUNT = 3
  StatusPins <- AtnAndSrq
  DataPins <- DIO1
  MaxDepth = 5
SPECIFICATION Spec
INVARIANTS BusIsWiredAnd EveryoneInformed NeverStuck

CHECK_DEADLOCK FALSE
