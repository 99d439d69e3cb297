CONSTANTS
  N = 3
  Address <- CAddress
  Scenarios <- CScenarios
SPECIFICATION Spec
INVARIANT LinesKnown
INVARIANT AtRest
INVARIANT OneSpeaker
INVARIANT ParallelPollAnswered
PROPERTY BytesDelivered
PROPERTY ProgramsEnd
\* The programs of a scenario come to an end.
CHECK_DEADLOCK FALSE
