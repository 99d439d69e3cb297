CONSTANTS
  Timers <- TwoTimers
  Intervals <- OneOrTwo
  ResyncIntervals = 2
  Steps <- CreepJumpOrBack
  MaxClock = 5
SPECIFICATION FairSpec
INVARIANTS KeepsPhase
PROPERTIES DueIsCalled
