CONSTANTS
  MaxTime = 14
  Timeout = {0, 2}
  Duration <- DurationValues
  Whence = {1, 3}
  Grace = 1
  SecTicks = 2
SPECIFICATION Spec
INVARIANTS
  ReturnsToCaller
  SleeperArmed
  DeferredArmed
  NoEarlyWake
PROPERTIES
  DemandReturns
  SleepEnds
CHECK_DEADLOCK FALSE
