CONSTANTS
  Callers = {c1, c2, c3}
  NoCaller = NoCaller
  Operations = {"start", "pause", "stop"}
  MaxCalls = 6
  MaxTicks = 3
SPECIFICATION FairSpec
INVARIANTS
    ReadyMeansTicking
PROPERTIES
    PauseReturnsPaused
    StopReturns
CHECK_DEADLOCK FALSE
