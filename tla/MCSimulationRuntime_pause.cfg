CONSTANTS
  Callers = {c1, c2}
  NoCaller = NoCaller
  Operations = {"start", "pause", "stop"}
  MaxCalls = 4
  MaxTicks = 2
SPECIFICATION FairSpec
CHECK_DEADLOCK FALSE
PROPERTIES
  PauseReturnsEventually
