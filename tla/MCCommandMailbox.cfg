CONSTANTS
  e1 = e1
  Controllers = {c1, c2}
  Keys <- MCKeys
  Kinds = {"leave", "thrust", "shield"}
  LifecycleKinds = {"leave"}
  AcceptedKinds = {"leave", "thrust", "tuning"}
  Capacity = 2
  MaxExchanges = 2
  MaxRequestId = 2
  Millisecond = 2
  IntervalMs = 1
  MaxSubmissions = 3
  MaxTick = 1
  MaxTime = 2
SPECIFICATION FairSpec
INVARIANTS
    TuningRequestIsNeverLost
PROPERTIES
    RetryAdviceSuffices
    TuningIsAnswered
CHECK_DEADLOCK FALSE
