\* No deadlock check: the bounds on trades, attempts and events run out.
SPECIFICATION FairSpec
CONSTANTS
  Runs = {r1}
  Capacity = 2
  MaxTape <- TapeBound
  MaxAttempts = 2
  MaxLog <- LogBound
CHECK_DEADLOCK FALSE
INVARIANTS
  TypeOK
  NoSilentGap
  LagIsReportedAsLag
PROPERTY
  DisconnectEndsRuns
