CONSTANTS
  MaxRetryCounts <- Limits
  RetryBound = 4
  MaxOpen = 2
SPECIFICATION FairSpec
INVARIANTS TypeOK OneOperation LimitRespected
PROPERTIES AttemptEnds StopSettles
