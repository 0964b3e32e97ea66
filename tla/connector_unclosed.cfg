CONSTANTS
  MaxRetryCounts <- Limits
  RetryBound = 4
  MaxOpen = 2
SPECIFICATION Spec
INVARIANT SocketsClosed
