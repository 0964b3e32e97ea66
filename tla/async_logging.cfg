CONSTANTS
  p1 = p1
  p2 = p2
  w1 = w1
  Producers <- TwoProducers
  Overrunning <- Second
  Registered <- First
  Workers <- OneWorker
  Flusher = Flusher
  Closer = Closer
  Nothing = Nothing
  Capacity = 2
  MaxLogs <- TwoAndOne
SPECIFICATION FairSpec
INVARIANTS TypeOK NoLostWakeUp WrittenAtExit InProgramOrder FlusherFindsPool
PROPERTIES ImplementsBuffer EndDrivesOutNothing ShutdownCompletes
CHECK_DEADLOCK FALSE
