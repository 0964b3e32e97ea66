CONSTANTS
  c1 = c1
  c2 = c2
  Connections <- TwoConnections
  Reconnecting <- OfTheConnector
  Idle = Idle
  End = End
  MaxBuffers <- BusyAndQuiet
SPECIFICATION FairSpec
INVARIANTS TypeOK TornDownTogether EndsOnce WrittenInOrder NoStalledWrite PassVisitsEveryReceiver
PROPERTY Released
CHECK_DEADLOCK FALSE
