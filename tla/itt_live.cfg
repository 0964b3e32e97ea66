\* Order and liveness, with two messages in each direction of one connection.
CONSTANTS
  listener = listener
  connector = connector
  MaxConnections = 1
  MaxMessages = 2
  ConnTypes <- OneType
  AttachedFirst <- OneType
  AttachedTwice <- None
  Reconnecting <- FirstConnection
  Oversized <- None
SPECIFICATION FairSpec
PROPERTIES ImplementsSessions InOrderUntilClosed OpenReachesApp ErrorReachesApp DropReachesNetwork MessagesArrive
CHECK_DEADLOCK FALSE
