\* A payload that PMux refuses, and another connection's drop behind it.
CONSTANTS
  listener = listener
  connector = connector
  MaxConnections = 2
  MaxMessages = 1
  ConnTypes <- OneType
  AttachedFirst <- OneType
  AttachedTwice <- None
  Reconnecting <- None
  Oversized <- FirstMessage
SPECIFICATION Spec
INVARIANT DropIsCarriedOut
CHECK_DEADLOCK FALSE
