\* A connector whose factory is attached late or never, factories attached
\* twice, payloads that PMux refuses and a manager that throws: batches are
\* lost to exceptions.
CONSTANTS
  listener = listener
  connector = connector
  MaxConnections = 2
  MaxMessages = 1
  ConnTypes <- BothTypes
  AttachedFirst <- OneType
  AttachedTwice <- BothTypes
  Reconnecting <- SecondConnection
  Oversized <- FirstMessage
SPECIFICATION Spec
INVARIANTS TypeOK OneWakeUpPerBacklog AtEndIsBacked CtEndIsBacked AnnouncedOnce
PROPERTIES ImplementsSessions
CHECK_DEADLOCK FALSE
