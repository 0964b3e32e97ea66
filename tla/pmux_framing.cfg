CONSTANTS
  MAX_MESSAGE_SIZE = 3
  INCOMING_BUFFER_SIZE = 8
  m_version = 2
  Types <- SomeTypes
  Payloads <- SomePayloads
  ForeignFrames <- SomeForeignFrames
  MaxFrames = 3
SPECIFICATION FairSpec
INVARIANTS TypeOK InStep RefusesOnlyForeign
PROPERTIES ImplementsStream FramesTaken
CHECK_DEADLOCK FALSE
