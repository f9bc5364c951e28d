CONSTANTS
  Half = 128
  Captures <- MCCaptures
  SyntheticCount = 3
  Capacity = 1
  SocketRoom = 2
  NoMessage = NoMessage
  MaxMessages = 4
SPECIFICATION Spec
INVARIANTS
  WholeMessagesOnly
  LossAccounted
PROPERTIES
  AcceptedIsProcessed
CHECK_DEADLOCK FALSE
