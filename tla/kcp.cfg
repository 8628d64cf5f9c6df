SPECIFICATION KcpFairSpec
CONSTANTS
  Sender = a
  Receiver = b
  Word = 10
  First = 9
  Wnd = 2
  MaxFrags = 2
  MaxMessages = 2
  MaxSegments = 3
  MaxNet = 2
  MaxFaults = 2
INVARIANTS WindowsFit
PROPERTIES ImplementsStream
CHECK_DEADLOCK FALSE
