SPECIFICATION FairSpec
CONSTANTS
  Client = {c1}
  Box = {b1}
  Deliverer = {d1}
  SerialLimit = 3
  UseThreads = TRUE
  Late = TRUE
  RetryCount = 2
  MaxQueue = 2
  MaxSend = 3
  MaxDeliver = 2
CHECK_DEADLOCK FALSE
INVARIANT WordHasData
INVARIANT NothingLeft
INVARIANT NoStuckWord
PROPERTY DeliverySpec
PROPERTY SendReturns
