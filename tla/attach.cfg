SPECIFICATION FairSpec
CONSTANTS
  Proc = {p1, p2}
  MaxId = 3
  MaxStart = 2
  EarlyAttach = FALSE
  EarlyDeath = TRUE
  Linger = FALSE
CHECK_DEADLOCK FALSE
INVARIANT SuspendSettled
INVARIANT QueueReachable
PROPERTY Reaped
PROPERTY Rejoined
