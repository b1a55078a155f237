SPECIFICATION Spec
CONSTANTS
  Proc = {p1, p2}
  ThreadsPer = 1
  MaxId = 3
  PerAttach = 2
  Box = {1}
  MaxFd = 3
  MaxGen = 3
  MaxSend = 2
CHECK_DEADLOCK FALSE
INVARIANT PoolExact
INVARIANT OpenIsOwned
 
