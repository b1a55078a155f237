SPECIFICATION FairSpec
CONSTANTS
  p1 = p1
  p2 = p2
  p3 = p3
  Procs = {p1, p2}
  Conns = {c1, c2}
  Wants <- CycleWants
  Named <- HalfNamed
  Forced = {p2}
  MaxSock = 1
  MaxData = 1
  ThreadCnt = 1
  Patient = FALSE
  MaxFault = 2
CHECK_DEADLOCK FALSE
INVARIANT Agreed
INVARIANT SlavesExact
PROPERTY VersionStable
PROPERTY CallsEnd
 
