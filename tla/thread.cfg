SPECIFICATION FairSpec
CONSTANTS
  Thread = {t1, t2}
  Fd = {f1, f2}
  NoFd = NoFd
  NoThread = NoThread
  KeepModes <- BothKeep
  MaxMsg = 2
  MaxHup = 1
  MaxResize = 2
  MaxSpurious = 1
CHECK_DEADLOCK FALSE
INVARIANT OneReader
INVARIANT MapAccurate
INVARIANT Dispatchable
PROPERTY LoopReturns
