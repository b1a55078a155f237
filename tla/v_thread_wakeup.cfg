SPECIFICATION Spec
CONSTANTS
  Thread = {t1, t2}
  Fd = {f1}
  NoFd = NoFd
  NoThread = NoThread
  KeepModes <- NoKeep
  MaxMsg = 2
  MaxHup = 0
  MaxResize = 0
  MaxSpurious = 0
CHECK_DEADLOCK FALSE
INVARIANT NoLostWakeup
