SPECIFICATION Spec
CONSTANTS
  N = 2
  AutoMerge = FALSE
  DoMerge = TRUE
  Replica = 1
  InitIn <- SomeIn
  InitJoin <- MostJoined
  Cmds <- AllCmds
  Patient = TRUE
  MaxTime = 0
  MaxOps = 4
  MaxCrash = 1
  MaxQueue = 50
CHECK_DEADLOCK FALSE
INVARIANT TypeOK
INVARIANT CacheOK
INVARIANT StatusOK
 
INVARIANT NoOrphanMerge
INVARIANT SuspendAccurate
PROPERTY NoCompleteWhileMerging
