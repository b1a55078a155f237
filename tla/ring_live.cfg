SPECIFICATION FairSpec
CONSTANTS
  N = 2
  AutoMerge = TRUE
  DoMerge = TRUE
  Replica = 1
  InitIn <- SomeIn
  InitJoin <- AllJoined
  Cmds <- InOutCmds
  Patient = TRUE
  MaxTime = 0
  MaxOps = 3
  MaxCrash = 0
  MaxQueue = 50
CHECK_DEADLOCK FALSE
PROPERTY EventuallyQuiet
 
