SPECIFICATION Spec
CONSTANTS
  N = 3
  AutoMerge = TRUE
  DoMerge = TRUE
  Replica = 1
  InitIn <- SomeIn
  InitJoin <- AllJoined
  Cmds <- InOutCmds
  Patient = TRUE
  MaxTime = 0
  MaxOps = 2
  MaxCrash = 0
  MaxQueue = 50
CHECK_DEADLOCK FALSE
INVARIANT TablesAgree
INVARIANT SlotsPartitioned
