SPECIFICATION FairSpec
CONSTANTS
  N = 3
  AutoMerge = FALSE
  DoMerge = TRUE
  Replica = 1
  InitIn <- SomeIn
  InitJoin <- AllJoined
  Cmds <- MergeCmds
  Patient = TRUE
  MaxTime = 1
  MaxOps = 1
  MaxCrash = 1
  MaxQueue = 50
CHECK_DEADLOCK FALSE
PROPERTY DeadDeparturesStop
