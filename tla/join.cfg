SPECIFICATION JoinFairSpec
CONSTANTS
  DoMerge = TRUE
  Replica = 1
  InitJoin = {}
  Patient = TRUE
  MaxTime = 0
  MaxCrash = 0
  MaxQueue = 50
  AutoMerge = FALSE
  N = 3
  InitIn <- AllIn
  Cmds <- OnlySuspend
  MaxOps = 2
  Up0 <- FirstUp
  Overlap = FALSE
  Sudden = FALSE
  MaxStart = 3
  MaxDeath = 1
CHECK_DEADLOCK FALSE
INVARIANT OneRing
INVARIANT Watched
INVARIANT SuspendKept
PROPERTY MembershipKept
