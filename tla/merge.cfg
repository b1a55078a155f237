SPECIFICATION FairSpec
CONSTANTS
  m1 = m1
  m2 = m2
  t1 = t1
  t2 = t2
  t3 = t3
  Ring <- RingFail
  Merger = {m1}
  Valid = {t1, t2}
  Clientless = {t2}
  NoCallback = {}
  Box = {b1}
  MaxDatum = 2
  MaxRound = 2
  MaxAbort = 1
  MaxFault = 1
CHECK_DEADLOCK FALSE
 
INVARIANT AnsweredOnce
PROPERTY MergeEnds
