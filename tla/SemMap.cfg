SPECIFICATION FairSpec
CONSTANTS
  t1 = t1
  t2 = t2
  t3 = t3
  s1 = s1
  s2 = s2
  s3 = s3
  NULL = NULL
  Garbage = Garbage
  Threads <- ThreeThreads
  Sets <- ThreeSets
  Len0 = 2
  W = 2
INVARIANTS
  TableTypeOK
  MutualExclusion
  NeverAborts
  NoLostWakeup
  IdsNameSetsUntilGrowth
PROPERTY LockProgress
CHECK_DEADLOCK FALSE
