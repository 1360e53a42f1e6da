SPECIFICATION Spec
CONSTANTS
  t1 = t1
  t2 = t2
  t3 = t3
  s1 = s1
  s2 = s2
  s3 = s3
  NULL = NULL
  Garbage = Garbage
  Threads <- TwoThreads
  Sets <- ThreeSets
  Len0 = 2
  W = 2
INVARIANT IdsNameSets
CHECK_DEADLOCK FALSE
