SPECIFICATION Spec
CONSTANTS
  Threads     = {t1, t2}
  N           = 2
  MaxArenas   = 3
  VectorInit  = 1
  OutOfMemory = {"arena","vector"}
  NULL        = NULL
INVARIANT
  FailureLeavesVectorsValid
