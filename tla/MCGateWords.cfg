SPECIFICATION Spec
CONSTANTS
  v1 = v1
  v2 = v2
  v3 = v3
  Threads  = {t1, t2}
  Versions = {v1, v2, v3}
  Slots    = {c1}
  NULL     = NULL
  M = 3
  A = 2
  S = 4
  N = 3
  Locate <- Located
PROPERTY
  ImplementsGate
