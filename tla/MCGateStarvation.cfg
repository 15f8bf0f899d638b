SPECIFICATION FairSpec
CONSTANTS
  Threads  = {t1, t2}
  Versions = {v1, v2}
  Slots    = {c1}
  NULL     = NULL
  M        = 3
PROPERTY
  CompareExchangeReturns
