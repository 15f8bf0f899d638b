SPECIFICATION FairProgramsSpec
CONSTANTS
  Programs    = {"cas", "exchange", "test", "cas pointer", "store pointer",
                 "mutex", "spin lock"}
  Threads     = {w1, r1}
  Writers     = {w1}
  Readers     = {r1}
  Main        = main
  Writer      = writer
  TestReaders = {ra, rb}
  Slots       = {0}
  M           = 3
  Versions    = {va, vb, vc, vd}
  Blocks      = {b1, b2, b3, b4, b5}
  NULL        = NULL
  Half        = 1
  MaxUpdates  = 2
  MaxOps      = 3
  MaxWrites   = 2
\* The programs end.
CHECK_DEADLOCK FALSE
PROPERTY
  ProgramEnds
