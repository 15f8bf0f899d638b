SPECIFICATION ProgramsSpec
CONSTANTS
  Programs    = {"cas", "exchange", "test", "cas pointer", "store pointer",
                 "mutex", "spin lock"}
  Threads     = {w1, w2, r1}
  Writers     = {w1, w2}
  Readers     = {r1}
  Main        = main
  Writer      = writer
  TestReaders = {ra, rb, rc}
  Slots       = {0}
  M           = 4
  Versions    = {va, vb, vc, vd}
  Blocks      = {b1, b2, b3, b4, b5}
  NULL        = NULL
  Half        = 1
  MaxUpdates  = 3
  MaxOps      = 3
  MaxWrites   = 3
SYMMETRY Symmetry
\* The programs end.
CHECK_DEADLOCK FALSE
INVARIANTS
  NoInvalidRead
  NoUpdateIsLost
  EndLeavesNoGarbage
  EveryBlockAtHome
  TestsPass
