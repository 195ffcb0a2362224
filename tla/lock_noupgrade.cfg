SPECIFICATION FairSpec
CONSTANTS
  p1 = p1
  p2 = p2
  p3 = p3
  Proc <- Three
  LK_NOPROC = LK_NOPROC
  LK_KERNPROC = LK_KERNPROC
  Requests <- NoUpgrade
  ExtFlags <- Draining
  InitFlags = {}
  Catch = FALSE
  Timo = FALSE
  Careless = {}
  MaxHold = 2
INVARIANT NoPanic
INVARIANT SleepersJustified
PROPERTY WriterServed
