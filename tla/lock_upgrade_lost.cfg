SPECIFICATION FairSpec
CONSTANTS
  p1 = p1
  p2 = p2
  p3 = p3
  Proc <- Three
  LK_NOPROC = LK_NOPROC
  LK_KERNPROC = LK_KERNPROC
  Requests <- UpgradeOnly
  ExtFlags <- Plain
  InitFlags = {}
  Catch = FALSE
  Timo = FALSE
  Careless = {}
  MaxHold = 2
PROPERTY UpgradeServed
CHECK_DEADLOCK FALSE
