SPECIFICATION Spec
CONSTANTS
  p1 = p1
  p2 = p2
  p3 = p3
  NoProc = NoProc
  NoVector = NoVector
  Proc = {p1, p2, p3}
  semmni = 2
  semmns = 3
  semmnu = 2
  SEMUME = 2
  SemSeqMod = 4
  CntMod = 4
  Vectors <- VectorsPassed
  Ctl <- CtlPassed
  Sizes = {1, 2}
  MaxVal = 1
  MaxAdj = 1
  MaxGets = 2
  MaxCnt = 2
  QuietMoves = TRUE
CHECK_DEADLOCK FALSE
INVARIANT FullyBalanced
