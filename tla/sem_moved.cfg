SPECIFICATION Spec
CONSTANTS
  p1 = p1
  p2 = p2
  p3 = p3
  NoProc = NoProc
  NoVector = NoVector
  Proc = {p1, p2, p3}
  semmni = 2
  semmns = 2
  semmnu = 2
  SEMUME = 1
  SemSeqMod = 4
  CntMod = 4
  Vectors <- VectorsMoved
  Ctl <- CtlMoved
  Sizes = {1}
  MaxVal = 1
  MaxAdj = 1
  MaxGets = 3
  MaxCnt = 2
  QuietMoves = FALSE
CHECK_DEADLOCK FALSE
INVARIANT WaitersServed
