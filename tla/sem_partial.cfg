SPECIFICATION Spec
CONSTANTS
  p1 = p1
  p2 = p2
  p3 = p3
  NoProc = NoProc
  NoVector = NoVector
  Proc = {p1, p2, p3}
  semmni = 2
  semmns = 2
  semmnu = 2
  SEMUME = 1
  SemSeqMod = 4
  CntMod = 4
  Vectors <- VectorsPartial
  Ctl <- Ctl3
  Sizes = {1}
  MaxVal = 1
  MaxAdj = 1
  MaxGets = 2
  MaxCnt = 2
  QuietMoves = TRUE
CHECK_DEADLOCK FALSE
INVARIANT FullyBalanced
