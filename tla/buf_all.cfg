SPECIFICATION Spec
CONSTANTS
  p1 = p1
  p2 = p2
  x = x
  y = y
  b1 = b1
  b2 = b2
  b3 = b3
  NoBuf = NoBuf
  NoBlock = NoBlock
  Proc = {p1, p2}
  Buf = {x, y}
  Block = {b1, b2, b3}
  ReadAhead <- Ahead1
  Flushers = {p2}
  Errors = TRUE
  StrategySleeps = FALSE
INVARIANT BuffersExact
INVARIANT SleepersRemembered
INVARIANT Coherent
PROPERTY FlushDurable
CHECK_DEADLOCK FALSE
