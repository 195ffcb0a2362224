SPECIFICATION SleepySpec
CONSTANTS
  p1 = p1
  p2 = p2
  x = x
  y = y
  b1 = b1
  b2 = b2
  b3 = b3
  NoBuf = NoBuf
  NoBlock = NoBlock
  Proc = {p1, p2}
  Buf = {x, y}
  Block = {b1, b2, b3}
  ReadAhead <- NoAhead
  Flushers = {p2}
  Errors = FALSE
  StrategySleeps = TRUE
INVARIANT OneBuffer
CHECK_DEADLOCK FALSE
