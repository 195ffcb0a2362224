SPECIFICATION Spec
CONSTANTS
  p1 = p1
  p2 = p2
  p3 = p3
  f = f
  Proc = {p1, p2, p3}
  File = {f}
  OpenFile <- SharedBy1
  Calls <- Mixed
  LastByte = 2
  MaxDepth = 3
INVARIANT BlockerRemembered
CHECK_DEADLOCK FALSE
