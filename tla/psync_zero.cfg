SPECIFICATION Spec
CONSTANTS
  p1 = p1
  p2 = p2
  ch = ch
  proc0 = proc0
  NoProc = NoProc
  NoChan = NoChan
  Chan <- OneChan
  InitParent <- Family
  Proc <- Alone
  LOOKUP <- Spread
  SigSetups <- Editor
  SleepCalls <- AllCalls
  Sent <- JobControl
  Swappable = {}
INVARIANT ZeroMeansAwakened
