SPECIFICATION FairSpec
CONSTANTS
  p1 = p1
  p2 = p2
  ch = ch
  proc0 = proc0
  NoProc = NoProc
  NoChan = NoChan
  Chan <- OneChan
  InitParent <- Family
  Proc <- Two
  LOOKUP <- Spread
  SigSetups <- Plain
  SleepCalls <- HogCalls
  Sent <- HogSent
  Swappable = {p1}
PROPERTY StoppedStays
PROPERTY AwakenedRuns
