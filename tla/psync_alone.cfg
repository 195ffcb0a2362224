SPECIFICATION Spec
CONSTANTS
  p1 = p1
  p2 = p2
  ch = ch
  proc0 = proc0
  NoProc = NoProc
  NoChan = NoChan
  Chan <- OneChan
  InitParent <- Family
  Proc <- Alone
  LOOKUP <- Collide
  SigSetups <- Server
  SleepCalls <- AllCalls
  Sent <- AllSent
  Swappable = {p1}
INVARIANT TimeoutsKept
INVARIANT SignalEndsSleep
INVARIANT SleepersQueued
INVARIANT QueuesSound
