SPECIFICATION FairSpec
CONSTANTS
  p1 = p1
  p2 = p2
  d1 = d1
  Client <- Clients
  Proc = {p1, p2}
  Driver = {d1}
  NCallout = 4
  MaxLate = 1
  Settings <- Some
  Delays = {0, 2}
  MaxArmed = 2
  Steps = {2}
  MaxLeft = 4
INVARIANT TableSound
INVARIANT TimersKept
PROPERTY DSpec
PROPERTY AlarmComes
