SPECIFICATION Spec
CONSTANTS
  p1 = p1
  p2 = p2
  p3 = p3
  Proc <- Three
  LK_NOPROC = LK_NOPROC
  LK_KERNPROC = p3
  Requests <- RequestTypes
  ExtFlags <- AllFlags
  InitFlags = {}
  Catch = TRUE
  Timo = TRUE
  Careless = {p3}
  MaxHold = 2
SYMMETRY TwoSymmetry
INVARIANT TypeOK
INVARIANT MutualExclusion
INVARIANT SharesCounted
INVARIANT HolderRecorded
INVARIANT WaitersCounted
INVARIANT WantFlagsOwned
INVARIANT DrainQuiescent
PROPERTY UpgradeNotOvertaken
PROPERTY RWSpec
CHECK_DEADLOCK FALSE
