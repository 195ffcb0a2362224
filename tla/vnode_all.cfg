SPECIFICATION Spec
CONSTANTS
  p1 = p1
  p2 = p2
  p3 = p3
  n1 = n1
  n2 = n2
  n3 = n3
  i1 = i1
  i2 = i2
  i3 = i3
  d1 = d1
  d2 = d2
  d3 = d3
  NoProc = NoProc
  NoIno = NoIno
  NoName = NoName
  NoVnode = NoVnode
  Proc = {p1, p2, p3}
  Name = {n1, n2}
  Dir = {d1, d2}
  DirOf <- OwnDir
  Ino = {i1, i2}
  Vnode = {v1, v2}
  desiredvnodes = 1
  Ops <- Ops3
  Errors = {"create"}
  NameCacheSize = 2
  IdMod = 3
  DirId = 1
SYMMETRY InoSymmetry
INVARIANT UsersExact
INVARIANT OneVnode
INVARIANT FilesStay
INVARIANT CacheTruthful
INVARIANT VnodeSleepersKnown
