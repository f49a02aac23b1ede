CONSTANTS
  p1 = p1
  p2 = p2
  p3 = p3
  f1 = f1
  k1 = k1
  NoProc = NoProc
  NoFile = NoFile
  NoKey = NoKey
  BLOCKSIZE = 2
  Procs <- TwoProcs
  Files = {f1}
  Keys = {k1}
  FileSize <- OneSize
  Overlap = TRUE
  KillAt <- AllKills
  RestartAt <- Labels
  Orphans = TRUE
SPECIFICATION Spec
PROPERTY WholeStaysWhole
PROPERTY StatusForward
SYMMETRY Symmetry
CHECK_DEADLOCK FALSE
