CONSTANTS
  p1 = p1
  p2 = p2
  p3 = p3
  f1 = f1
  k1 = k1
  NoProc = NoProc
  NoFile = NoFile
  NoKey = NoKey
  BLOCKSIZE = 2
  Procs <- ThreeProcs
  Files = {f1}
  Keys = {k1}
  FileSize <- OneSize
  Overlap = TRUE
  KillAt <- AllKills
  RestartAt <- Labels
  Orphans = FALSE
SPECIFICATION Spec
INVARIANT ExclusiveBlock
INVARIANT OverIsGood
PROPERTY OverStaysOver
SYMMETRY Symmetry
CHECK_DEADLOCK FALSE
