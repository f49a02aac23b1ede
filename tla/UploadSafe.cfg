CONSTANTS
  p1 = p1
  p2 = p2
  p3 = p3
  f1 = f1
  k1 = k1
  NoProc = NoProc
  NoFile = NoFile
  NoKey = NoKey
  BLOCKSIZE = 2
  Procs <- ThreeProcs
  Files = {f1}
  Keys = {k1}
  FileSize <- OneSize
  Overlap = FALSE
  KillAt <- SafeKills
  RestartAt <- SafeRestarts
  Orphans = FALSE
SPECIFICATION Spec
INVARIANT TypeOK
INVARIANT IInv
INVARIANT PublishedWhole
INVARIANT LinkedIsWhole
INVARIANT NoLockCycle
PROPERTY CompleteReplyMeansStored
PROPERTY ImplementsStore
SYMMETRY Symmetry
