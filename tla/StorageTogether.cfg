CONSTANTS
  p1 = p1
  p2 = p2
  s1 = s1
  f1 = f1
  k1 = k1
  NoProc = NoProc
  NoFile = NoFile
  NoKey = NoKey
  BLOCKSIZE = 2
  Procs = {p1, p2}
  Sessions = {s1}
  Files = {f1}
  Keys = {k1}
  FileSize <- TwoBlocks
  Overlap = FALSE
  KillAt = {}
  RestartAt = {}
  Orphans = FALSE
SPECIFICATION FairBoth
INVARIANT TakenIsOwned
INVARIANT StorageWhole
INVARIANT NothingLeft
PROPERTY EveryRequestEnds
PROPERTY UploadCompletes
PROPERTY StoredBecomesWhole
PROPERTY SavedOnce
