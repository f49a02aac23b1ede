CONSTANTS
  c1 = c1
  c2 = c2
  c3 = c3
  p0 = p0
  p1 = p1
  p2 = p2
  p3 = p3
  t1 = t1
  t2 = t2
  None = None
  Junk = Junk
  Clients <- TwoClients
  Mortal <- OneMortal
  Numbers = {2, 3}
  PidL = 1
  TimeL = 2
  MaxClient = 1
  MaxClient5 = 2
  TimeL5 = 3
  Block = 2
  KeyL = 1
  Keys = {k1}
  StrL = 4
  Fds = 2
  Callers <- ThreeClients
  Port <- OwnPort
  MaxRepeats = 1
  Root = p0
  Relays <- TwoProcs
  MaxRelays = 1
  MaxBytes = 3
  BUFL = 2
  Procs <- FourProcs
  MaxClients = 3
  MappingBytes = 0
  UDPParas = 2
  Transfer <- TwoTargets
  Alone <- OneEach
  Shared <- OneBoth
  MaxSends = 4
  MaxLosing = 3
  Digits <- TwoDigits
  Base = 2
  Fields <- FewFields
  MaxLines = 2
SPECIFICATION FairProgramSpec
INVARIANT RecordsAreRight
INVARIANT DatagramsAreRight
INVARIANT BytesAreRight
INVARIANT MappingStops
INVARIANT RowsAreRight
INVARIANT MappingsAreMeant
PROPERTY EachCollects
PROPERTY Answered
CHECK_DEADLOCK FALSE
