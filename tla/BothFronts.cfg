CONSTANTS
  p1 = p1
  p2 = p2
  s1 = s1
  s2 = s2
  u1 = u1
  u2 = u2
  w1 = w1
  w2 = w2
  m1 = m1
  m2 = m2
  NULL = NULL
  None = None
  NoPassword = NoPassword
  MaxPath = 6
  Procs = {p1, p2}
  Sessions = {s1, s2}
  Users = {u1}
  Passwords = {w1, w2}
  Md5s = {m1, m2}
  Requests <- Server
  WebRequests <- Browser
  Sequential = TRUE
  Sensible = TRUE
  KillAt = {"insert", "delete"}
  Leaves = TRUE
SPECIFICATION BothSpec
PROPERTY OnlyDeleteLoses
INVARIANT Reachable
PROPERTY FirstPasswordStays
INVARIANT AccountHasRoot
