CONSTANTS
  p1 = p1
  p2 = p2
  u1 = u1
  u2 = u2
  w1 = w1
  w2 = w2
  m1 = m1
  m2 = m2
  NULL = NULL
  None = None
  NoPassword = NoPassword
  MaxPath = 6
  Procs <- TwoProcs
  Users = {u1}
  Passwords = {w1, w2}
  Md5s = {m1, m2}
  Requests <- Few
  Sequential = FALSE
  Sensible = TRUE
  KillAt = {}
SPECIFICATION Spec
PROPERTY MoveLosesNothing
