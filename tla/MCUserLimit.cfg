\* Two connections of one user start sessions; nothing is stopped.
SPECIFICATION Spec
CONSTANTS
  c1 = c1
  c2 = c2
  u1 = u1
  u2 = u2
  NoConn = NoConn
  Conns = {c1, c2}
  Users = {u1, u2}
  UserOf <- OneUser
  ClientOps = {"start"}
  MaxSessionsPerUser = 1
  MaxCreated = 2
  MaxPrompts = 0
CHECK_DEADLOCK FALSE
INVARIANT
  UserLimit
