\* Two clients of one user share one session; either may stop it or disconnect.
SPECIFICATION FairSpec
CONSTANTS
  c1 = c1
  c2 = c2
  u1 = u1
  u2 = u2
  NoConn = NoConn
  Conns = {c1, c2}
  Users = {u1, u2}
  UserOf <- OneUser
  ClientOps = {"start", "respond", "stop", "setModel", "disconnect"}
  MaxSessionsPerUser = 1
  MaxCreated = 1
  MaxPrompts = 2
PROPERTIES StopReturns
CHECK_DEADLOCK FALSE
