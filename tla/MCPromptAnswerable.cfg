SPECIFICATION Spec
CONSTANTS
  c1 = c1
  c2 = c2
  u1 = u1
  u2 = u2
  NoConn = NoConn
  Conns = {c1}
  Users = {u1}
  UserOf <- OneUser
  ClientOps = {"start", "respond"}
  MaxSessionsPerUser = 1
  MaxCreated = 1
  MaxPrompts = 2
CHECK_DEADLOCK FALSE
INVARIANT
  PromptAnswerable
