SPECIFICATION FairSpec
CONSTANTS
  c1 = c1
  c2 = c2
  u1 = u1
  u2 = u2
  NoConn = NoConn
  Conns = {c1}
  Users = {u1}
  UserOf <- OneUser
  ClientOps = {"start", "respond", "approve", "reject", "stop"}
  MaxSessionsPerUser = 2
  MaxCreated = 2
  MaxPrompts = 2
CHECK_DEADLOCK FALSE
INVARIANTS
  TypeOK
  AnswersFresh
  StopCancelsAgent
  MapConsistent
PROPERTIES
  CommandsReturn
