\* Any statement of the data base may fail.
CONSTANTS
  c1 = c1
  NoConn = NoConn
  Conns = {c1}
  Fds = {5}
  SlotsReturn = FALSE
  Users = {1, 2}
  ErrorId = 9
  DbMayFail = TRUE
  MaxRequests = 1
  MayTalk = FALSE
  MaxRestarts = 0
SPECIFICATION Spec
INVARIANTS
  SuccessMeansUser
CHECK_DEADLOCK FALSE
