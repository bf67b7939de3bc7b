\* One restart, one descriptor.
CONSTANTS
  c1 = c1  c2 = c2
  NoConn = NoConn
  Conns = {c1, c2}
  Fds = {5}
  SlotsReturn = FALSE
  Users = {1, 2}
  ErrorId = 9
  DbMayFail = FALSE
  MaxRequests = 2
  MayTalk = FALSE
  MaxRestarts = 1
SPECIFICATION Spec
PROPERTIES
  HasLoginMeansSession
CHECK_DEADLOCK FALSE
