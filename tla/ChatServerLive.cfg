\* Two connections on one descriptor and fair threads.
CONSTANTS
  c1 = c1  c2 = c2
  NoConn = NoConn
  Conns = {c1, c2}
  Fds = {5}
  SlotsReturn = FALSE
  Users = {1, 2}
  ErrorId = 9
  DbMayFail = FALSE
  MaxRequests = 2
  MayTalk = FALSE
  MaxRestarts = 0
SPECIFICATION LiveSpec
PROPERTIES
  SessionsEnd
  QueueDrains
CHECK_DEADLOCK FALSE
