\* Any statement may fail, the server is restarted once, and growth of the
\* vector brings slots back.
CONSTANTS
  c1 = c1  c2 = c2
  NoConn = NoConn
  Conns = {c1, c2}
  Fds = {5, 6}
  SlotsReturn = TRUE
  Users = {1}
  ErrorId = 9
  DbMayFail = TRUE
  MaxRequests = 2
  MayTalk = FALSE
  MaxRestarts = 1
SPECIFICATION Spec
SYMMETRY MCSymmetry
INVARIANTS
  SessionIsListed
CHECK_DEADLOCK FALSE
