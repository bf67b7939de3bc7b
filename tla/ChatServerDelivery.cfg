\* Every kind of request, enough of them for two users to log in and talk.
CONSTANTS
  c1 = c1  c2 = c2
  NoConn = NoConn
  Conns = {c1, c2}
  Fds = {5, 6}
  SlotsReturn = FALSE
  Users = {1, 2}
  ErrorId = 9
  DbMayFail = FALSE
  MaxRequests = 3
  MayTalk = TRUE
  MaxRestarts = 0
SPECIFICATION Spec
SYMMETRY MCSymmetry
INVARIANTS
  TypeOK
  SessionIdentity
  OneSession
  MisdeliveredOnlyAfterReuse
  DestinationIsUser
PROPERTIES
  
  FramedUnlessBroken
CHECK_DEADLOCK FALSE
