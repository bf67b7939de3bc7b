\* Two connections use one descriptor one after the other and send either
\* kind of request; the operator may type 'q' at any moment, after which the
\* program stops: no deadlock check.
CONSTANTS
  c1 = c1  c2 = c2
  NoConn = NoConn
  Conns = {c1, c2}
  Fds = {5}
  Requests <- MCRequests
  MaxRequests = 1
  Timeout = 0
  MayLeave = TRUE
  MayQuit = TRUE
SPECIFICATION LiveSpec
PROPERTIES
  SilentClientIsClosed
  
  ShutdownStopsThreads
CHECK_DEADLOCK FALSE
