\* The keep-alive timeout as protocol.h states it, on the smallest instance:
\* a descriptor and a slot that two connections use one after the other.
CONSTANTS
  c1 = c1  c2 = c2
  NoConn = NoConn
  Conns = {c1, c2}
  Fds = {5}
  Requests <- MCKeepAlive
  MaxRequests = 0
  Timeout = 1
  MayLeave = TRUE
  MayQuit = FALSE
SPECIFICATION Spec
PROPERTIES
  TimeoutOnlyWhenSilent
