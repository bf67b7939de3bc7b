\* Four connections at once, which stay until they time out: the vector grows
\* from 0 to 1, 2 and 4 slots, and the fourth push_back keeps its capacity.
CONSTANTS
  c1 = c1  c2 = c2  c3 = c3  c4 = c4
  NoConn = NoConn
  Conns = {c1, c2, c3, c4}
  Fds = {5, 6, 7, 8}
  Requests <- MCKeepAlive
  MaxRequests = 0
  Timeout = 0
  MayLeave = FALSE
  MayQuit = FALSE
SPECIFICATION Spec
SYMMETRY MCSymmetry
INVARIANTS
  IndexInBounds
  WatchedOrDropped
PROPERTIES
  ImplementsConnTable
