\* Three connections share two descriptors: every reuse of a descriptor and
\* of a slot, and growth of the vector from 0 to 1 to 2 slots.
CONSTANTS
  c1 = c1  c2 = c2  c3 = c3
  NoConn = NoConn
  Conns = {c1, c2, c3}
  Fds = {5, 6}
  Requests <- MCKeepAlive
  MaxRequests = 1
  Timeout = 0
  MayLeave = TRUE
  MayQuit = FALSE
SPECIFICATION Spec
SYMMETRY MCSymmetry
INVARIANTS
  TypeOK
  NoDuplicateSockets
  WatchedOrDropped
PROPERTIES
  DropOnlyInExitWindow
  TimeoutIsEarned
