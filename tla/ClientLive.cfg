\* Liveness needs no more than a request that may find its answer cut.
SPECIFICATION LiveSpec
CONSTANTS
  Users = {1, 2}
  Every = 1
  MaxSleep = 1
  Delay = 1
  Timeout = 3
  SeqMax = 1
  Word = 3
  Window = 1
  MaxRequests = 1
PROPERTIES
  StopEnds
  ClosedEndsReceiver
CHECK_DEADLOCK FALSE
