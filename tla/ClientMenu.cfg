\* Safety, with enough choices for a login and a talk or two logins.
SPECIFICATION Spec
CONSTANTS
  Users = {1, 2}
  Every = 1
  MaxSleep = 1
  Delay = 1
  Timeout = 3
  SeqMax = 1
  Word = 3
  Window = 1
  MaxRequests = 2
INVARIANTS
  TypeOK
  
  
  NoPiecesSent
  

  
  
CHECK_DEADLOCK FALSE
