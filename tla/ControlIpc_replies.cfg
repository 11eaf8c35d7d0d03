\* The compositor ends: a deadlock is no error.
SPECIFICATION FairSpec
CONSTANTS
  c1 = c1
  c2 = c2
  Conn <- Connections
  MaxRequests = 2
CHECK_DEADLOCK FALSE
INVARIANTS
  TypeOK
  RepliesInOrder
  OneCommandPerTask
PROPERTY Answered
