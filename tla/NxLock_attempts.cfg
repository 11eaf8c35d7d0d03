\* The process ends: a deadlock is no error.
SPECIFICATION Spec
CONSTANT MaxFails = 3
CHECK_DEADLOCK FALSE
INVARIANTS
  TypeOK
  OneOutstanding
  
