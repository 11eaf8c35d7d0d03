SPECIFICATION FairSpec
CONSTANTS
  Locker = {k1, k2}
  NoLocker = NoLocker
CHECK_DEADLOCK FALSE
PROPERTY ExitRestoresFocus
