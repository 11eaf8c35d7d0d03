\* Two clients, each with a window; their ids may be equal.
CONSTANTS
  ConfigCount = 2
  w1 = w1  w2 = w2
  c1 = c1  c2 = c2
  WindowId = {i1, i2}
  NoFocus = NoFocus
  Window = {w1, w2}
  Client = {c1, c2}
  OwnerOf <- TwoOwners
  Locker = {l1, l2}
  Nothing = Nothing
  NoLocker = NoLocker
SPECIFICATION Spec
SYMMETRY Exchange
INVARIANTS TypeOK NeverLost LockedKeyboard
PROPERTIES EntersSpaceOnly SlotStaysHome
