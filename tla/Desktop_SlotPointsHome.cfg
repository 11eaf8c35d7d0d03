\* A claim of workspace.rs that a recycled protocol id breaks.
CONSTANTS
  ConfigCount = 2
  w1 = w1  w2 = w2
  c1 = c1  c2 = c2
  WindowId = {i1}
  NoFocus = NoFocus
  Window = {w1, w2}
  Client = {c1, c2}
  OwnerOf <- OneOwner
  Locker = {l1}
  Nothing = Nothing
  NoLocker = NoLocker
SPECIFICATION Spec
INVARIANT SlotPointsHome
