\* A claim of the documentation that the code does not keep.
CONSTANTS
  ConfigCount = 2
  w1 = w1  w2 = w2
  c1 = c1  c2 = c2
  WindowId = {i1, i2}
  NoFocus = NoFocus
  Window = {w1, w2}
  Client = {c1, c2}
  OwnerOf <- OneOwner
  Locker = {l1}
  Nothing = Nothing
  NoLocker = NoLocker
SPECIFICATION Spec
INVARIANT OneSpacePerWindow
