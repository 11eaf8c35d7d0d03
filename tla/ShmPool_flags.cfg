SPECIFICATION Spec
CONSTANTS
  b1 = b1
  b2 = b2
  b3 = b3
  b4 = b4
  b5 = b5
  b6 = b6
  small = small
  large = large
  Buffer <- Buffers
  Size <- Sizes
  MAX_BUFFERS = 4
SYMMETRY Exchange
INVARIANTS
  TypeOK
  FlagsAreTrue
  PoolIsUniform
