\* When all calls are made and all ids relayed, an ended thread leaves nothing to do.
SPECIFICATION FairSpec
CONSTANTS
  MaxCalls = 4
  ChannelCap = 1
  ClosedCap = 1
  MaxVisible = 2
  Timeout = {2}
  Sticky = {3}
  Named = {2}
CHECK_DEADLOCK FALSE
INVARIANT TypeOK
PROPERTIES
  KeepsPromise
  CallsReturn
  ToastsEnd
