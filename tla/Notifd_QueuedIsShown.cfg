SPECIFICATION FairSpec
CONSTANTS
  MaxCalls = 2
  ChannelCap = 1
  ClosedCap = 1
  MaxVisible = 1
  Timeout = {1}
  Sticky = {3}
  Named = {1}
CHECK_DEADLOCK FALSE
PROPERTY QueuedIsShown
