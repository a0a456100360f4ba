SPECIFICATION FairSpec
CHECK_DEADLOCK FALSE
CONSTANTS
  u1 = u1
  u2 = u2
  Upstream = {u1, u2}
  NoThread = NoThread
  HasTimeout = TRUE
  MaxMessages = 4
  MaxStarts = 2
PROPERTIES NewerAndNewer WokenIsProduced StopReturns
