SPECIFICATION FairSpec
CONSTANTS
  g = g
  u = u
  v = v
  e = e
  p = p
  l = l
  b = b
  s = s
  f = f
  y = y
  d = d
  c = c
  Nodes = {g, u, v, e, p, l, b, s, f, y, d, c}
  Observers <- Graph
  Kind <- Kinds
  Nth = 2
  Width = 3
  ChopLength = 2
  None = None
  Runnable = {g}
  Main = main
  Calls <- SafeCalls
  MaxMade = 4
INVARIANTS NoDeadlock EveryNthIsSignalled WindowHolds
PROPERTIES SnapshotsInOrder StopReturns
