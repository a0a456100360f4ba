SPECIFICATION FairSpec
CONSTANTS
  a = a
  b = b
  c = c
  t1 = t1
  t2 = t2
  m1 = m1
  m2 = m2
  Nodes = {a, b, c}
  Threads = {t1, t2}
  NoNode = NoNode
  NoThread = NoThread
  Unset = Unset
  Height <- Down
  Messages = {m1, m2}
  Kind <- Mixed
  Runs <- FromTop
  Graphs <- Triangle
  MaxLinks = 2
  MaxSends = 1
INVARIANTS LoopIntact NoDeadlock
PROPERTIES ProvenanceKept SerialMulticast SignalReturns
