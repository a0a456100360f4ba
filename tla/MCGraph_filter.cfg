SPECIFICATION Spec
CONSTANTS
  r = r
  a = a
  b = b
  c = c
  Nodes = {r, a, b, c}
  Root = r
  MetricsNodes <- Metrics
  MaxLinks = 4
INVARIANTS PrunesRejected
