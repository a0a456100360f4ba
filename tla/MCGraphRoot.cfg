SPECIFICATION FairSpec
CHECK_DEADLOCK FALSE
CONSTANTS
  root = root
  sensor = sensor
  producer = producer
  sink = sink
  Nodes = {root, sensor, producer, sink}
  Root = root
  Runnable = {sensor, producer}
  Trigger = trigger
  MetricsNodes <- Metrics
  Graphs <- Fork
  NoNode = none
  EndsItself = {sensor}
  MaxCalls = 8
INVARIANT StopUndoes
PROPERTIES QuietRewiring InterruptEndsProfile
