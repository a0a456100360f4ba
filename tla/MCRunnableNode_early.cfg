SPECIFICATION FairSpec
CHECK_DEADLOCK FALSE
CONSTANTS
  endless = endless
  player = player
  Nodes = {endless, player}
  NoNode = NoNode
  EndsItself = {player}
  InterruptAt = {"clear", "body"}
  MaxCalls = 4
PROPERTIES InterruptStops
