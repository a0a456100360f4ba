SPECIFICATION FairSpec
CHECK_DEADLOCK FALSE
CONSTANTS
  endless = endless
  player = player
  Nodes = {endless, player}
  NoNode = NoNode
  EndsItself = {player}
  InterruptAt = {"clear", "body", "forget", "restore"}
  MaxCalls = 4
INVARIANTS ThreadIsHeld
PROPERTIES OnlyWhenAsked StopReturns
