SPECIFICATION FairSpec
CONSTANTS
  short = short
  long = long
  Threads = {1, 2}
  Messages = {short, long}
  Size <- Sizes
  Files = {1, 2}
  NoFile = NoFile
  NoMessage = NoMessage
  Garbled = Garbled
  MaxUnits = 7
INVARIANTS WholeRecords PlaysIntact
PROPERTIES SkipsNothing PlaysToTheEnd
