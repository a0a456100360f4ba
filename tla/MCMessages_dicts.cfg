SPECIFICATION Spec
CHECK_DEADLOCK FALSE
CONSTANTS
  short = short
  long = long
  NoNode = none
  Nodes = {short, long}
  LongNamed = {long}
  Unset = unset
  Payloads <- AllPayloads
  Extras = {3, 8}
  MaxMessages = 3
  MaxStores = 3
INVARIANTS PartialDictsRead
