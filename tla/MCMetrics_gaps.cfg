SPECIFICATION Spec
CONSTANTS
  a = a
  b = b
  Sources = {a, b}
  Samples <- OneSample
  Huge = 100
  Scale = 36
  Passive = FALSE
  NoNode = NoNode
  MaxIndex = 3
  MaxMessages = 4
  MaxResets = 0
INVARIANTS OnlySkipped
