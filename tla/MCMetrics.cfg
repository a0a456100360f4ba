SPECIFICATION FairSpec
CONSTANTS
  a = a
  b = b
  Sources = {a, b}
  Samples <- TwoSamples
  Huge = 100
  Scale = 36
  Passive = TRUE
  NoNode = NoNode
  MaxIndex = 2
  MaxMessages = 3
  MaxResets = 1
INVARIANTS TracksSamples NoGapOverlooked MissedAreSkipped AllAlike NothingLost
PROPERTIES AllPublished
