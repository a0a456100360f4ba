SPECIFICATION FairTakeSpec
CHECK_DEADLOCK FALSE
CONSTANTS
  s1 = s1
  s2 = s2
  Signallers = {s1, s2}
  Nobody = Nobody
  Wanted = 3
  MaxSent = 6
INVARIANTS NoLateCallback ExactlyWanted
PROPERTIES TakeReturns
