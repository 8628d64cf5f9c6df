SPECIFICATION Spec
CONSTANTS
  Near = 2
  Level = 2
  MaxTimers = 3
  MaxDiff = 2
INVARIANTS DueOnTime
PROPERTIES InOrder
