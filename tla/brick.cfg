SPECIFICATION FairSpec
CONSTANTS
  Interval = 2
  ElastTime = 5
  CoolTime = 7
  RestTime = 6
  BreakTime = 8
  Lag = 3
INVARIANTS NeverStuck ResetFindsNormal
PROPERTIES ReadyAgain StartsAtRest
