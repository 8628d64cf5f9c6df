SPECIFICATION FairSpec
CONSTANTS
  HeartbeatInterval = 2
  MaxConnects = 2
  MaxDatagrams = 3
  MaxErrors = 2
INVARIANTS OneEnd ErrorEndsOne OnlineHasEnd
PROPERTIES HeartbeatNotHasty SilenceEnds MatchIsLeft
