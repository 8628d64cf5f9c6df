SPECIFICATION FairSpec
CONSTANTS
  Players = {left, right}
  MaxFrame = 2
  PlayInterval = 1
  WaitingInterval = 3
  CompareFrame = 0
  MaxLeftover = 1
INVARIANTS NoFalseAlarm
PROPERTIES ImplementsFrameLog Progress
