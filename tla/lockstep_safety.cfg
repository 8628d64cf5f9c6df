SPECIFICATION Spec
CONSTANTS
  Players = {left, right}
  MaxFrame = 3
  PlayInterval = 2
  WaitingInterval = 3
  CompareFrame = 9
  MaxLeftover = 2
SYMMETRY Symmetry
INVARIANTS TypeOK StreamIntact TickAligned ReadyHasTimer NoLostTrigger
PROPERTIES OnTimeInputKept ShortFrameNeedsStaleTimer
