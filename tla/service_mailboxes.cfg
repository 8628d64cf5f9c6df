SPECIFICATION FairSpec
CONSTANTS
  Contexts = {1, 2}
  SlotSize = 1
  Single = {w1}
  Whole = {w2}
  Outside = {net}
  Started = 1
  Launchers = {1}
  MaxSends = 2
  MaxKills = 2
INVARIANTS OnePlace Lifetimes
PROPERTIES ImplementsMailbox
CHECK_DEADLOCK FALSE
