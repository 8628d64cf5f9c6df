SPECIFICATION Spec
CONSTANTS
  Contexts = {1, 2, 3, 4, 5, 6, 7, 8, 9, 10}
  SlotSize = 4
  Threads = {t1, t2}
PROPERTIES NewSlotFree
CHECK_DEADLOCK FALSE
