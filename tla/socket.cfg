SPECIFICATION Spec
CONSTANTS
  Threads = {t1, t2}
  MaxIds = 1
  MaxSends = 4
  Size = 2
INVARIANTS WholeMessages FlushBeforeClose
CHECK_DEADLOCK FALSE
