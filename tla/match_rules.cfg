SPECIFICATION Spec
CONSTANT ScoreMax = 3
INVARIANTS LiveScene ShotCycle ScoresFit ConnectionFits
