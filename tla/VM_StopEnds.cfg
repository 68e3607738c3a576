SPECIFICATION VMFairSpec
CONSTANT MaxSignals = 2
PROPERTY StopEnds
CHECK_DEADLOCK FALSE
