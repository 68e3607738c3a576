SPECIFICATION VMSpec
CONSTANT MaxSignals = 1
PROPERTY GraceGiven
CHECK_DEADLOCK FALSE
