SPECIFICATION AllSpec
CONSTANTS
    Conts = {"c1", "c2"}
    NoCont = "none"
    Ports = {"p1"}
    NoPort = "no port"
    MaxSignals = 1
PROPERTIES  VMEnds
CHECK_DEADLOCK FALSE
