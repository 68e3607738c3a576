SPECIFICATION AllSpec
CONSTANTS
    ChanWindow = 1
    ChanPacket = 2
    ChanBytes = 2
    ChanReads = {2}
    ChanModulus = 4
    Opens = {"o1", "o2"}
    Opener <- OpenedBy
    Callers = {"k1", "k2", "g1", "g2"}
    Target <- RequestOn
    Plans <- MuxPlans
    HsConfigs <- KexConfigs
    HsThreshold = 1
    HsData = 2
    CaConfigs <- ClientConfigs
    CaLists <- MethodLists
    CaExtra = 2
    FwListeners = {"l1"}
    FwAddrs = {"t1", "u1"}
    FwBad = "bad"
    FwAny = "any"
    FwNone = "none"
    FwKindOf <- KindOfAddress
    FwChanSize = 1
    FwTries = 2
    FwMaxConns = 2
PROPERTIES ChanEnds  HsProgress CaGuarded FwServed
CHECK_DEADLOCK FALSE
