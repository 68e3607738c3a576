SPECIFICATION AllSpec
CONSTANTS
    LnPlans <- LaunchPlans
    LnProcs = {1, 2, 3, 4, 5, 6}
    LnPublished = {2, 3}
    LnLatest = 3
    LnFiles = 2
    RyKinds = {"port", "agent"}
    RyClients = {"c1", "c2"}
    RyBytes = 1
    RyTalkers = {"c1"}
    RuKinds = {"run", "console"}
    RuTyped = 1
    RuLines = 2
    RpCmds = {"a", "b"}
    RpLimited = {"a"}
    RpBuffer = 1
    ApApps = {"a", "b"}
    ApNone = "none"
    ApMaxOps = 2
    ApHomes = {{}, {"b"}}
    ApLinks = {{"a"}}
    DnQueries = {"q1", "q2"}
    DnKinds = {"A", "MX", "other"}
    DnReaches = {{"s1"}, {"s2"}}
    DnDefault <- DefaultServers
    DnConfs <- ResolvConfs
    DnTries = 2
    DnMaxMoves = 1
    AgUsers = {"u1", "u2"}
    AgPhrases = {"p", "q"}
    AgLives <- KeyLives
    AgPlans <- AgentPlans
    AgCalls = 3
    AgMaxTime = 3
    SeKinds <- RequestKinds
    SeMax = 4
    SeSigBuf = 1
    SvConns = {"c1", "c2"}
    SvPlans <- ServerPlans
    SvAddrs = {"a1"}
    SvLns = {"l1", "l2"}
    ClTries = 2
    ClTaken = {{}, {"in", "out"}}
    ClChanSize = 1
    ClScripts <- ServerScripts
    ClMaxTyped = 1
PROPERTIES LnEnds  RuFinishes RpDelivers ApFollows DnServed    
CHECK_DEADLOCK FALSE
