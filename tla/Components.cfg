SPECIFICATION AllSpec
CONSTANTS
    Conts = {"c1", "c2"}
    NoCont = "none"
    Ports = {"p1"}
    NoPort = "no port"
    MaxSignals = 1
    MaxSize = 4
    NwBoots = {"b1", "b2", "b3", "b4"}
    NwPlans <- NetworkPlans
    NwSize = 5
    NwMaxRestarts = 1
    LgMax = 2
    LgShards = 2
    LgEntries = 7
    LgWriters = 2
    ChanWindow = 2
    ChanPacket = 1
    ChanBytes = 2
    ChanReads = {2}
    ChanModulus = 4
    HsConfigs <- KexConfigs
    HsThreshold = 1
    HsData = 2
    CipherPayloads <- Payloads
    CipherMaxPacket = 65
    CipherSeqMod = 4
    CipherCount = 2
    AuthUsers = {"alice", "bob"}
    AuthKeys = {"k1", "k2"}
    Authorized <- AuthorizedKeys
    SourceBound = {"k2"}
    MaxTries = 2
    MaxCached = 2
    AuthConfigs <- ServerConfigs
    MaxRequests = 5
    WrBits = 2
    WrWord = 2
    WrArray = 2
    WrComma = 3
    WrTypes <- MessageTypes
    WrValues <- FieldValues
    CertNames = {"alice", "bob"}
    CertHalf = 4
    CertAfters = {0, 1, 7}
    CertBefores = {2, 5, 7}
    CertOptions <- OptionNames
    CertOptionSets <- OptionSets
    CertIssuedTo = {"alice", "any"}
    CertSupported = {"force-command"}
    CertRevoked = {2}
    KhLines <- FileLines
    KhHosts <- HostNames
    KhV6 <- V6Names
    KhKeys <- HostKeys
    KhPorts = {"22", "2222"}
    KhMax = 3
INVARIANTS RecordedIsForwarded  OnlyWhenAsked UserDiskFits NwDistinct NwRulesMatch LgFaithful ChanReliable HsSound  AuthGuarded WrFaithful CertChecked KhVerdicts
PROPERTIES DataIsKept ChanIsStream
CHECK_DEADLOCK FALSE
