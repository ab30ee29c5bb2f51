SPECIFICATION FairSpec
CONSTANTS
    w1 = w1
    w2 = w2
    w3 = w3
    Server = Server
    Workers <- MCWorkers
    MaxClusters = 2
    Configs <- MCConfigs
    Carries <- MCCarries
    Flaky <- MCFlaky
    NoCluster = NoCluster
    NoRank = NoRank
    NoAddress = NoAddress
    NoProcess = NoProcess
CHECK_DEADLOCK FALSE
INVARIANTS
    TypeOK
    LiveRingIsClosed
    LiveRingIsWhole
    RingIsConsistent
PROPERTIES
    WorkersKeepMembership
    FormedGoesLive
    DissolvedRingEnds
