SPECIFICATION Spec
CONSTANTS
    c1 = c1
    c2 = c2
    home = home
    away = away
    Clusters <- MCClusters
    Rank <- MCRank
    Hosts <- OneHost
    HomeHost = home
    MaxWorkers = 5
    Events <- ServiceEvents
    MaxEvents = 4
    InContainer = TRUE
    RelayOn = TRUE
    NoCluster = NoCluster
    NoRank = NoRank
    NoHost = NoHost
    NoRecord = NoRecord
INVARIANTS
    TypeOK
    RankIsCurrent
    HeadReadyHasDistribution
    DissolveIsCurrent
    MonitorFollowsTunnel
