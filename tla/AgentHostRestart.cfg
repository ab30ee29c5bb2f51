SPECIFICATION FairSpec
CONSTANTS
    c1 = c1
    c2 = c2
    home = home
    away = away
    Clusters <- MCClusters
    Rank <- MCRank
    Hosts <- OneHost
    HomeHost = home
    MaxWorkers = 2
    Events <- CrashOnly
    MaxEvents = 1
    InContainer = FALSE
    RelayOn = TRUE
    NoCluster = NoCluster
    NoRank = NoRank
    NoHost = NoHost
    NoRecord = NoRecord
PROPERTIES
    RestartRecovers
