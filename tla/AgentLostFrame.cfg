SPECIFICATION FairSpec
CONSTANTS
    c1 = c1
    c2 = c2
    home = home
    away = away
    Clusters <- MCClusters
    Rank <- MCRank
    Hosts <- OneHost
    HomeHost = home
    MaxWorkers = 1
    Events <- NoEvents
    MaxEvents = 0
    InContainer = TRUE
    RelayOn = TRUE
    NoCluster = NoCluster
    NoRank = NoRank
    NoHost = NoHost
    NoRecord = NoRecord
PROPERTIES
    AssignmentIsServed
