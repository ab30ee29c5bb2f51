SPECIFICATION Spec
CONSTANTS
    c1 = c1
    c2 = c2
    home = home
    away = away
    Clusters <- MCClusters
    Rank <- MCRank
    Hosts <- TwoHosts
    HomeHost = home
    MaxWorkers = 4
    Events <- RestartEvents
    MaxEvents = 3
    InContainer = TRUE
    RelayOn = TRUE
    NoCluster = NoCluster
    NoRank = NoRank
    NoHost = NoHost
    NoRecord = NoRecord
INVARIANTS
    NoOrphans
    TunnelIsSupervised
    TunnelIsWatched
    RestStateIsPersisted
    KeyIsRegistered
    EndpointIsCurrent
PROPERTIES
    KeepsMembership
