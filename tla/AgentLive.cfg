SPECIFICATION FairSpec
CONSTANTS
    c1 = c1
    c2 = c2
    home = home
    away = away
    Clusters <- MCClusters
    Rank <- MCRank
    Hosts <- OneHost
    HomeHost = home
    MaxWorkers = 3
    Events <- LiveEvents
    MaxEvents = 2
    InContainer = TRUE
    RelayOn = FALSE
    NoCluster = NoCluster
    NoRank = NoRank
    NoHost = NoHost
    NoRecord = NoRecord
PROPERTIES
    TakenAssignmentIsServed
    RestartRecovers
    ReceivedDissolveIsObeyed
