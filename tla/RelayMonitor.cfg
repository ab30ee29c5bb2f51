SPECIFICATION FairSpec
CONSTANTS
    c1 = c1
    c2 = c2
    own1 = own1
    own2 = own2
    plain = plain
    marked = marked
    server = server
    other = other
    Clusters <- MCClusters
    Entries <- MCEntries
    Listed <- MCListed
    Own <- MCOwn
    Servers <- MCServers
    Preferred <- MCPreferred
    Relay = Relay
    MaxEvents = 3
    NoCluster = NoCluster
    NoPeer = NoPeer
    Ended = Ended
INVARIANTS
    TypeOK
    RelayedIsRouted
    PreferredIsRelayed
PROPERTIES
    LostPeersAreRelayed
