SPECIFICATION Spec
CONSTANTS
    Ranks <- OneRank
    Windows <- OneWindow
    Totals <- MCTotals
    MaxLines = 5
    MaxPrinted = 5
    Worlds <- MCWorlds
    NoDistribution = NoDistribution
    NoReport = NoReport
INVARIANTS
    PrunedAfterTheTable
