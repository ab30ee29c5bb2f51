SPECIFICATION Spec
CONSTANTS
    Ranks <- MCRanks
    Windows <- MCWindows
    Totals <- MCTotals
    MaxLines = 5
    MaxPrinted = 6
    Worlds <- MCWorlds
    NoDistribution = NoDistribution
    NoReport = NoReport
INVARIANTS
    TypeOK
    ParserReadsTheLastTable
    TrimmingNeverMisleads
    NoTableIsUnknown
    CloseWaitsForTheDead
