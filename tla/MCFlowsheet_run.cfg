\* Twenty-two sheets and all sets of up to five connections.
CONSTANTS
    water = water
    oil = oil
    Materials <- MCMaterials
    Evidence <- MCEvidence
    Hard <- MCHard
    Sheets <- MCSheets
    Connections <- MCConnections
    NoReport = NoReport
    None = None
    MaxConnections = 5
SPECIFICATION Spec
INVARIANTS ValidIsWellPosed SolvesTheSheet ClosesUnlessLeaking ValidStreamsAreBacked BalancesAccount ProfilesAreStreams
CHECK_DEADLOCK FALSE
