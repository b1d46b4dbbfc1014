SPECIFICATION FairSpec
CONSTANTS
    Flags <- SomeFlags
    TruthValues <- Truths
    DefaultPaths <- SomeDefaults
    DefaultDB = "ltm.db"
    DefaultPidFile = "ltm.pid"
    Texts <- SomeTexts
    MaxArgs = 5
    SQLTokens <- Quotes
    MaxSQL = 5
    AgentTokens <- Words
    MaxOutput = 5
INVARIANTS
    ChildConfigIsParents
    ScannerIsExact
    ExtractedRuns
    SuccessIsOneAnswer
PROPERTIES
    QueryEnds
CHECK_DEADLOCK FALSE
