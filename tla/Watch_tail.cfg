SPECIFICATION FairSpec
CONSTANTS
    MaxID = 4
    MaxTime = 3
    MaxInsert = 2
    Punctual = FALSE
    From = 2
    Limit = 2
INVARIANTS
    TypeOK
    CursorSkipsNothing
    NeverShownTwice
PROPERTIES
    NewRowsAreShown
