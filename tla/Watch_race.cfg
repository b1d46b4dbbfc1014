SPECIFICATION Spec
CONSTANTS
    MaxID = 3
    MaxTime = 2
    MaxInsert = 2
    Punctual = TRUE
    From = 1
    Limit = 2
INVARIANTS
    BackfillMeetsTail
