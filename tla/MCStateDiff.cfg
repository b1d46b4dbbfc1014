SPECIFICATION Spec
CONSTANTS
    Rows <- SomeRows
    Times = {1, 2}
    Limit = 4
    HotCount = 3
    PidText <- Texts
    Blank = ""
INVARIANTS
    TypeOK
    NewProcessesAreFirst
    RestartsFollowExits
    HotWritersAreHot
