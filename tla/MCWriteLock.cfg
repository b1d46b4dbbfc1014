SPECIFICATION Spec
CONSTANTS
    recorder1 = recorder1
    recorder2 = recorder2
    prune1 = prune1
    load1 = load1
    Recorders = {recorder1, recorder2}
    Prunes = {prune1}
    Loads = {load1}
    NoOne = NoOne
    Busy = 3
    WriteTimeout = 3
    MaxHold <- Holds
INVARIANTS
    TypeOK
    TimeoutsAreContention
    SpaceIsOwed
