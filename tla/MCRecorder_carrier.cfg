SPECIFICATION Spec
CONSTANTS
    MaxEvents = 5
    KindOf <- KindsMixed
    RingCap = 1
    InCap = 1
    IngestCap = 1
    BatchSize = 2
    MaxBatch = 2
    Word = 256
    LookupMayFail = FALSE
INVARIANTS
    LossesReachALaterRow
