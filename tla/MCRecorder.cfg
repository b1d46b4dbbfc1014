SPECIFICATION FairSpec
CONSTANTS
    MaxEvents = 5
    KindOf <- KindsMixed
    RingCap = 1
    InCap = 1
    IngestCap = 1
    BatchSize = 2
    MaxBatch = 3
    Word = 256
    LookupMayFail = FALSE
INVARIANTS
    TypeOK
    AllJoined
    NoSendOnClosedChannel
    FifoOrder
    EveryEventAccountedFor
    CleanStopPersistsAll
    ErrorsSurface
    OverflowReported
    ColumnReportsLosses
PROPERTIES
    ImplementsEventLog
    ServiceEnds
    AcceptedBecomesDurable
