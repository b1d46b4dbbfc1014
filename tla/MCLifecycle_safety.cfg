SPECIFICATION FairSpec
CONSTANTS
    pid1 = pid1
    pid2 = pid2
    pid3 = pid3
    c1 = c1
    c2 = c2
    k1 = k1
    Pids = {pid1, pid2, pid3}
    Starts = {c1, c2}
    Stops = {k1}
    Overwrite <- OverwriteLonger
    NoPid = NoPid
INVARIANTS
    TypeOK
    KillHitsTheChild
    FailedStartLeavesNoDaemon
PROPERTIES
    EndsAfterLastFlush
    StopEndsDaemon
