SPECIFICATION Spec
CONSTANTS
    p1 = p1
    p2 = p2
    t1 = t1
    t2 = t2
    t3 = t3
    Process <- ProcessOfThread
    Pids = {p1, p2}
    Threads = {t1, t2, t3}
    MaxFd = 1
    FdLimit = 0
    \* The empty string, which passes the filter, stands for every name that does.
    Names = {"proc"}
    Filtered = {"proc"}
    PendingMax = 1
    FdPathMax = 1
    Empty = ""
    None = None
SYMMETRY Overlapping
INVARIANTS
    TypeOK
    PendingIsOfACallInProgress
    SettledNamesAreFiltered
