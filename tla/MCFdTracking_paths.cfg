SPECIFICATION Spec
CONSTANTS
    p1 = p1
    p2 = p2
    t1 = t1
    t2 = t2
    t3 = t3
    Process <- SingleThread
    Pids = {p1}
    Threads = {t1}
    MaxFd = 1
    FdLimit = 0
    Names = {"file", "proc"}
    Filtered = {"proc"}
    PendingMax = 1
    FdPathMax = 1
    Empty = ""
    None = None
PROPERTIES
    OpenedDescriptorsHavePaths
