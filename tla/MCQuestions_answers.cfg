SPECIFICATION Spec
CONSTANTS
    pid1 = pid1
    pid2 = pid2
    server = server
    Server = Server
    file1 = file1
    file2 = file2
    addr1 = addr1
    port1 = port1
    Pids = {pid1, pid2}
    Names = {server, Server}
    Files = {file1, file2}
    Addrs = {addr1}
    Wildcard = Wildcard
    Ports = {port1}
    OtherFamily = OtherFamily
    Empty = Empty
    MaxRows = 3
    QueryLimit = 2
    SocketsLimit = 2
    TextLimit = 2
    Lower <- LowerCase
SYMMETRY Symmetry
INVARIANTS
    TypeOK
    LimitsCutOneEnd
