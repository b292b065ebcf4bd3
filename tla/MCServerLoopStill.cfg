\* Four clients or hosts at a time, one localFd, the clock standing still.
CONSTANTS
    ListenSd = 3
    Fd = {4, 5, 6, 7}
    FdSetSize = 8
    LocalFd = {l1}
    NoHost = NoHost
    NoLocal = NoLocal
    ClientTimeOut = 0
    SocketTimeOut = 0
SPECIFICATION StillSpec
SYMMETRY Symmetry
INVARIANTS
    TypeOK
    ForwardConsistent
    DescriptorsAccounted
    MaxCovers
    OnlyReadyClientsAreRead
    EverythingClosed
PROPERTIES
    TunnelsIsolated
