\* Three clients or hosts at a time, two localFds, every age within reach.
CONSTANTS
    ListenSd = 3
    Fd = {4, 5, 6}
    FdSetSize = 8
    LocalFd = {l1, l2}
    NoHost = NoHost
    NoLocal = NoLocal
    ClientTimeOut = 0
    SocketTimeOut = 1
SPECIFICATION Spec
SYMMETRY Symmetry
INVARIANTS
    IInv
    TablesAgree
    ClientFound
PROPERTIES
    TunnelsIsolated
