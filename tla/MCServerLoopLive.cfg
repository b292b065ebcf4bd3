\* Two clients and a host, or one and two; every age within reach.
CONSTANTS
    ListenSd = 3
    Fd = {4, 5, 6}
    FdSetSize = 8
    LocalFd = {l1}
    NoHost = NoHost
    NoLocal = NoLocal
    ClientTimeOut = 0
    SocketTimeOut = 0
SPECIFICATION FairSpec
PROPERTIES
    ExpiredHostsAreCut
    AcceptFailureEnds
