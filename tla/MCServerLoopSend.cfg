\* Two clients and a host of one of them: who is closed when a send fails.
CONSTANTS
    ListenSd = 3
    Fd = {4, 5, 6}
    FdSetSize = 8
    LocalFd = {l1}
    NoHost = NoHost
    NoLocal = NoLocal
    ClientTimeOut = 0
    SocketTimeOut = 0
SPECIFICATION StillSpec
PROPERTY FailedSendClosesOneClient
