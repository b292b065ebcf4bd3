\* The listening socket and up to three users, or sockets left by earlier sessions.
SPECIFICATION Spec
CONSTANTS
    FdSetSize = 6
    ServerFd = 1
    NoFd = 0
    Fd <- MCFd
INVARIANTS
    IInv
    KeysAreWatched
    SocketsAccounted
    MaxCovers
PROPERTIES
    StatusSteps
