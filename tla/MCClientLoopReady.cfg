\* As MCClientLoop.cfg: what the log line of the user branch says of a user.
SPECIFICATION Spec
CONSTANTS
    FdSetSize = 6
    ServerFd = 1
    NoFd = 0
    Fd <- MCFd
INVARIANT
    ReadyUsersOnly
