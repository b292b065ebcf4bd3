\* Two users, one after the other under one number or side by side under two.
SPECIFICATION Spec
CONSTANTS
    u1 = u1
    u2 = u2
    User = {u1, u2}
    LocalFd = {4, 5}
    NoUser = NoUser
    NoFd = 0
    Garbage = Garbage
    Capacity = 2
    MaxData = 2
SYMMETRY Symmetry
INVARIANTS
    IInv
    UsersGetTheirHost
    HostsGetTheirUser
    AnswersAreComing
CHECK_DEADLOCK FALSE
