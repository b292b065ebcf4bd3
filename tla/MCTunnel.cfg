\* Two processes, one with a second tunnel after its first, two messages and an answer.
SPECIFICATION Spec
CONSTANTS
    c1 = c1
    c2 = c2
    Client = {c1, c2}
    MaxTunnels <- TwoAndOne
    Capacity = 1
    ClientStart = {3}
    ServerStart = {5}
    MaxSeq <- OneSpeaks
    NoNode = NoNode
INVARIANTS
    IInv
    NumbersInStep
    NothingMissing
PROPERTY
    TunnelsDeliver
CHECK_DEADLOCK FALSE
