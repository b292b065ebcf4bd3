\* Two processes with a tunnel each, sharing the server.
SPECIFICATION FairSpec
CONSTANTS
    c1 = c1
    c2 = c2
    Client = {c1, c2}
    MaxTunnels <- OneEach
    Capacity = 1
    ClientStart = {3}
    ServerStart = {4}
    MaxSeq <- OneSpeaks
    NoNode = NoNode
PROPERTIES
    AnswersEnd
    HandshakesEnd
    MessagesEnd
CHECK_DEADLOCK FALSE
