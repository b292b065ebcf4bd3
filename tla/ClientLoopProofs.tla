-------------------------- MODULE ClientLoopProofs --------------------------
(* Proofs about the client's loop, for all sets of descriptors.            *)
EXTENDS ClientLoop, FdSetsProofs

\* Descriptors are naturals an fd_set can hold; the tunnel's is the lowest.
LEMMA FdFacts ==
    /\ ServerFd \in Nat /\ ServerFd \notin Fd /\ NoFd \notin Fd /\ NoFd # ServerFd
    /\ \A fd \in Fd : fd \in Nat /\ ServerFd < fd
    /\ Fd \cup {ServerFd} \subseteq 0 .. FdSetSize
  BY ServerFdAssumption, FdAssumption, NoFdAssumption, FdSetSizeAssumption

\* The walk down a maximum that has been cleared ends at the new one.
LEMMA WalkKeepsMaximum ==
    ASSUME NEW set \in SUBSET (Fd \cup {ServerFd}), NEW max \in Nat, ServerFd \in set,
           \A fd \in set : fd <= max
    PROVE  /\ Lowered(max, set) \in set
           /\ \A fd \in set : fd <= Lowered(max, set)
  BY FdFacts, LoweredIsHighest

\* The clean-up after a connection keeps what the loop relies on.
LEMMA ForgetKeeps ==
    ASSUME IInv, NEW fd \in Fd, fd # listenSd, fd \notin kept, Forget(fd),
           UNCHANGED <<listenSd, kept, pc>>, pc = "scan", working' \subseteq working
    PROVE  /\ open' \subseteq Fd \cup {ServerFd} /\ masterSet' \subseteq Fd \cup {ServerFd}
           /\ maxSd' \in Fd \cup {ServerFd} /\ localFdMap' \in [Fd -> Status]
           /\ KeysAreWatched' /\ SocketsAccounted' /\ MaxCovers' /\ ScanInv'
<1> USE DEF IInv, TypeOK, InLoop
<1>1. /\ open' = open \ {fd} /\ masterSet' = masterSet \ {fd}
      /\ localFdMap' = [localFdMap EXCEPT ![fd] = "none"]
      /\ maxSd' = IF fd = maxSd THEN Lowered(maxSd, masterSet') ELSE maxSd
  BY DEF Forget
<1>2. localFdMap' \in [Fd -> Status]
  BY <1>1 DEF Status
<1>3. SocketsAccounted'
  BY <1>1, FdFacts DEF SocketsAccounted
<1>4. KeysAreWatched'
  BY <1>1 DEF KeysAreWatched
<1>5. maxSd' \in masterSet' /\ \A g \in masterSet' : g <= maxSd'
  <2>1. masterSet' \in SUBSET (Fd \cup {ServerFd}) /\ ServerFd \in masterSet'
    BY <1>1, <1>3 DEF SocketsAccounted
  <2>2. maxSd \in Nat /\ \A g \in masterSet' : g <= maxSd
    BY <1>1, FdFacts DEF MaxCovers
  <2>3. CASE fd = maxSd
    BY <1>1, <2>1, <2>2, <2>3, WalkKeepsMaximum
  <2>4. CASE fd # maxSd
    BY <1>1, <2>2, <2>4 DEF MaxCovers
  <2> QED BY <2>3, <2>4
<1>6. ScanInv'
  BY DEF ScanInv, InLoop
<1> QED BY <1>1, <1>2, <1>3, <1>4, <1>5, <1>6 DEF MaxCovers

-----------------------------------------------------------------------------
\* What every invariant of the loop needs holds at the start and survives each
\* action of launch_client and startListen.
LEMMA InitInductive == Init => IInv
  BY FdFacts
     DEF Init, IInv, TypeOK, Status, KeysAreWatched, SocketsAccounted, MaxCovers, ScanInv, InLoop

LEMMA LaunchStepKeeps ==
    ASSUME IInv, LaunchStep
    PROVE  IInv'
<1> USE DEF IInv, TypeOK, session, InLoop
<1>1. CASE Connect
  BY <1>1 DEF Connect, KeysAreWatched, SocketsAccounted, MaxCovers, ScanInv
<1>2. CASE ConnectFails \/ SocketFails \/ CloseTunnel
  BY <1>2 DEF ConnectFails, SocketFails, CloseTunnel,
              KeysAreWatched, SocketsAccounted, MaxCovers, ScanInv
<1>3. CASE BindFails
  BY <1>3 DEF BindFails, LowestFree, KeysAreWatched, SocketsAccounted, MaxCovers, ScanInv
<1>4. CASE StartListen
  <2>1. PICK new \in Fd :
          /\ new \notin open
          /\ listenSd' = new
          /\ kept' = open \ {ServerFd}
          /\ open' = open \cup {new}
          /\ masterSet' = {new, ServerFd}
          /\ maxSd' = Larger(new, ServerFd)
    BY <1>4 DEF StartListen, LowestFree
  <2>2. maxSd' = new /\ ServerFd <= new
    BY <2>1, FdFacts DEF Larger
  <2>3. MaxCovers'
    BY <2>1, <2>2, FdFacts DEF MaxCovers
  <2>4. ServerFd \in open
    BY <1>4 DEF StartListen, ScanInv
  <2>5. SocketsAccounted'
    BY <2>1, <2>4, FdFacts DEF SocketsAccounted
  <2>6. KeysAreWatched'
    BY <1>4 DEF StartListen, KeysAreWatched
  <2>7. TypeOK'
    BY <1>4, <2>1, <2>2 DEF StartListen, Status
  <2>8. working = {}
    BY <1>4 DEF StartListen, ScanInv
  <2>9. ScanInv'
    BY <1>4, <2>8 DEF StartListen, ScanInv
  <2> QED BY <2>3, <2>5, <2>6, <2>7, <2>9
<1> QED BY <1>1, <1>2, <1>3, <1>4 DEF LaunchStep

LEMMA AcceptStepKeeps ==
    ASSUME IInv, AcceptStep
    PROVE  IInv'
<1> USE DEF IInv, TypeOK, session, InLoop
<1>1. ASSUME NEW new \in Fd, Accepted(new),
             \/ localFdMap' = [localFdMap EXCEPT ![new] = "waiting"]
             \/ UNCHANGED localFdMap
      PROVE  IInv'
  <2>1. /\ new \notin open /\ pc = "accept" /\ pc' = pc
        /\ open' = open \cup {new}
        /\ masterSet' = masterSet \cup {new}
        /\ maxSd' = Larger(maxSd, new)
        /\ fresh' = fresh \cup {new}
        /\ UNCHANGED <<listenSd, kept, working, endLoop>>
    BY <1>1 DEF Accepted, LowestFree
  <2>2. maxSd' \in masterSet' /\ \A fd \in masterSet' : fd <= maxSd'
    BY <2>1, FdFacts DEF MaxCovers, Larger
  <2>3. localFdMap' \in [Fd -> Status]
    BY <1>1 DEF Status
  <2>4. SocketsAccounted'
    BY <2>1 DEF SocketsAccounted
  <2>5. KeysAreWatched'
    <3>1. new # listenSd
      BY <2>1 DEF SocketsAccounted
    <3> QED BY <1>1, <2>1, <3>1 DEF KeysAreWatched
  <2>6. TypeOK'
    BY <2>1, <2>2, <2>3
  <2>7. ScanInv'
    BY <2>1 DEF ScanInv
  <2>8. MaxCovers'
    BY <2>2 DEF MaxCovers
  <2> QED BY <2>4, <2>5, <2>6, <2>7, <2>8
<1>2. CASE AcceptUser \/ AcceptHalf
  BY <1>1, <1>2 DEF AcceptUser, AcceptHalf
<1>3. CASE AcceptRefused
  <2>1. PICK new \in Fd :
          /\ new \notin open
          /\ maxSd' = IF new = Larger(maxSd, new) THEN Lowered(Larger(maxSd, new), masterSet)
                      ELSE Larger(maxSd, new)
          /\ localFdMap' = [localFdMap EXCEPT ![new] = "none"]
    BY <1>3 DEF AcceptRefused, LowestFree
  <2>2. /\ pc = "accept" /\ pc' = pc
        /\ UNCHANGED <<open, listenSd, kept, masterSet, working, endLoop, fresh>>
    BY <1>3 DEF AcceptRefused
  <2>3. maxSd \in Nat /\ ServerFd \in masterSet /\ \A fd \in masterSet : fd <= maxSd
    BY <2>2, FdFacts DEF SocketsAccounted, MaxCovers
  <2>4. maxSd' \in masterSet /\ \A fd \in masterSet : fd <= maxSd'
    <3>1. CASE new = Larger(maxSd, new)
      <4>1. new \in Nat /\ maxSd <= new
        BY <2>3, <3>1, FdFacts DEF Larger
      <4>2. \A fd \in masterSet : fd <= new
        BY <2>3, <4>1, FdFacts
      <4> QED BY <2>1, <2>3, <3>1, <4>1, <4>2, WalkKeepsMaximum
    <3>2. CASE new # Larger(maxSd, new)
      <4>1. maxSd' = maxSd
        BY <2>1, <3>2 DEF Larger
      <4> QED BY <2>2, <4>1 DEF MaxCovers
    <3> QED BY <3>1, <3>2
  <2>5. localFdMap' \in [Fd -> Status]
    BY <2>1 DEF Status
  <2>6. KeysAreWatched'
    BY <2>1, <2>2 DEF KeysAreWatched
  <2>7. TypeOK' /\ MaxCovers'
    BY <2>2, <2>4, <2>5 DEF MaxCovers
  <2>8. SocketsAccounted' /\ ScanInv'
    BY <2>2 DEF SocketsAccounted, ScanInv
  <2> QED BY <2>6, <2>7, <2>8
<1>4. CASE AcceptAgain \/ AcceptFails
  BY <1>4 DEF AcceptAgain, AcceptFails, KeysAreWatched, SocketsAccounted, MaxCovers, ScanInv
<1> QED BY <1>2, <1>3, <1>4 DEF AcceptStep

LEMMA ScanStepKeeps ==
    ASSUME IInv, ScanStep
    PROVE  IInv'
<1> USE DEF IInv, TypeOK, session, InLoop
<1>1. CASE Listen
  BY <1>1 DEF Listen, Done, Turn, KeysAreWatched, SocketsAccounted, MaxCovers, ScanInv
<1>2. CASE ServerNothing
  BY <1>2 DEF ServerNothing, FromServer, Turn, Done,
              KeysAreWatched, SocketsAccounted, MaxCovers, ScanInv
<1>3. ASSUME NEW fd \in Fd, ServerReply(fd)
      PROVE  IInv'
  <2>1. localFdMap' = [localFdMap EXCEPT ![fd] = "prepared"] /\ localFdMap[fd] = "waiting"
    BY <1>3 DEF ServerReply
  <2>2. localFdMap' \in [Fd -> Status]
    BY <2>1 DEF Status
  <2>3. /\ UNCHANGED <<open, listenSd, kept, masterSet, maxSd, endLoop, pc, fresh>>
        /\ working' \subseteq working /\ pc = "scan"
    BY <1>3 DEF ServerReply, FromServer, Turn, Done
  <2>4. KeysAreWatched'
    BY <2>1, <2>3 DEF KeysAreWatched
  <2> QED BY <2>2, <2>3, <2>4 DEF SocketsAccounted, MaxCovers, ScanInv
<1>4. ASSUME NEW fd \in Fd, ServerTrafficFails(fd)
      PROVE  IInv'
  <2>1. /\ UNCHANGED <<listenSd, kept, endLoop, pc, fresh>> /\ Forget(fd)
        /\ working' \subseteq working /\ pc = "scan" /\ localFdMap[fd] = "prepared"
    BY <1>4 DEF ServerTrafficFails, FromServer, Turn, Done
  <2>2. fd # listenSd /\ fd \notin kept
    BY <2>1 DEF KeysAreWatched, SocketsAccounted
  <2>3. /\ open' \subseteq Fd \cup {ServerFd} /\ masterSet' \subseteq Fd \cup {ServerFd}
        /\ maxSd' \in Fd \cup {ServerFd} /\ localFdMap' \in [Fd -> Status]
        /\ KeysAreWatched' /\ SocketsAccounted' /\ MaxCovers' /\ ScanInv'
    BY <2>1, <2>2, ForgetKeeps
  <2> QED BY <2>1, <2>3
<1>5. ASSUME NEW fd \in Fd, UserData(fd)
      PROVE  IInv'
  BY <1>5 DEF UserData, UserTurn, Turn, Done, KeysAreWatched, SocketsAccounted, MaxCovers, ScanInv
<1>6. ASSUME NEW fd \in Fd, UserGone(fd)
      PROVE  IInv'
  <2>1. /\ UNCHANGED <<listenSd, kept, endLoop, pc, fresh>> /\ Forget(fd)
        /\ working' \subseteq working /\ pc = "scan" /\ fd # listenSd /\ fd \in working
    BY <1>6 DEF UserGone, UserTurn, Turn, Done, Remaining
  <2>2. fd \notin kept
    BY <2>1 DEF ScanInv
  <2>3. /\ open' \subseteq Fd \cup {ServerFd} /\ masterSet' \subseteq Fd \cup {ServerFd}
        /\ maxSd' \in Fd \cup {ServerFd} /\ localFdMap' \in [Fd -> Status]
        /\ KeysAreWatched' /\ SocketsAccounted' /\ MaxCovers' /\ ScanInv'
    BY <2>1, <2>2, ForgetKeeps
  <2> QED BY <2>1, <2>3
<1>7. ASSUME NEW fd \in Fd, UserDataFails(fd)
      PROVE  IInv'
  BY <1>7 DEF UserDataFails, KeysAreWatched, SocketsAccounted, MaxCovers, ScanInv
<1>8. CASE PassDone
  BY <1>8 DEF PassDone, KeysAreWatched, SocketsAccounted, MaxCovers, ScanInv
<1> QED BY <1>1, <1>2, <1>3, <1>4, <1>5, <1>6, <1>7, <1>8 DEF ScanStep

LEMMA SelectKeeps ==
    ASSUME IInv, Select \/ SelectFails
    PROVE  IInv'
<1> USE DEF IInv, TypeOK, session, InLoop
<1>1. CASE Select
  <2>1. working' \subseteq masterSet /\ pc = "select" /\ pc' = "scan"
        /\ UNCHANGED <<open, listenSd, kept, localFdMap, masterSet, maxSd, endLoop, fresh>>
    BY <1>1 DEF Select
  <2>2. KeysAreWatched' /\ SocketsAccounted' /\ MaxCovers'
    BY <2>1 DEF KeysAreWatched, SocketsAccounted, MaxCovers
  <2>3. ScanInv'
    BY <2>1 DEF ScanInv, SocketsAccounted
  <2>4. TypeOK'
    <3>1. working' \subseteq Fd \cup {ServerFd}
      BY <2>1
    <3> QED BY <2>1, <3>1
  <2> QED BY <2>2, <2>3, <2>4
<1>2. CASE SelectFails
  BY <1>2 DEF SelectFails, KeysAreWatched, SocketsAccounted, MaxCovers, ScanInv
<1> QED BY <1>1, <1>2

LEMMA StutterKeeps ==
    ASSUME IInv, UNCHANGED vars
    PROVE  IInv'
  BY DEF IInv, TypeOK, vars, session, InLoop, KeysAreWatched, SocketsAccounted, MaxCovers, ScanInv

\* The invariant of launch_client and startListen, whatever the tunnel and the users do.
THEOREM Inductive == Spec => []IInv
<1>1. IInv /\ [Next]_vars => IInv'
  BY LaunchStepKeeps, AcceptStepKeeps, ScanStepKeeps, SelectKeeps, StutterKeeps DEF Next, Ended
<1> QED BY <1>1, InitInductive, PTL DEF Spec
\* No localFd outlives its connection in localFdMap.
THEOREM KeysAlwaysWatched == Spec => []KeysAreWatched
<1>1. IInv => KeysAreWatched
  BY DEF IInv
<1> QED BY <1>1, Inductive, PTL

\* startListen loses no socket and closes none it still watches.
THEOREM SocketsAlwaysAccounted == Spec => []SocketsAccounted
<1>1. IInv => SocketsAccounted
  BY DEF IInv
<1> QED BY <1>1, Inductive, PTL

\* max_sd is the maximum of master_set at every select, and during every scan.
THEOREM MaximumAlwaysCovers == Spec => []MaxCovers
<1>1. IInv => MaxCovers
  BY DEF IInv
<1> QED BY <1>1, Inductive, PTL

-----------------------------------------------------------------------------
\* No step gives a user a state out of turn.
LEMMA StatusStep ==
    ASSUME IInv, [Next]_vars, NEW fd \in Fd
    PROVE  \/ localFdMap'[fd] \in {"none", localFdMap[fd]}
           \/ localFdMap[fd] = "none" /\ localFdMap'[fd] = "waiting"
           \/ localFdMap[fd] = "waiting" /\ localFdMap'[fd] = "prepared"
<1> USE DEF IInv, TypeOK
<1>1. CASE UNCHANGED localFdMap
  BY <1>1
<1>2. CASE LaunchStep
  <2>1. UNCHANGED localFdMap \/ localFdMap' = [g \in Fd |-> "none"]
    BY <1>2 DEF LaunchStep, Connect, ConnectFails, StartListen, BindFails, SocketFails, CloseTunnel
  <2> QED BY <2>1
<1>3. CASE AcceptStep
  <2>1. ASSUME NEW new \in Fd, Accepted(new), localFdMap' = [localFdMap EXCEPT ![new] = "waiting"]
        PROVE  \/ localFdMap'[fd] \in {"none", localFdMap[fd]}
               \/ localFdMap[fd] = "none" /\ localFdMap'[fd] = "waiting"
    <3>1. localFdMap[new] = "none"
      BY <2>1 DEF Accepted, LowestFree, KeysAreWatched, InLoop
    <3> QED BY <2>1, <3>1
  <2>2. CASE AcceptRefused
    BY <2>2 DEF AcceptRefused
  <2>3. CASE AcceptHalf \/ AcceptAgain \/ AcceptFails
    BY <2>3 DEF AcceptHalf, AcceptAgain, AcceptFails
  <2> QED BY <1>3, <2>1, <2>2, <2>3 DEF AcceptStep, AcceptUser
<1>4. CASE ScanStep
  <2>1. UNCHANGED localFdMap
          \/ \E g \in Fd : \/ localFdMap' = [localFdMap EXCEPT ![g] = "none"]
                           \/ localFdMap[g] = "waiting"
                              /\ localFdMap' = [localFdMap EXCEPT ![g] = "prepared"]
    BY <1>4 DEF ScanStep, Listen, ServerNothing, ServerReply, ServerTrafficFails, UserData,
                UserGone, UserDataFails, PassDone, Forget
  <2> QED BY <2>1
<1>5. CASE Select \/ SelectFails \/ Ended \/ UNCHANGED vars
  BY <1>5 DEF Select, SelectFails, Ended, vars
<1> QED BY <1>1, <1>2, <1>3, <1>4, <1>5 DEF Next

\* A user's state steps from none to waiting to prepared, and back to none.
THEOREM StatusAlwaysSteps == Spec => StatusSteps
<1>1. IInv /\ [Next]_vars =>
        [\A fd \in Fd : StepsOf(fd) \in
            {<<"none", "waiting">>, <<"waiting", "prepared">>}
              \cup {<<s, "none">> : s \in Status} \cup {<<s, s>> : s \in Status}]_vars
  <2> SUFFICES ASSUME IInv, [Next]_vars, NEW fd \in Fd
               PROVE  StepsOf(fd) \in {<<"none", "waiting">>, <<"waiting", "prepared">>}
                        \cup {<<s, "none">> : s \in Status} \cup {<<s, s>> : s \in Status}
    OBVIOUS
  <2>1. localFdMap[fd] \in Status
    BY DEF IInv, TypeOK
  <2> QED BY <2>1, StatusStep DEF StepsOf
<1> QED BY <1>1, Inductive, PTL DEF Spec, StatusSteps
=============================================================================
