----------------------------- MODULE ClientLoop -----------------------------
(***************************************************************************)
(* The proxy client (launch_client and startListen, src/proxyclient.cpp):  *)
(* it connects to the server, opens a listening socket for local users and *)
(* serves both from one select loop.  localFdMap has the state of the      *)
(* users' connections, master_set the descriptors to watch.                *)
(*                                                                         *)
(* What the tunnel and the users send is abstracted: a packet is a reply or *)
(* a traffic reply that names a localFd, a user's bytes are data.  The      *)
(* sequence numbers are the subject of Tunnel.tla.                          *)
(***************************************************************************)
EXTENDS FdSets

CONSTANTS
    Fd,         \* descriptor numbers the process can be given
    ServerFd,   \* SocketPlugin's socket, the tunnel
    NoFd        \* no listening socket yet

ASSUME ServerFdAssumption == ServerFd \in 1 .. FdSetSize - 1

\* The tunnel's socket is the first of the process; once closed its number is
\* the lowest free one again, so the next tunnel's is the same.
ASSUME FdAssumption == Fd \subseteq ServerFd + 1 .. FdSetSize - 1

ASSUME NoFdAssumption == NoFd \notin Fd \cup {ServerFd}

VARIABLES
    open,       \* sockets of the process the kernel has open
    listenSd,   \* listen_sd; the process holds the port from then on
    localFdMap, \* localFd -> LocalFdWaiting, LocalFdPrepared or no such key
    masterSet,  \* master_set
    maxSd,      \* max_sd
    working,    \* bits of working_set the scan has not come to
    endLoop,    \* endLoop
    pc,         \* where the thread is
    kept,       \* history: sockets open before this startListen, the tunnel's apart
    fresh       \* history: sockets accepted in this pass

vars == <<open, listenSd, localFdMap, masterSet, maxSd, working, endLoop, pc, kept, fresh>>

session == <<listenSd, kept>>

Status == {"none", "waiting", "prepared"}
InLoop == pc \in {"select", "scan", "accept"}

LowestFree(fd) == fd \in Fd \ open /\ \A g \in Fd \ open : fd <= g

-----------------------------------------------------------------------------
(* launch_client: one tunnel after another, each with a startListen.       *)

\* connectSocket and the handshake succeed.
Connect ==
    /\ pc = "connect"
    /\ open' = open \cup {ServerFd}
    /\ pc' = "listen"
    /\ UNCHANGED <<session, localFdMap, masterSet, maxSd, working, endLoop, fresh>>

\* `break` when the server cannot be reached, `return shakeCode`: the end.
ConnectFails ==
    /\ pc = "connect"
    /\ open' = {}
    /\ pc' = "ended"
    /\ UNCHANGED <<session, localFdMap, masterSet, maxSd, working, endLoop, fresh>>

\* make_socket and listen succeed: the process does not hold the port already.
StartListen ==
    /\ pc = "listen"
    /\ listenSd = NoFd
    /\ \E new \in Fd :
          /\ LowestFree(new)
          /\ listenSd' = new
          /\ kept' = open \ {ServerFd}
          /\ open' = open \cup {new}
          /\ masterSet' = {new, ServerFd}
          /\ maxSd' = Larger(new, ServerFd)
    /\ localFdMap' = [fd \in Fd |-> "none"]
    /\ endLoop' = FALSE
    /\ pc' = "select"
    /\ UNCHANGED <<working, fresh>>

\* bind fails, and make_socket returns without closing its socket.
BindFails ==
    /\ pc = "listen"
    /\ \E new \in Fd : LowestFree(new) /\ open' = open \cup {new}
    /\ pc' = "returned"
    /\ UNCHANGED <<session, localFdMap, masterSet, maxSd, working, endLoop, fresh>>

\* socket, setsockopt, ioctl or listen fails: nothing is left open.
SocketFails ==
    /\ pc = "listen"
    /\ pc' = "returned"
    /\ UNCHANGED <<open, session, localFdMap, masterSet, maxSd, working, endLoop, fresh>>

\* startListen has returned: closeSocket, 20 ms of sleep, and again.
CloseTunnel ==
    /\ pc = "returned"
    /\ open' = open \ {ServerFd}
    /\ pc' = "connect"
    /\ UNCHANGED <<session, localFdMap, masterSet, maxSd, working, endLoop, fresh>>

-----------------------------------------------------------------------------
(* startListen's loop.                                                     *)

\* Slips of that clean-up: the key stays in localFdMap; the socket stays open.
ForgetBit(fd) ==
    /\ open' = open \ {fd}
    /\ masterSet' = masterSet \ {fd}
    /\ maxSd' = IF fd = maxSd THEN Lowered(maxSd, masterSet') ELSE maxSd
    /\ UNCHANGED localFdMap

ForgetSocket(fd) ==
    /\ masterSet' = masterSet \ {fd}
    /\ maxSd' = IF fd = maxSd THEN Lowered(maxSd, masterSet') ELSE maxSd
    /\ localFdMap' = [localFdMap EXCEPT ![fd] = "none"]
    /\ UNCHANGED open

\* close, FD_CLR, the maximum walked down, localFdMap.erase.
Forget(fd) ==
    /\ open' = open \ {fd}
    /\ masterSet' = masterSet \ {fd}
    /\ maxSd' = IF fd = maxSd THEN Lowered(maxSd, masterSet') ELSE maxSd
    /\ localFdMap' = [localFdMap EXCEPT ![fd] = "none"]

Select ==
    /\ pc = "select"
    /\ \E ready \in SUBSET masterSet : ready # {} /\ working' = ready
    /\ pc' = "scan"
    /\ UNCHANGED <<open, session, localFdMap, masterSet, maxSd, endLoop, fresh>>

\* `return -4`, with every socket left open.
SelectFails ==
    /\ pc = "select"
    /\ pc' = "returned"
    /\ UNCHANGED <<open, session, localFdMap, masterSet, maxSd, working, endLoop, fresh>>

Remaining == {fd \in working : fd <= maxSd}
Turn(fd) == pc = "scan" /\ fd \in Remaining /\ \A g \in Remaining : fd <= g
Done(fd) == working' = working \ {fd}

Listen ==
    /\ Turn(listenSd)
    /\ Done(listenSd)
    /\ pc' = "accept"
    /\ UNCHANGED <<open, session, localFdMap, masterSet, maxSd, endLoop, fresh>>

\* accept gives the thread a connection of a user.
Accepted(new) ==
    /\ pc = "accept"
    /\ LowestFree(new)
    /\ open' = open \cup {new}
    /\ masterSet' = masterSet \cup {new}
    /\ maxSd' = Larger(maxSd, new)
    /\ fresh' = fresh \cup {new}
    /\ UNCHANGED <<session, working, endLoop, pc>>

\* socksHandShake reads the user's request and sends it to the server.
AcceptUser == \E new \in Fd :
    /\ Accepted(new)
    /\ localFdMap' = [localFdMap EXCEPT ![new] = "waiting"]

\* socksHandShake gives up and returns a count that is not negative (the methods
\* cut short, an unknown address type): the connection stays, without a key.
AcceptHalf == \E new \in Fd :
    /\ Accepted(new)
    /\ UNCHANGED localFdMap

\* socksHandShake returns an error: the descriptor comes and goes.
AcceptRefused ==
    /\ pc = "accept"
    /\ \E new \in Fd :
          /\ LowestFree(new)
          /\ LET raised == Larger(maxSd, new) IN
             maxSd' = IF new = raised THEN Lowered(raised, masterSet) ELSE raised
          /\ localFdMap' = [localFdMap EXCEPT ![new] = "none"]
    /\ UNCHANGED <<open, session, masterSet, working, endLoop, pc, fresh>>

\* EAGAIN.
AcceptAgain ==
    /\ pc = "accept"
    /\ pc' = "scan"
    /\ UNCHANGED <<open, session, localFdMap, masterSet, maxSd, working, endLoop, fresh>>

AcceptFails ==
    /\ pc = "accept"
    /\ endLoop' = TRUE
    /\ pc' = "scan"
    /\ UNCHANGED <<open, session, localFdMap, masterSet, maxSd, working, fresh>>

\* readAndHandleFromServer, whose result is not looked at.
FromServer == Turn(ServerFd) /\ Done(ServerFd) /\ UNCHANGED <<session, endLoop, pc, fresh>>

\* recvMessage fails (the end of the tunnel, too), a message for a localFd that is
\* unknown or not in the state it has to be in, or data written to its user.
ServerNothing ==
    /\ FromServer
    /\ UNCHANGED <<open, localFdMap, masterSet, maxSd>>

\* A slip: the state is not asked for.
AnyReply(fd) ==
    /\ FromServer
    /\ localFdMap' = [localFdMap EXCEPT ![fd] = "prepared"]
    /\ UNCHANGED <<open, masterSet, maxSd>>

\* The reply to a request, good or bad; written to the user or not.
ServerReply(fd) ==
    /\ FromServer
    /\ localFdMap[fd] = "waiting"
    /\ localFdMap' = [localFdMap EXCEPT ![fd] = "prepared"]
    /\ UNCHANGED <<open, masterSet, maxSd>>

\* Data that cannot be written to its user.
ServerTrafficFails(fd) ==
    /\ FromServer
    /\ localFdMap[fd] = "prepared"
    /\ Forget(fd)

UserTurn(fd) == fd \notin {listenSd, ServerFd} /\ Turn(fd) /\ Done(fd)

\* The user's bytes are sent to the server, whatever the state of the user is.
UserData(fd) ==
    /\ UserTurn(fd)
    /\ fd \in open
    /\ UNCHANGED <<open, session, localFdMap, masterSet, maxSd, endLoop, pc, fresh>>

\* recv returns 0 or an error, that of a closed descriptor too.
UserGone(fd) ==
    /\ UserTurn(fd)
    /\ Forget(fd)
    /\ UNCHANGED <<session, endLoop, pc, fresh>>

\* sendRequestMsg fails: `return sendCode`, with every socket left open.
UserDataFails(fd) ==
    /\ fd \in open
    /\ fd \notin {listenSd, ServerFd}
    /\ Turn(fd)
    /\ working' = {}
    /\ fresh' = {}
    /\ pc' = "returned"
    /\ UNCHANGED <<open, session, localFdMap, masterSet, maxSd, endLoop>>

\* `while (!endLoop)`; listen_sd is not closed.
PassDone ==
    /\ pc = "scan"
    /\ Remaining = {}
    /\ working' = {}
    /\ fresh' = {}
    /\ pc' = IF endLoop THEN "returned" ELSE "select"
    /\ UNCHANGED <<open, session, localFdMap, masterSet, maxSd, endLoop>>

Ended == pc = "ended" /\ UNCHANGED vars

-----------------------------------------------------------------------------
Init ==
    /\ open = {}
    /\ listenSd = NoFd
    /\ localFdMap = [fd \in Fd |-> "none"]
    /\ masterSet = {}
    /\ maxSd = ServerFd
    /\ working = {}
    /\ endLoop = FALSE
    /\ pc = "connect"
    /\ kept = {}
    /\ fresh = {}

LaunchStep ==
    Connect \/ ConnectFails \/ StartListen \/ BindFails \/ SocketFails \/ CloseTunnel

AcceptStep == AcceptUser \/ AcceptHalf \/ AcceptRefused \/ AcceptAgain \/ AcceptFails

ScanStep ==
    \/ Listen
    \/ ServerNothing
    \/ \E fd \in Fd :
          ServerReply(fd) \/ ServerTrafficFails(fd)
             \/ UserData(fd) \/ UserGone(fd) \/ UserDataFails(fd)
    \/ PassDone

Next == LaunchStep \/ Select \/ SelectFails \/ AcceptStep \/ ScanStep \/ Ended

Spec == Init /\ [][Next]_vars

-----------------------------------------------------------------------------
(* Properties.                                                             *)

\* Every variable has a value of its type.
TypeOK ==
    /\ open \subseteq Fd \cup {ServerFd}
    /\ listenSd \in Fd \cup {NoFd}
    /\ localFdMap \in [Fd -> Status]
    /\ masterSet \subseteq Fd \cup {ServerFd}
    /\ maxSd \in Fd \cup {ServerFd}
    /\ working \subseteq Fd \cup {ServerFd}
    /\ endLoop \in BOOLEAN
    /\ pc \in {"connect", "listen", "select", "scan", "accept", "returned", "ended"}
    /\ kept \subseteq Fd
    /\ fresh \subseteq Fd

\* A localFd the map knows is a user's connection, open and watched: no path that
\* closes one leaves a key behind for the next user who is given its number
\* (the three clean-ups of startListen and readAndHandleFromServer).
KeysAreWatched ==
    InLoop => \A fd \in Fd : localFdMap[fd] # "none" => fd \in (masterSet \cap open) \ {listenSd}

\* The loop watches exactly the sockets the process has open, but for those that
\* earlier sessions left behind: nothing is lost while startListen runs, and
\* the listening socket and the tunnel are never closed under it.
SocketsAccounted ==
    InLoop =>
        /\ open = masterSet \cup kept
        /\ masterSet \cap kept = {}
        /\ {listenSd, ServerFd} \subseteq masterSet

\* max_sd is the highest watched descriptor, after a handshake that failed and
\* after each of the clean-ups: select sees every socket, and the scan reaches it.
MaxCovers ==
    InLoop => maxSd \in masterSet /\ \A fd \in masterSet : fd <= maxSd

StepsOf(fd) == <<localFdMap[fd], localFdMap'[fd]>>

\* A user's state goes from none to waiting to prepared and ends at none: a user who
\* is given the number of an earlier one does not take over its state, and only
\* a user who asked is answered.
StatusSteps ==
    [][\A fd \in Fd : StepsOf(fd) \in
           {<<"none", "waiting">>, <<"waiting", "prepared">>}
             \cup {<<s, "none">> : s \in Status} \cup {<<s, s>> : s \in Status}]_vars

\* startListen is given an open tunnel, and its scan never comes to a socket of an
\* earlier session; before and after it nothing is left to scan.
ScanInv ==
    /\ pc = "listen" => ServerFd \in open
    /\ IF pc \in {"scan", "accept"} THEN working \cap kept = {} ELSE working = {}

\* The invariants, with what makes them inductive.
IInv == TypeOK /\ KeysAreWatched /\ SocketsAccounted /\ MaxCovers /\ ScanInv

\* "Fd %d is ready" (src/proxyclient.cpp:530) of the users the scan is to read: none
\* was accepted after the select whose answer the scan goes through.
ReadyUsersOnly == \A fd \in fresh : ~ (Turn(fd) /\ fd # listenSd)
=============================================================================
