----------------------------- MODULE ServerLoop -----------------------------
(***************************************************************************)
(* The proxy server's select loop (launch_server, src/proxyserver.cpp):    *)
(* one thread that serves the listening socket, the tunnels of the clients *)
(* and the connections to the hosts the clients asked for.  It keeps two   *)
(* tables (clientMap with one SocketMap per client, and h2lMap), two       *)
(* descriptor sets with their maxima, and the bits the last select left to *)
(* be scanned; every handler has to keep all of them in step.              *)
(*                                                                         *)
(* A table is a total function: an absent key has the value NoFd, NoHost   *)
(* or age 0.  Bytes are abstracted: a message is its kind and the localFd  *)
(* it names, a write buffer is empty or not (pending).  Sequence numbers   *)
(* are the subject of Tunnel.tla, the select timeout of SelectTimer.tla.   *)
(***************************************************************************)
EXTENDS FdSets

CONSTANTS
    Fd,             \* descriptor numbers the process can be given
    ListenSd,       \* listen_sd
    LocalFd,        \* the client side's descriptor numbers, as sent in messages
    NoHost,         \* h2lMap has no such key
    NoLocal,        \* a message that names no localFd
    ClientTimeOut,  \* constants::ClientTimeOutSeconds
    SocketTimeOut   \* constants::SocketTimeOutSeconds

\* sMap has no such key: smaller than every descriptor.
NoFd == -1

HostEntry == [clientFd : Fd, localFd : LocalFd]

ASSUME ListenSdAssumption == ListenSd \in 1 .. FdSetSize - 1

\* listen_sd is the first socket of the process and is never closed, so the
\* kernel, which gives the lowest free number, gives no smaller one later.
ASSUME FdAssumption == Fd \subseteq ListenSd + 1 .. FdSetSize - 1

ASSUME AbsentAssumption == NoHost \notin HostEntry /\ NoLocal \notin LocalFd

ASSUME TimeOutAssumption == ClientTimeOut \in Nat /\ SocketTimeOut \in Nat

VARIABLES
    clientMap,   \* keys of clientMap: descriptors with a finished handshake
    clientAge,   \* seconds since ClientNode.lastTime
    sMap,        \* per client, localFd -> SocketNode.sockFd
    sockAge,     \* seconds since SocketNode.lastTime
    h2lMap,      \* host descriptor -> HostNode
    hostAge,     \* seconds since HostNode.lastTime
    pending,     \* hosts whose writeBuf is not empty
    open,        \* sockets of the process the kernel has open
    readSet,     \* master_set
    writeSet,    \* write_src_set
    maxRead, maxWrite, maxAll,
    working,     \* bits of working_set the scan has not come to
    tempWrite,   \* bits of temp_write_set the scan has not come to
    endServer,   \* end_server
    out,         \* the message sendData was called with, NoMsg outside of it
    pc,          \* where in the loop the thread is
    reused,      \* history: a connect replaced a live entry of an sMap
    fresh        \* history: sockets opened in this pass

tables  == <<clientMap, clientAge, sMap, sockAge, h2lMap, hostAge, pending>>
fdSets  == <<open, readSet, writeSet, maxRead, maxWrite, maxAll>>
scan    == <<working, tempWrite>>
vars    == <<tables, fdSets, scan, endServer, out, pc, reused, fresh>>

-----------------------------------------------------------------------------
Hosts == {h \in Fd : h2lMap[h] # NoHost}

\* The entries <<client, localFd>> of all the SocketMaps.
Socks == {s \in clientMap \X LocalFd : sMap[s[1]][s[2]] # NoFd}

\* A slip: localFd taken for a key that is unique among all clients.
SocksNamedAlike(c) == {s \in Socks : sMap[c][s[2]] # NoFd}

SocksOf(c) == {s \in Socks : s[1] = c}
HostsAt(socks) == {sMap[s[1]][s[2]] : s \in socks}
EntryOf(h) == <<h2lMap[h].clientFd, h2lMap[h].localFd>>

NoMsg == [kind |-> "none"]
\* SocksTcpReplyMsg: what a request is answered with.
Reply(c, l, ok) == [kind |-> "reply", to |-> c, localFd |-> l, ok |-> ok]
\* SocksTrafficReplyMsg: what host h sent; closing says that h is closed after it.
Traffic(c, l, h, closing) ==
    [kind |-> "traffic", to |-> c, localFd |-> l, host |-> h, closing |-> closing]

Message ==
    [kind : {"none"}]
      \cup [kind : {"reply"}, to : Fd, localFd : LocalFd \cup {NoLocal}, ok : BOOLEAN]
      \cup [kind : {"traffic"}, to : Fd, localFd : LocalFd \cup {NoLocal},
            host : Fd, closing : BOOLEAN]

\* "noclient" and "badindex" are the two null ClientNode pointers the code can
\* follow: clientMap[c] of a client that is gone, and clientMap[i] of a host.
Crashed == {"noclient", "badindex"}
Locations == {"select", "scan", "accept", "send", "exit", "done"} \cup Crashed
Running == pc \notin Crashed \cup {"done"}

LowestFree(fd) == fd \in Fd \ open /\ \A g \in Fd \ open : fd <= g

-----------------------------------------------------------------------------
(* Bookkeeping shared by the handlers.                                     *)

\* The process follows a null pointer and dies: its memory is gone, and the kernel
\* closes all its sockets, so that every tunnel and every host's connection ends.
Dies(place) ==
    /\ pc' = place
    /\ open' = {}
    /\ readSet' = {ListenSd} /\ writeSet' = {}
    /\ maxRead' = ListenSd /\ maxWrite' = 0 /\ maxAll' = ListenSd
    /\ clientMap' = {}
    /\ sMap' = [c \in Fd |-> [l \in LocalFd |-> NoFd]]
    /\ h2lMap' = [h \in Fd |-> NoHost]
    /\ pending' = {}
    /\ clientAge' = [c \in Fd |-> 0]
    /\ sockAge' = [c \in Fd |-> [l \in LocalFd |-> 0]]
    /\ hostAge' = [h \in Fd |-> 0]

\* A slip: a host is taken out of the sets the way a client is.
EraseAllAsClients(hosts, clients) ==
    /\ open' = open \ (hosts \cup clients)
    /\ readSet' = readSet \ (hosts \cup clients)
    /\ maxRead' = Lowered(maxRead, readSet')
    /\ maxAll' = Larger(maxRead', maxWrite)
    /\ UNCHANGED <<writeSet, maxWrite>>

\* eraseHostFromFdSets for each of hosts and eraseClientFromFdSet for each of
\* clients: a host is closed only if its write bit is set; the write maximum
\* may come down to 0, the read maximum stops at listen_sd.
EraseFromFdSets(hosts, clients) ==
    LET gone == hosts \cup clients IN
    /\ open' = open \ ((hosts \cap writeSet) \cup clients)
    /\ readSet' = readSet \ gone
    /\ writeSet' = writeSet \ hosts
    /\ maxRead' = IF maxRead \in gone THEN Lowered(maxRead, readSet') ELSE maxRead
    /\ maxWrite' = IF maxWrite \in hosts \cap writeSet
                   THEN Lowered(maxWrite, writeSet' \cup {0}) ELSE maxWrite
    /\ maxAll' = Larger(maxRead', maxWrite')

\* h2lMap.erase, sMap.erase and clientMap.erase of the given keys.
EraseFromTables(hosts, socks, clients) ==
    LET goneSock(c, l) == c \in clients \/ <<c, l>> \in socks IN
    /\ clientMap' = clientMap \ clients
    /\ sMap' = [c \in Fd |-> [l \in LocalFd |->
                    IF goneSock(c, l) THEN NoFd ELSE sMap[c][l]]]
    /\ sockAge' = [c \in Fd |-> [l \in LocalFd |->
                    IF goneSock(c, l) THEN 0 ELSE sockAge[c][l]]]
    /\ h2lMap' = [h \in Fd |-> IF h \in hosts THEN NoHost ELSE h2lMap[h]]
    /\ hostAge' = [h \in Fd |-> IF h \in hosts THEN 0 ELSE hostAge[h]]
    /\ pending' = pending \ hosts

\* A slip: the client's map keeps the entry of the closed host.
CloseHostOnly(h) ==
    /\ EraseFromTables({h}, {}, {})
    /\ EraseFromFdSets({h}, {})
    /\ clientAge' = clientAge
    /\ pc' = "scan"

\* Close a host and forget it: `clientMap[clientFd]->sMap.erase(localFd)` needs
\* the client, and erases whatever the client's map now has under localFd.
CloseHost(h) ==
    IF EntryOf(h)[1] \in clientMap
    THEN /\ EraseFromTables({h}, {EntryOf(h)}, {})
         /\ EraseFromFdSets({h}, {})
         /\ clientAge' = clientAge
         /\ pc' = "scan"
    ELSE Dies("noclient")

\* A slip: the hosts of the client stay open (as in the code commented out at
\* src/proxyserver.cpp:770-779).
DropClientOnly(c) ==
    /\ EraseFromTables({}, {}, {c})
    /\ EraseFromFdSets({}, {c})
    /\ clientAge' = [clientAge EXCEPT ![c] = 0]

\* Close a client and every host its map names (cleanDeadLocalFds, forced).
DropClient(c) ==
    /\ EraseFromTables(HostsAt(SocksOf(c)), SocksOf(c), {c})
    /\ EraseFromFdSets(HostsAt(SocksOf(c)), {c})
    /\ clientAge' = [clientAge EXCEPT ![c] = 0]

-----------------------------------------------------------------------------
(* select and the scan of its result.                                      *)

\* select returns some ready descriptors.
Select ==
    /\ pc = "select"
    /\ \E r \in SUBSET readSet, w \in SUBSET writeSet :
          /\ r \cup w # {}
          /\ working' = r
          /\ tempWrite' = w
    /\ pc' = "scan"
    /\ UNCHANGED <<tables, fdSets, endServer, out, reused, fresh>>

\* Nothing is ready in time: `continue`, past both clean-ups.
SelectTimesOut ==
    /\ pc = "select"
    /\ UNCHANGED vars

SelectFails ==
    /\ pc = "select"
    /\ pc' = "exit"
    /\ UNCHANGED <<tables, fdSets, scan, endServer, out, reused, fresh>>

\* `i <= max_all_sd && desc_ready > 0`, read each time round the loop.
Remaining == {fd \in working \cup tempWrite : fd <= maxAll}

\* A slip: the scan goes down from the maximum.
FromTheTop(fd) == pc = "scan" /\ fd \in Remaining /\ \A g \in Remaining : g <= fd

Here(fd) == pc = "scan" /\ fd \in Remaining /\ \A g \in Remaining : fd <= g
ReadTurn(fd)  == Here(fd) /\ fd \in working
WriteTurn(fd) == Here(fd) /\ fd \notin working

ReadDone(fd)  == working' = working \ {fd} /\ tempWrite' = tempWrite
WriteDone(fd) == tempWrite' = tempWrite \ {fd} /\ working' = working

-----------------------------------------------------------------------------
(* The listening socket.                                                   *)

Listen ==
    /\ ReadTurn(ListenSd)
    /\ ReadDone(ListenSd)
    /\ pc' = "accept"
    /\ UNCHANGED <<tables, fdSets, endServer, out, reused, fresh>>

\* accept succeeds and the three handshake messages are exchanged.
AcceptClient ==
    /\ pc = "accept"
    /\ \E new \in Fd :
          /\ LowestFree(new)
          /\ open' = open \cup {new}
          /\ readSet' = readSet \cup {new}
          /\ maxRead' = Larger(maxRead, new)
          /\ maxAll' = Larger(maxAll, new)
          /\ clientMap' = clientMap \cup {new}
          /\ clientAge' = [clientAge EXCEPT ![new] = 0]
          /\ sMap' = [sMap EXCEPT ![new] = [l \in LocalFd |-> NoFd]]
          /\ sockAge' = [sockAge EXCEPT ![new] = [l \in LocalFd |-> 0]]
          /\ fresh' = fresh \cup {new}
    /\ UNCHANGED <<h2lMap, hostAge, pending, writeSet, maxWrite, scan,
                   endServer, out, pc, reused>>

\* accept succeeds, the handshake does not: the descriptor comes and goes.
AcceptHandshakeFails ==
    /\ pc = "accept"
    /\ \E new \in Fd :
          /\ LowestFree(new)
          /\ LET raised == Larger(maxRead, new) IN
             /\ maxRead' = IF new = raised THEN Lowered(raised, readSet) ELSE raised
             /\ maxAll' = Larger(maxRead', maxWrite)
    /\ UNCHANGED <<tables, open, readSet, writeSet, maxWrite, scan, endServer,
                   out, pc, reused, fresh>>

\* EAGAIN: every queued connection has been accepted.
AcceptAgain ==
    /\ pc = "accept"
    /\ pc' = "scan"
    /\ UNCHANGED <<tables, fdSets, scan, endServer, out, reused, fresh>>

\* Any other errno (EMFILE, ECONNABORTED, ...) ends the server after this pass.
AcceptFails ==
    /\ pc = "accept"
    /\ endServer' = TRUE
    /\ pc' = "scan"
    /\ UNCHANGED <<tables, fdSets, scan, out, reused, fresh>>

-----------------------------------------------------------------------------
(* A client's tunnel is readable: recvAndHandleClientData reads one packet. *)

ClientTurn(c) == c \in clientMap /\ ReadTurn(c)
\* recvData accepted the packet.
Received(c) == ClientTurn(c) /\ ReadDone(c) /\ clientAge' = [clientAge EXCEPT ![c] = 0]

\* recvData fails (end of stream, bad packet or sequence number), or a traffic
\* message is too short to hold a localFd.
ReceiveFails(c) ==
    /\ ClientTurn(c)
    /\ ReadDone(c)
    /\ DropClient(c)
    /\ UNCHANGED <<endServer, out, pc, reused, fresh>>

\* A request that is not CONNECT or that does not parse: localFd stays -1.
Refuse(c) ==
    /\ Received(c)
    /\ out' = Reply(c, NoLocal, FALSE)
    /\ pc' = "send"
    /\ UNCHANGED <<clientMap, sMap, sockAge, h2lMap, hostAge, pending, fdSets,
                   endServer, reused, fresh>>

\* tryConnectSocket fails: no route, refused, timed out, no descriptor.
ConnectFails(c, l) ==
    /\ Received(c)
    /\ out' = Reply(c, l, FALSE)
    /\ pc' = "send"
    /\ UNCHANGED <<clientMap, sMap, sockAge, h2lMap, hostAge, pending, fdSets,
                   endServer, reused, fresh>>

\* tryConnectSocket succeeds.  The assignment to (*l2hMap)[localFd] replaces an
\* entry that is already there; the host it named keeps its place in h2lMap.
Connect(c, l) ==
    /\ Received(c)
    /\ \E new \in Fd :
          /\ LowestFree(new)
          /\ sMap' = [sMap EXCEPT ![c][l] = new]
          /\ h2lMap' = [h2lMap EXCEPT ![new] = [clientFd |-> c, localFd |-> l]]
          /\ open' = open \cup {new}
          /\ readSet' = readSet \cup {new}
          /\ writeSet' = writeSet \cup {new}
          /\ maxRead' = Larger(maxRead, new)
          /\ maxWrite' = Larger(maxWrite, new)
          /\ hostAge' = [hostAge EXCEPT ![new] = 0]
          /\ pending' = pending \ {new}
          /\ fresh' = fresh \cup {new}
    /\ sockAge' = [sockAge EXCEPT ![c][l] = 0]
    /\ maxAll' = Larger(maxRead', maxWrite')
    /\ reused' = (reused \/ sMap[c][l] # NoFd)
    /\ out' = Reply(c, l, TRUE)
    /\ pc' = "send"
    /\ UNCHANGED <<clientMap, endServer>>

\* Traffic for a connection the client has: queued for the host (an empty
\* payload leaves writeBuf as it was); only SocketNode.lastTime is refreshed.
Upload(c, l) ==
    /\ Received(c)
    /\ sMap[c][l] # NoFd
    /\ pending' \in {pending, pending \cup {sMap[c][l]}}
    /\ sockAge' = [sockAge EXCEPT ![c][l] = 0]
    /\ UNCHANGED <<clientMap, sMap, h2lMap, hostAge, fdSets, endServer, out, pc,
                   reused, fresh>>

\* Traffic for a localFd the client's map does not have, or a debug message.
Ignore(c) ==
    /\ Received(c)
    /\ UNCHANGED <<clientMap, sMap, sockAge, h2lMap, hostAge, pending, fdSets,
                   endServer, out, pc, reused, fresh>>

-----------------------------------------------------------------------------
(* A host's connection is readable.                                        *)

HostTurn(h) == h \in Hosts /\ h \notin clientMap /\ ReadTurn(h)

\* recv returns 0.
HostEof(h) ==
    /\ HostTurn(h)
    /\ ReadDone(h)
    /\ CloseHost(h)
    /\ UNCHANGED <<endServer, out, reused, fresh>>

\* recv returns data, or fails: the branch for rc < 0 is the else of
\* `if (rc == 0)`, so rc + 4 = 3 bytes of the localFd header are sent.  An
\* error other than EAGAIN closes the host once they are sent.
HostRead(h) ==
    /\ HostTurn(h)
    /\ ReadDone(h)
    /\ LET c == EntryOf(h)[1]
           l == EntryOf(h)[2]
       IN  out' \in {Traffic(c, l, h, FALSE),          \* rc > 0
                     Traffic(c, NoLocal, h, FALSE),    \* EAGAIN
                     Traffic(c, NoLocal, h, TRUE)}     \* ECONNRESET and others
    /\ pc' = "send"
    /\ UNCHANGED <<tables, fdSets, endServer, reused, fresh>>

\* "not know what fd is": a bit of a socket the scan has closed on its way.
ReadUnknown(fd) ==
    /\ fd \notin clientMap \cup Hosts \cup {ListenSd}
    /\ ReadTurn(fd)
    /\ ReadDone(fd)
    /\ UNCHANGED <<tables, fdSets, endServer, out, pc, reused, fresh>>

-----------------------------------------------------------------------------
(* sendData, called by the two branches above.                             *)

\* The packet is written; a host whose recv had failed is closed now.
SendSucceeds ==
    /\ pc = "send"
    /\ out.to \in clientMap
    /\ IF out.kind = "traffic" /\ out.closing
       THEN /\ EraseFromTables({out.host}, {EntryOf(out.host)}, {})
            /\ EraseFromFdSets({out.host}, {})
       ELSE UNCHANGED <<clientMap, sMap, sockAge, h2lMap, hostAge, pending, fdSets>>
    /\ clientAge' = [clientAge EXCEPT ![out.to] = 0]
    /\ out' = NoMsg
    /\ pc' = "scan"
    /\ UNCHANGED <<scan, endServer, reused, fresh>>

\* A reply cannot be written: the client branch drops the client.
ReplyFails ==
    /\ pc = "send"
    /\ out.kind = "reply"
    /\ DropClient(out.to)
    /\ out' = NoMsg
    /\ pc' = "scan"
    /\ UNCHANGED <<scan, endServer, reused, fresh>>

\* Host data cannot be written: the host branch closes the host and then looks
\* for the client under the host's number, which clientMap does not have, and
\* dereferences the null it gets.  One client's failure ends all the others.
TrafficFails ==
    /\ pc = "send"
    /\ out.kind = "traffic"
    /\ out.to \in clientMap
    /\ out' = NoMsg
    /\ Dies("badindex")
    /\ UNCHANGED <<scan, endServer, reused, fresh>>

\* sendData to a client that is gone: cMap[sockFd] is a null pointer.
SendToNobody ==
    /\ pc = "send"
    /\ out.to \notin clientMap
    /\ out' = NoMsg
    /\ Dies("noclient")
    /\ UNCHANGED <<scan, endServer, reused, fresh>>

-----------------------------------------------------------------------------
(* A host's connection is writable.                                        *)

\* Everything queued is sent.
Flush(h) ==
    /\ WriteTurn(h)
    /\ WriteDone(h)
    /\ h \in pending
    /\ pending' = pending \ {h}
    /\ UNCHANGED <<clientMap, clientAge, sMap, sockAge, h2lMap, hostAge, fdSets,
                   endServer, out, pc, reused, fresh>>

\* Nothing is queued, part of it is sent, EAGAIN, or the host has been closed.
WriteSkip(fd) ==
    /\ WriteTurn(fd)
    /\ WriteDone(fd)
    /\ UNCHANGED <<tables, fdSets, endServer, out, pc, reused, fresh>>

\* send fails: the host is closed.
WriteFails(h) ==
    /\ WriteTurn(h)
    /\ WriteDone(h)
    /\ h \in pending
    /\ CloseHost(h)
    /\ UNCHANGED <<endServer, out, reused, fresh>>

-----------------------------------------------------------------------------
(* The end of a pass: cleanDeadClients, then cleanDeadHosts.               *)

DeadClients == {c \in clientMap : clientAge[c] > ClientTimeOut}

\* Entries cleanDeadLocalFds removes: all of a dead client's, or idle ones.
DeadSocks == {s \in Socks : s[1] \in DeadClients \/ sockAge[s[1]][s[2]] > SocketTimeOut}

\* A slip: only the entries of the SocketMaps are looked at.
NoDeadHosts == {}

\* A slip: >= for >.
DeadHostsEarly == {h \in Hosts \ HostsAt(DeadSocks) : hostAge[h] >= SocketTimeOut}

\* Hosts cleanDeadHosts removes: HostNode.lastTime is set by Connect only.
DeadHosts == {h \in Hosts \ HostsAt(DeadSocks) : hostAge[h] > SocketTimeOut}

\* A slip: the loop goes on whatever end_server says.
AlwaysAgain == "select"

\* `while (end_server == FALSE)`
AfterPass == IF endServer THEN "exit" ELSE "select"

PassDone == pc = "scan" /\ Remaining = {}

Clean ==
    /\ PassDone
    /\ \A h \in DeadHosts : EntryOf(h)[1] \in clientMap \ DeadClients
    /\ EraseFromTables(HostsAt(DeadSocks) \cup DeadHosts,
                       DeadSocks \cup {EntryOf(h) : h \in DeadHosts}, DeadClients)
    /\ EraseFromFdSets(HostsAt(DeadSocks) \cup DeadHosts, DeadClients)
    /\ clientAge' = [c \in Fd |-> IF c \in DeadClients THEN 0 ELSE clientAge[c]]
    /\ working' = {}
    /\ tempWrite' = {}
    /\ pc' = AfterPass
    /\ fresh' = {}
    /\ UNCHANGED <<endServer, out, reused>>

\* cMap[clientFd] of a host whose client is gone is a null pointer.
CleanFindsNobody ==
    /\ PassDone
    /\ \E h \in DeadHosts : EntryOf(h)[1] \notin clientMap \ DeadClients
    /\ Dies("noclient")
    /\ UNCHANGED <<scan, endServer, out, reused, fresh>>

\* A slip: the loop stops short of the maximum.
ClosedBelowMax == {fd \in readSet : fd < maxRead} \cup {fd \in writeSet : fd < maxWrite}

\* "Clean up all of the sockets that are open": the sets up to their maxima.
ClosedAtExit == {fd \in readSet : fd <= maxRead} \cup {fd \in writeSet : fd <= maxWrite}

Exit ==
    /\ pc = "exit"
    /\ open' = open \ ClosedAtExit
    /\ pc' = "done"
    /\ UNCHANGED <<tables, readSet, writeSet, maxRead, maxWrite, maxAll, scan,
                   endServer, out, reused, fresh>>

\* The program has ended or crashed.
Stopped == ~Running /\ UNCHANGED vars

-----------------------------------------------------------------------------
\* A second passes.  An age stops counting one past its timeout, where every
\* comparison the code makes with it has the same result for ever.
Older(age, timeOut) == IF age <= timeOut THEN age + 1 ELSE age

Tick ==
    /\ Running
    /\ clientAge' = [c \in Fd |-> IF c \in clientMap
                        THEN Older(clientAge[c], ClientTimeOut) ELSE clientAge[c]]
    /\ sockAge' = [c \in Fd |-> [l \in LocalFd |-> IF <<c, l>> \in Socks
                        THEN Older(sockAge[c][l], SocketTimeOut) ELSE sockAge[c][l]]]
    /\ hostAge' = [h \in Fd |-> IF h \in Hosts
                        THEN Older(hostAge[h], SocketTimeOut) ELSE hostAge[h]]
    /\ UNCHANGED <<clientMap, sMap, h2lMap, pending, fdSets, scan, endServer, out,
                   pc, reused, fresh>>

-----------------------------------------------------------------------------
Init ==
    /\ clientMap = {}
    /\ clientAge = [c \in Fd |-> 0]
    /\ sMap = [c \in Fd |-> [l \in LocalFd |-> NoFd]]
    /\ sockAge = [c \in Fd |-> [l \in LocalFd |-> 0]]
    /\ h2lMap = [h \in Fd |-> NoHost]
    /\ hostAge = [h \in Fd |-> 0]
    /\ pending = {}
    /\ open = {ListenSd}
    /\ readSet = {ListenSd}
    /\ writeSet = {}
    /\ maxRead = ListenSd
    /\ maxWrite = 0
    /\ maxAll = ListenSd
    /\ working = {}
    /\ tempWrite = {}
    /\ endServer = FALSE
    /\ out = NoMsg
    /\ pc = "select"
    /\ reused = FALSE
    /\ fresh = {}

ClientStep(c) ==
    \/ ReceiveFails(c)
    \/ Refuse(c)
    \/ Ignore(c)
    \/ \E l \in LocalFd : ConnectFails(c, l) \/ Connect(c, l) \/ Upload(c, l)

HostStep(h) == HostEof(h) \/ HostRead(h) \/ Flush(h) \/ WriteFails(h)

AcceptStep == AcceptClient \/ AcceptHandshakeFails \/ AcceptAgain \/ AcceptFails

SendStep == SendSucceeds \/ ReplyFails \/ TrafficFails \/ SendToNobody

\* The steps of one pass of the loop, from the scan to the clean-up.
ScanStep ==
    \/ Listen
    \/ \E fd \in Fd : ClientStep(fd) \/ HostStep(fd) \/ ReadUnknown(fd) \/ WriteSkip(fd)

PassStep == ScanStep \/ SendStep \/ Clean \/ CleanFindsNobody

\* The thread's steps.
Loop ==
    \/ Select \/ SelectTimesOut \/ SelectFails \/ AcceptStep \/ PassStep
    \/ Exit \/ Stopped

Next == Loop \/ Tick

Spec == Init /\ [][Next]_vars

\* Where others can hold the thread up, its sockets being blocking ones: for a ready
\* descriptor, for a new client's handshake, for room for a packet or the rest of one,
\* for a host that speaks (the bit may be stale) or that reads all it is sent.
Waiting ==
    \/ pc \in {"select", "accept", "send"}
    \/ \E fd \in Fd :
          ClientTurn(fd) \/ HostTurn(fd) \/ (WriteTurn(fd) /\ fd \in pending)

\* The thread runs on where nobody can hold it up, and only there.
Fairness == WF_vars(~Waiting /\ (ScanStep \/ Clean \/ CleanFindsNobody \/ Exit))

FairSpec == Spec /\ Fairness

-----------------------------------------------------------------------------
(* Properties.                                                             *)

TablesTypeOK ==
    /\ clientMap \subseteq Fd
    /\ clientAge \in [Fd -> 0 .. ClientTimeOut + 1]
    /\ sMap \in [Fd -> [LocalFd -> Fd \cup {NoFd}]]
    /\ sockAge \in [Fd -> [LocalFd -> 0 .. SocketTimeOut + 1]]
    /\ h2lMap \in [Fd -> HostEntry \cup {NoHost}]
    /\ hostAge \in [Fd -> 0 .. SocketTimeOut + 1]
    /\ pending \subseteq Fd

FdSetsTypeOK ==
    /\ open \subseteq Fd \cup {ListenSd}
    /\ readSet \subseteq Fd \cup {ListenSd}
    /\ writeSet \subseteq Fd
    /\ maxRead \in Fd \cup {ListenSd}
    /\ maxWrite \in Fd \cup {0}
    /\ maxAll \in Fd \cup {ListenSd}

LoopTypeOK ==
    /\ working \subseteq Fd \cup {ListenSd}
    /\ tempWrite \subseteq Fd
    /\ endServer \in BOOLEAN
    /\ out \in Message
    /\ (out # NoMsg) <=> (pc = "send")
    /\ pc \in Locations
    /\ reused \in BOOLEAN
    /\ fresh \subseteq Fd

\* The values the variables of launch_server take; a message is being sent
\* exactly while the thread is inside sendData.
TypeOK == TablesTypeOK /\ FdSetsTypeOK /\ LoopTypeOK

\* An entry of a client's SocketMap always names a host whose HostNode names
\* that client and localFd, so data queued by recvAndHandleClientData goes to
\* a connection of the client that sent it, even after entries were replaced;
\* a client that is gone has no entries its descriptor's next owner could use.
ForwardConsistent ==
    /\ \A c \in clientMap, l \in LocalFd :
          sMap[c][l] # NoFd => sMap[c][l] \in Hosts /\ EntryOf(sMap[c][l]) = <<c, l>>
    /\ \A c \in Fd \ clientMap, l \in LocalFd : sMap[c][l] = NoFd

\* No handler leaks a socket, closes one that the tables still use, or leaves
\* one out of select's sets: the open sockets are the listening socket, the
\* clients and the hosts; master_set has all, write_src_set the hosts.
DescriptorsAccounted ==
    /\ readSet = {ListenSd} \cup clientMap \cup Hosts
    /\ writeSet = Hosts
    /\ Running => open = readSet
    /\ clientMap \cap Hosts = {}
    /\ pending \subseteq Hosts

\* The maxima are the highest bits of their sets however sockets come and go,
\* so that select's first argument and the scan's bound cut off no socket.
MaxCovers ==
    /\ maxRead \in readSet /\ \A fd \in readSet : fd <= maxRead
    /\ maxWrite \in writeSet \cup {0} /\ \A fd \in writeSet : fd <= maxWrite
    /\ maxAll = Larger(maxRead, maxWrite)

\* As long as no client opens a localFd it has open already, the two tables
\* are each other's inverse: every host belongs to a client that is there and
\* that can reach it (so its data goes to the tunnel that asked for it).
TablesAgree ==
    ~reused => \A h \in Hosts : EntryOf(h) \in Socks /\ sMap[EntryOf(h)[1]][EntryOf(h)[2]] = h

\* The host branch, the write branch, sendData and cleanDeadHosts look up the
\* host's client without asking whether it is there: they find it, unless a
\* client has opened a localFd it had open already.
ClientFound == pc = "noclient" => reused

\* While sendData runs, the client it writes to and the host whose data it
\* writes are those the scan is at: the entries read before the call are valid
\* after it (`clientMap[clientSd]->sMap.erase(localFd)` of a failed host).
SendInStep ==
    pc = "send" =>
        /\ out.kind = "reply" => out.to \in clientMap
        /\ out.kind = "traffic" => out.host \in Hosts /\ out.to = EntryOf(out.host)[1]

\* The scan never comes to a bit of working_set that belongs to a client which
\* was accepted after select returned: such a client need not have sent anything,
\* and reading its first packet would hold up every other tunnel.
OnlyReadyClientsAreRead == working \cap fresh \cap clientMap = {}

\* Why that is so: listen_sd is the lowest descriptor, so the scan accepts
\* before it has closed anything, and no bit waits that is not of an open socket.
ListenComesFirst ==
    /\ ListenSd \in working => pc = "scan" /\ working \subseteq readSet
    /\ pc = "accept" => working \subseteq readSet
    /\ pc \in {"select", "exit"} => working = {} /\ tempWrite = {} /\ fresh = {}

\* The tables and the descriptor sets, whatever the thread is doing.
TablesInv == ForwardConsistent /\ DescriptorsAccounted /\ MaxCovers /\ TablesAgree

\* What holds of the tables at the point of the loop the thread is at.
LoopInv == ClientFound /\ SendInStep /\ OnlyReadyClientsAreRead /\ ListenComesFirst

\* Together they are inductive.
IInv == TypeOK /\ TablesInv /\ LoopInv

\* Why a step may drop client c, and why it may close host h.
DroppedForCause(c) ==
    \/ c \in working \ working'
    \/ pc = "send" /\ out.to = c
    \/ clientAge[c] > ClientTimeOut

CutForCause(h) ==
    \/ h \in (working \ working') \cup (tempWrite \ tempWrite')
    \/ pc = "send" /\ out.kind = "traffic" /\ out.host = h
    \/ EntryOf(h)[1] \notin clientMap'
    \/ hostAge[h] > SocketTimeOut
    \/ sockAge[EntryOf(h)[1]][EntryOf(h)[2]] > SocketTimeOut

\* The null pointers: of a host when its data cannot be sent, of a lost client.
DiesForCause ==
    \/ pc = "send" /\ out.kind = "traffic"
    \/ reused

\* While the process lives, a client is dropped only at its own turn, when its own
\* reply cannot be sent, or when idle too long; a host only with its client, at its
\* own turn, when it or its entry has run out of time.  The process itself, and with
\* it every tunnel, dies only of traffic that cannot be sent to one client, or
\* after a client has opened a localFd it had open already.
TunnelsIsolated ==
    [][/\ pc' \in Crashed => DiesForCause
       /\ pc' \notin Crashed =>
             /\ \A c \in clientMap \ clientMap' : DroppedForCause(c)
             /\ \A h \in Hosts \ Hosts' : CutForCause(h)]_vars

\* Counterexample wanted.  The host branch says what it does when a send fails:
\* "Close client: %d" (src/proxyserver.cpp:823), and nothing of other clients.
FailedSendClosesOneClient == [][pc = "send" => clientMap \ clientMap' \subseteq {out.to}]_vars

\* When launch_server returns, every socket it had has been closed.
EverythingClosed == pc = "done" => open = {}

\* Nobody holds the thread up for ever.
WaitsEnd == []<>~Waiting

\* A host connection that is past SocketTimeOutSeconds is closed in the end, however
\* busy it and the others keep the loop, unless the thread waits for ever: in a call
\* that does not return, or in select when all is silent, whose timeouts clean nothing.
ExpiredHostsAreCut ==
    WaitsEnd => \A h \in Fd : (h \in Hosts /\ hostAge[h] > SocketTimeOut)
                                 ~> (h \notin Hosts \/ hostAge[h] = 0 \/ pc = "done")

\* "Any other failure on accept will cause us to end the server"
\* (src/proxyserver.cpp:624), once the calls of the pass have returned.
AcceptFailureEnds == WaitsEnd => (endServer ~> ~Running)
=============================================================================
