------------------------------- MODULE Tunnel -------------------------------
(***************************************************************************)
(* The tunnels between the proxy clients and the server: the handshake of  *)
(* three packets (clientHandleShake, serverHandShake), the sequence numbers *)
(* of sendMessage/recvData and sendData/recvMessage, and the calls that     *)
(* block one end until the other reads, answers or closes.  The loops       *)
(* around them are the subject of ServerLoop.tla and ClientLoop.tla.        *)
(*                                                                         *)
(* A tunnel is a TCP connection: two queues of packets that keep their      *)
(* order.  Once it is cut -- an end closed it, or the network failed -- the *)
(* packets that have not arrived may be lost, the last one first; a send    *)
(* then goes nowhere or fails, and a read of an empty queue fails.          *)
(***************************************************************************)
EXTENDS Naturals, Sequences

CONSTANTS
    Client,         \* client processes
    MaxTunnels,     \* bound: tunnels each process opens one after another
    Capacity,       \* packets the kernel's buffers take in one direction
    ClientStart,    \* values of getRand63 at a client
    ServerStart,    \* values of getRand63 at the server
    MaxSeq,         \* bound: the last sequence number, either way, of each process
    NoNode          \* no entry in the server's clientMap

ASSUME MaxTunnelsAssumption == MaxTunnels \in [Client -> Nat]
ASSUME CapacityAssumption == Capacity \in Nat \ {0}
ASSUME StartAssumption == ClientStart \subseteq Nat /\ ServerStart \subseteq Nat
ASSUME MaxSeqAssumption == MaxSeq \in [Client -> Nat]
ASSUME NoNodeAssumption == NoNode \notin [cSeq : Nat, sSeq : Nat]

Tunnels == UNION {{p} \X (1 .. MaxTunnels[p]) : p \in Client}

VARIABLES
    at,         \* where each process is
    n,          \* the tunnels it has opened
    ctx,        \* its ClientContext: cSeq, sSeq
    served,     \* it has had a listening socket, which nothing closes
    srv,        \* where the server is, the tunnel it works on, serverHandShake's locals
    node,       \* clientMap: cSeq, sSeq of the ClientNode
    backlog,    \* tunnels the kernel has set up and the server not accepted
    cut,        \* tunnels that are cut
    c2s, s2c    \* packets on their way

client == <<at, n, ctx, served>>
server == <<srv, node>>
vars == <<client, server, backlog, cut, c2s, s2c>>

Cur(p) == <<p, n[p]>>
Packet(type, c, s) == [type |-> type, cSeq |-> c, sSeq |-> s]
Goto(p, place) == at' = [at EXCEPT ![p] = place]
Cut(t) == cut' = [cut EXCEPT ![t] = TRUE]

\* sendTSPacket returns when the buffers have taken the packet.
Put(queue, t, packet) == IF cut[t] THEN queue ELSE [queue EXCEPT ![t] = Append(@, packet)]
Room(queue, t) == cut[t] \/ Len(queue[t]) < Capacity
Get(queue, t) == [queue EXCEPT ![t] = Tail(@)]
Flushed(queue, t) == [queue EXCEPT ![t] = <<>>]

\* A client closes its end and forgets the context; nothing more reaches it.
Close(p) ==
    /\ Cut(Cur(p))
    /\ s2c' = Flushed(s2c, Cur(p))
    /\ ctx' = [ctx EXCEPT ![p] = [cSeq |-> 0, sSeq |-> 0]]

-----------------------------------------------------------------------------
(* A client process: launch_client.                                        *)

Connect(p) ==
    /\ at[p] = "off"
    /\ n[p] < MaxTunnels[p]
    /\ srv.at # "crashed"
    /\ n' = [n EXCEPT ![p] = @ + 1]
    /\ backlog' = backlog \cup {<<p, n[p] + 1>>}
    /\ Goto(p, "connected")
    /\ UNCHANGED <<ctx, served, server, cut, c2s, s2c>>

\* The server cannot be reached: `break`, the end of the process.
ConnectFails(p) ==
    /\ at[p] = "off"
    /\ Goto(p, "ended")
    /\ UNCHANGED <<n, ctx, served, server, backlog, cut, c2s, s2c>>

SendFirst(p) ==
    /\ at[p] = "connected"
    /\ \E c \in ClientStart :
          /\ ctx' = [ctx EXCEPT ![p] = [cSeq |-> c, sSeq |-> 0]]
          /\ c2s' = Put(c2s, Cur(p), Packet("first", c, 0))
    /\ Goto(p, "hello")
    /\ UNCHANGED <<n, served, server, backlog, cut, s2c>>

\* A slip: the context keeps the number of the first packet.
OldContext(m) == [cSeq |-> m.cSeq, sSeq |-> m.sSeq]

\* The context of a new tunnel: the number the third packet has.
NewContext(m) == [cSeq |-> m.cSeq + 1, sSeq |-> m.sSeq]

\* The second packet arrives and the third is sent.
SendThird(p) ==
    /\ at[p] = "hello"
    /\ s2c[Cur(p)] # <<>>
    /\ LET m == Head(s2c[Cur(p)]) IN
       IF m.cSeq = ctx[p].cSeq /\ m.type = "second"
       THEN /\ ctx' = [ctx EXCEPT ![p] = NewContext(m)]
            /\ c2s' = Put(c2s, Cur(p), Packet("third", m.cSeq + 1, m.sSeq))
            /\ s2c' = Get(s2c, Cur(p))
            /\ Goto(p, "listen")
            /\ UNCHANGED cut
       ELSE /\ Goto(p, "ended")
            /\ Close(p)
            /\ UNCHANGED c2s
    /\ UNCHANGED <<n, served, server, backlog>>

\* A packet of the handshake is not sent or does not come: `return shakeCode`.
ShakeFails(p) ==
    /\ at[p] \in {"connected", "hello"}
    /\ cut[Cur(p)]
    /\ Close(p)
    /\ Goto(p, "ended")
    /\ UNCHANGED <<n, served, server, backlog, c2s>>

\* startListen gets its listening socket: only once, for it is not closed after.
Listen(p) ==
    /\ at[p] = "listen"
    /\ ~served[p]
    /\ served' = [served EXCEPT ![p] = TRUE]
    /\ Goto(p, "run")
    /\ UNCHANGED <<n, ctx, server, backlog, cut, c2s, s2c>>

\* It does not get one, startListen returns, and closeSocket follows.
ListenFails(p) ==
    /\ at[p] = "listen"
    /\ Goto(p, "off")
    /\ Close(p)
    /\ UNCHANGED <<n, served, server, backlog, c2s>>

\* startListen returns after an error of select, or of accept.
Leave(p) ==
    /\ at[p] = "run"
    /\ Goto(p, "off")
    /\ Close(p)
    /\ UNCHANGED <<n, served, server, backlog, c2s>>

\* The process is stopped; the kernel closes its tunnel.
Killed(p) ==
    /\ at[p] \notin {"off", "ended"}
    /\ Goto(p, "ended")
    /\ Close(p)
    /\ UNCHANGED <<n, served, server, backlog, c2s>>

-----------------------------------------------------------------------------
(* A client process: startListen's loop.                                   *)

\* socksHandShake reads from a new user, and waits for it.
AcceptUser(p) ==
    /\ at[p] = "run"
    /\ Goto(p, "user")
    /\ UNCHANGED <<n, ctx, served, server, backlog, cut, c2s, s2c>>

UserLeaves(p) ==
    /\ at[p] = "user"
    /\ Goto(p, "run")
    /\ UNCHANGED <<n, ctx, served, server, backlog, cut, c2s, s2c>>

\* sendMessage: the number is taken before anything is sent.
BeginMessage(p, place) ==
    /\ ctx[p].cSeq < MaxSeq[p]
    /\ ctx' = [ctx EXCEPT ![p].cSeq = @ + 1]
    /\ Goto(p, place)
    /\ UNCHANGED <<n, served, server, backlog, cut, c2s, s2c>>

UserAsks(p) == at[p] = "user" /\ BeginMessage(p, "request")
UserData(p) == at[p] = "run" /\ BeginMessage(p, "data")

\* sendTSPacket returns, once there is room.
EndMessage(p) ==
    /\ at[p] \in {"request", "data"}
    /\ Room(c2s, Cur(p))
    /\ c2s' = Put(c2s, Cur(p), Packet("message", ctx[p].cSeq, ctx[p].sSeq))
    /\ Goto(p, "run")
    /\ UNCHANGED <<n, ctx, served, server, backlog, cut, s2c>>

\* Without its request the user is let go, and the session goes on.
RequestFails(p) ==
    /\ at[p] = "request"
    /\ cut[Cur(p)]
    /\ Goto(p, "run")
    /\ UNCHANGED <<n, ctx, served, server, backlog, cut, c2s, s2c>>

\* Without its data startListen returns.
DataFails(p) ==
    /\ at[p] = "data"
    /\ cut[Cur(p)]
    /\ Close(p)
    /\ Goto(p, "off")
    /\ UNCHANGED <<n, served, server, backlog, c2s>>

\* recvMessage; what it rejects is gone, and an error changes nothing.  What it
\* accepts is written to a user, on a blocking socket: one who does not read holds
\* the process in writeNBytes.
FromServer(p) ==
    /\ at[p] = "run"
    /\ s2c[Cur(p)] # <<>>
    /\ s2c' = Get(s2c, Cur(p))
    /\ LET m == Head(s2c[Cur(p)]) IN
       IF m.sSeq = ctx[p].sSeq + 1 /\ m.type = "message"
       THEN /\ ctx' = [ctx EXCEPT ![p].sSeq = m.sSeq]
            /\ \E place \in {"run", "held"} : Goto(p, place)
       ELSE UNCHANGED <<at, ctx>>
    /\ UNCHANGED <<n, served, server, backlog, cut, c2s>>

\* recv from a user whom only a stale bit of working_set says is ready: it waits.
ReadSilentUser(p) ==
    /\ at[p] = "run"
    /\ Goto(p, "held")
    /\ UNCHANGED <<n, ctx, served, server, backlog, cut, c2s, s2c>>

\* The user reads, speaks or goes.
UserMoves(p) ==
    /\ at[p] = "held"
    /\ Goto(p, "run")
    /\ UNCHANGED <<n, ctx, served, server, backlog, cut, c2s, s2c>>

-----------------------------------------------------------------------------
(* The server: one thread, for all tunnels.                                *)

Idle == [at |-> "loop", t |-> NoNode, cSeq |-> 0, sSeq |-> 0]
Busy(place, t, c, s) == srv' = [at |-> place, t |-> t, cSeq |-> c, sSeq |-> s]

\* The descriptor is closed and the ClientNode deleted.
Drop(t) ==
    /\ node' = [node EXCEPT ![t] = NoNode]
    /\ Cut(t)
    /\ c2s' = Flushed(c2s, t)
    /\ srv' = Idle

Accept(t) ==
    /\ srv.at = "loop"
    /\ t \in backlog
    /\ backlog' = backlog \ {t}
    /\ \E s \in ServerStart : Busy("first", t, 0, s)
    /\ UNCHANGED <<client, node, cut, c2s, s2c>>

\* The first packet arrives and the second is sent.
SendSecond(t) ==
    /\ srv.at = "first" /\ srv.t = t
    /\ c2s[t] # <<>>
    /\ LET m == Head(c2s[t]) IN
       IF m.type = "first"
       THEN /\ c2s' = Get(c2s, t)
            /\ s2c' = Put(s2c, t, Packet("second", m.cSeq, srv.sSeq))
            /\ Busy("third", t, m.cSeq, srv.sSeq)
            /\ UNCHANGED <<node, cut>>
       ELSE Drop(t) /\ UNCHANGED s2c
    /\ UNCHANGED <<client, backlog>>

\* The third packet arrives: both sides know both numbers.
Register(t) ==
    /\ srv.at = "third" /\ srv.t = t
    /\ c2s[t] # <<>>
    /\ LET m == Head(c2s[t]) IN
       IF m.sSeq = srv.sSeq /\ m.cSeq = srv.cSeq + 1 /\ m.type = "third"
       THEN /\ c2s' = Get(c2s, t)
            /\ node' = [node EXCEPT ![t] = [cSeq |-> m.cSeq, sSeq |-> m.sSeq]]
            /\ srv' = Idle
            /\ UNCHANGED cut
       ELSE Drop(t)
    /\ UNCHANGED <<client, backlog, s2c>>

\* A slip: the end of the connection is not told from a packet still to come.
NeverEnds(t) == cut[t] /\ UNCHANGED vars

\* recvTSPacket or sendTSPacket fails in the handshake.
HandshakeFails(t) ==
    /\ srv.at \in {"first", "third"} /\ srv.t = t
    /\ cut[t]
    /\ c2s[t] = <<>> \/ srv.at = "first"
    /\ Drop(t)
    /\ UNCHANGED <<client, backlog, s2c>>

\* A slip: the number stays.
SameAnswer(t) == node[t].sSeq

\* The number of the next message to t, which sendData takes before it sends.
NextAnswer(t) == node[t].sSeq + 1

\* recvData of a packet and, unless the number is wrong, its handler: the data
\* goes to a host, or sendData begins to answer the request.
Receive(t) ==
    /\ srv.at = "loop"
    /\ node[t] # NoNode
    /\ c2s[t] # <<>>
    /\ LET m == Head(c2s[t]) IN
       IF m.cSeq = node[t].cSeq + 1 /\ m.type = "message"
       THEN /\ c2s' = Get(c2s, t)
            /\ \/ /\ node' = [node EXCEPT ![t].cSeq = m.cSeq]
                  /\ UNCHANGED srv
               \/ /\ node[t].sSeq < MaxSeq[t[1]]
                  /\ node' = [node EXCEPT ![t] = [cSeq |-> m.cSeq, sSeq |-> NextAnswer(t)]]
                  /\ Busy("reply", t, 0, 0)
            /\ UNCHANGED cut
       ELSE Drop(t)
    /\ UNCHANGED <<client, backlog, s2c>>

\* recvData finds the end of the connection.
Eof(t) ==
    /\ srv.at = "loop"
    /\ node[t] # NoNode
    /\ c2s[t] = <<>>
    /\ cut[t]
    /\ Drop(t)
    /\ UNCHANGED <<client, backlog, s2c>>

\* A host's data: sendData begins.
HostData(t) ==
    /\ srv.at = "loop"
    /\ node[t] # NoNode
    /\ node[t].sSeq < MaxSeq[t[1]]
    /\ node' = [node EXCEPT ![t].sSeq = NextAnswer(t)]
    /\ Busy("traffic", t, 0, 0)
    /\ UNCHANGED <<client, backlog, cut, c2s, s2c>>

\* sendTSPacket returns, once there is room.
EndAnswer(t) ==
    /\ srv.at \in {"reply", "traffic"} /\ srv.t = t
    /\ Room(s2c, t)
    /\ s2c' = Put(s2c, t, Packet("message", node[t].cSeq, node[t].sSeq))
    /\ srv' = Idle
    /\ UNCHANGED <<client, node, backlog, cut, c2s>>

\* A reply cannot be sent: the client is dropped.
ReplyFails(t) ==
    /\ srv.at = "reply" /\ srv.t = t
    /\ cut[t]
    /\ Drop(t)
    /\ UNCHANGED <<client, backlog, s2c>>

\* Traffic cannot be sent: launch_server looks the host up among the clients, and
\* dies of the null pointer it gets.
TrafficFails(t) ==
    /\ srv.at = "traffic" /\ srv.t = t
    /\ cut[t]
    /\ srv' = [Idle EXCEPT !.at = "crashed"]
    /\ node' = [u \in Tunnels |-> NoNode]
    /\ backlog' = {}
    /\ cut' = [u \in Tunnels |-> TRUE]
    /\ c2s' = [u \in Tunnels |-> <<>>]
    /\ UNCHANGED <<client, s2c>>

\* The cleaning after a pass drops an idle client.
Expire(t) ==
    /\ srv.at = "loop"
    /\ node[t] # NoNode
    /\ Drop(t)
    /\ UNCHANGED <<client, backlog, s2c>>

-----------------------------------------------------------------------------
(* The network.                                                            *)

Break(t) ==
    /\ ~cut[t]
    /\ \E p \in Client : t = Cur(p)
    /\ Cut(t)
    /\ UNCHANGED <<client, server, backlog, c2s, s2c>>

\* What has not arrived through a tunnel that is cut is lost.
Lose(t) ==
    /\ cut[t]
    /\ \/ /\ c2s[t] # <<>>
          /\ c2s' = [c2s EXCEPT ![t] = SubSeq(@, 1, Len(@) - 1)]
          /\ UNCHANGED s2c
       \/ /\ s2c[t] # <<>>
          /\ s2c' = [s2c EXCEPT ![t] = SubSeq(@, 1, Len(@) - 1)]
          /\ UNCHANGED c2s
    /\ UNCHANGED <<client, server, backlog, cut>>

-----------------------------------------------------------------------------
Init ==
    /\ at = [p \in Client |-> "off"]
    /\ n = [p \in Client |-> 0]
    /\ ctx = [p \in Client |-> [cSeq |-> 0, sSeq |-> 0]]
    /\ served = [p \in Client |-> FALSE]
    /\ srv = Idle
    /\ node = [t \in Tunnels |-> NoNode]
    /\ backlog = {}
    /\ cut = [t \in Tunnels |-> FALSE]
    /\ c2s = [t \in Tunnels |-> <<>>]
    /\ s2c = [t \in Tunnels |-> <<>>]

\* Slips of writeNBytes: it tries again after every error, not only EAGAIN.
SendRetries(p) == EndMessage(p) /\ ~cut[Cur(p)]
AnswerRetries(t) == EndAnswer(t) /\ ~cut[t]

\* writeNBytes returns.
SendReturns(p) == EndMessage(p) \/ RequestFails(p) \/ DataFails(p)
AnswerReturns(t) == EndAnswer(t) \/ ReplyFails(t) \/ TrafficFails(t)
Shake(p) == SendFirst(p) \/ SendThird(p) \/ ShakeFails(p)

ClientStep(p) ==
    \/ Connect(p) \/ ConnectFails(p) \/ Shake(p) \/ Listen(p) \/ ListenFails(p)
    \/ Leave(p) \/ Killed(p)
    \/ AcceptUser(p) \/ UserLeaves(p) \/ UserAsks(p) \/ UserData(p)
    \/ SendReturns(p) \/ FromServer(p) \/ ReadSilentUser(p) \/ UserMoves(p)

ServerShake(t) == SendSecond(t) \/ Register(t) \/ HandshakeFails(t)
Serve(t) == Receive(t) \/ Eof(t)

ServerStep(t) ==
    Accept(t) \/ ServerShake(t) \/ Serve(t) \/ HostData(t) \/ AnswerReturns(t) \/ Expire(t)

Next ==
    \/ \E p \in Client : ClientStep(p)
    \/ \E t \in Tunnels : ServerStep(t) \/ Break(t) \/ Lose(t)

Spec == Init /\ [][Next]_vars

\* A call that can return does, on either side, and the handshake of a process goes
\* on.  A scan of the client that goes on comes to the tunnel, if it is ready, before
\* the next select: fairness for what is ready again and again.
Fairness ==
    /\ \A p \in Client : WF_vars(Shake(p)) /\ WF_vars(Listen(p) \/ ListenFails(p))
    /\ \A p \in Client : WF_vars(SendReturns(p)) /\ SF_vars(FromServer(p))
    /\ \A t \in Tunnels : WF_vars(ServerShake(t)) /\ WF_vars(AnswerReturns(t))

FairSpec == Spec /\ Fairness

-----------------------------------------------------------------------------
(* Properties.                                                             *)

Places == {"off", "connected", "hello", "listen", "run", "user", "held", "request", "data",
           "ended"}
Numbers == [cSeq : Nat, sSeq : Nat]
Packets == [type : {"first", "second", "third", "message"}, cSeq : Nat, sSeq : Nat]

\* Every variable has a value of its type.
TypeOK ==
    /\ at \in [Client -> Places]
    /\ n \in [Client -> Nat] /\ \A p \in Client : n[p] <= MaxTunnels[p]
    /\ ctx \in [Client -> Numbers]
    /\ served \in [Client -> BOOLEAN]
    /\ srv \in [at : {"loop", "first", "third", "reply", "traffic", "crashed"},
                t : Tunnels \cup {NoNode}, cSeq : Nat, sSeq : Nat]
    /\ node \in [Tunnels -> Numbers \cup {NoNode}]
    /\ backlog \subseteq Tunnels
    /\ cut \in [Tunnels -> BOOLEAN]
    /\ c2s \in [Tunnels -> Seq(Packets)]
    /\ s2c \in [Tunnels -> Seq(Packets)]

\* The client's handshake on t has begun, or is over and t in use.
Greeting(t) == t = Cur(t[1]) /\ at[t[1]] \in {"connected", "hello"}
InSession(t) ==
    t = Cur(t[1]) /\ at[t[1]] \in {"listen", "run", "user", "held", "request", "data"}

\* Messages of the client, and of the server, numbered on by one from k.
FromClient(q, k) == \A i \in 1 .. Len(q) : q[i].type = "message" /\ q[i].cSeq = k + i
FromTheServer(q, k) == \A i \in 1 .. Len(q) : q[i].type = "message" /\ q[i].sSeq = k + i

\* What is on its way is numbered on from what the receiver has: neither recvData
\* nor recvMessage ever turns a packet down for its number or its type,
\* whatever was sent, failed to be sent, or was lost with a tunnel.
InStep(t) ==
    /\ node[t] # NoNode => FromClient(c2s[t], node[t].cSeq)
    /\ InSession(t) => FromTheServer(s2c[t], ctx[t[1]].sSeq)
NumbersInStep == \A t \in Tunnels : InStep(t)

Sending(p) == IF at[p] \in {"request", "data"} THEN 1 ELSE 0
Answering(t) == IF srv.at \in {"reply", "traffic"} /\ srv.t = t THEN 1 ELSE 0

\* While a tunnel stands nothing is missing from it: the two ends' numbers differ by
\* what is on its way and what is being sent, from the end of the handshake on.
Complete(t) ==
    InSession(t) /\ node[t] # NoNode /\ ~cut[t] =>
        /\ ctx[t[1]].cSeq = node[t].cSeq + Len(c2s[t]) + Sending(t[1])
        /\ node[t].sSeq = ctx[t[1]].sSeq + Len(s2c[t]) + Answering(t)
NothingMissing == \A t \in Tunnels : Complete(t)

-----------------------------------------------------------------------------
(* Where a tunnel is in its life.                                          *)

Begun(t) == n[t[1]] >= t[2]
AtServer(t, place) == srv.at = place /\ srv.t = t

\* The server has yet to read the first packet of t.
Unread(t) == t \in backlog \/ AtServer(t, "first")

-----------------------------------------------------------------------------
(* What each direction of a tunnel promises, as a refinement of Channel.   *)

CSeqs(q) == [i \in 1 .. Len(q) |-> q[i].cSeq]
SSeqs(q) == [i \in 1 .. Len(q) |-> q[i].sSeq]

\* To the server.  The handshake's packets are numbered like all others: the first
\* has the client's first number, the third the next.
UpEnd(t) ==
    IF node[t] # NoNode \/ AtServer(t, "third") THEN "open"
    ELSE IF ~Begun(t) \/ Unread(t) THEN "new" ELSE "over"
UpGot(t) ==
    IF node[t] # NoNode THEN node[t].cSeq
    ELSE IF AtServer(t, "third") THEN srv.cSeq ELSE 0
UpWay(t) == IF UpEnd(t) = "over" THEN <<>> ELSE CSeqs(c2s[t])

Up == INSTANCE Channel WITH
        Chan <- Tunnels, Start <- ClientStart, cut <- cut,
        way <- [t \in Tunnels |-> UpWay(t)],
        end <- [t \in Tunnels |-> UpEnd(t)],
        got <- [t \in Tunnels |-> UpGot(t)]

\* To the client: the second packet has the first number.
DownEnd(t) ==
    IF ~Begun(t) \/ Greeting(t) THEN "new"
    ELSE IF InSession(t) THEN "open" ELSE "over"
DownGot(t) == IF DownEnd(t) = "open" THEN ctx[t[1]].sSeq ELSE 0
DownWay(t) == IF DownEnd(t) = "over" THEN <<>> ELSE SSeqs(s2c[t])

Down == INSTANCE Channel WITH
          Chan <- Tunnels, Start <- ServerStart, cut <- cut,
          way <- [t \in Tunnels |-> DownWay(t)],
          end <- [t \in Tunnels |-> DownEnd(t)],
          got <- [t \in Tunnels |-> DownGot(t)]

\* Each direction of each tunnel does what Channel promises, which knows of no
\* number that is wrong, although both ends turn packets down.
TunnelsDeliver == Up!Spec /\ Down!Spec

-----------------------------------------------------------------------------
(* The invariant behind it: where a tunnel is in its life.                 *)

\* Nothing has happened to a tunnel nobody has opened.
FreshInv(t) ==
    ~Begun(t) =>
        /\ node[t] = NoNode /\ ~Unread(t) /\ ~AtServer(t, "third")
        /\ c2s[t] = <<>> /\ s2c[t] = <<>>

\* A tunnel that an end has let go is cut.
CutInv(t) ==
    /\ Begun(t) /\ ~Greeting(t) /\ ~InSession(t) => cut[t]
    /\ Begun(t) /\ node[t] = NoNode /\ ~Unread(t) /\ ~AtServer(t, "third") => cut[t]

\* Until the server has read the first packet nothing else is on its way.
UnreadInv(t) ==
    /\ ~(t \in backlog /\ AtServer(t, "first"))
    /\ AtServer(t, "first") => srv.sSeq \in ServerStart
    /\ Unread(t) =>
        /\ node[t] = NoNode /\ ~AtServer(t, "third")
        /\ s2c[t] = <<>> /\ Len(c2s[t]) <= 1
        /\ ~InSession(t)
        /\ Greeting(t) /\ c2s[t] # <<>> => c2s[t][1].cSeq = ctx[t[1]].cSeq

\* Until the client has read the second packet.
HelloInv(t) ==
    Greeting(t) =>
        /\ node[t] = NoNode
        /\ Len(s2c[t]) <= 1
        /\ at[t[1]] = "connected" =>
              c2s[t] = <<>> /\ s2c[t] = <<>> /\ ~AtServer(t, "third")
        /\ AtServer(t, "third") =>
              /\ c2s[t] = <<>>
              /\ srv.cSeq = ctx[t[1]].cSeq
              /\ s2c[t] # <<>> => s2c[t][1].sSeq = srv.sSeq

\* The third packet of a handshake with these numbers, and the messages behind it.
FromHello(q, c, s) ==
    \A i \in 1 .. Len(q) :
        /\ q[i].cSeq = c + i
        /\ q[i].type = IF i = 1 THEN "third" ELSE "message"
        /\ i = 1 => q[i].sSeq = s

\* Until the server has read the third.
ThirdInv(t) ==
    AtServer(t, "third") =>
        /\ node[t] = NoNode
        /\ FromHello(c2s[t], srv.cSeq, srv.sSeq)
        /\ InSession(t) =>
              /\ ctx[t[1]].sSeq = srv.sSeq
              /\ s2c[t] = <<>>
              /\ ~cut[t] => /\ c2s[t] # <<>>
                            /\ ctx[t[1]].cSeq = srv.cSeq + Len(c2s[t]) + Sending(t[1])

AnswerInv(t) == Answering(t) = 1 => node[t] # NoNode

LifeInv(t) ==
    /\ FreshInv(t) /\ CutInv(t) /\ UnreadInv(t) /\ HelloInv(t) /\ ThirdInv(t) /\ AnswerInv(t)
    /\ InStep(t) /\ Complete(t)

IInv ==
    /\ TypeOK
    /\ \A p \in Client : at[p] \notin {"off", "ended"} => n[p] >= 1
    /\ \A t \in Tunnels : LifeInv(t)

-----------------------------------------------------------------------------
(* What returns.                                                           *)

\* Each end of t waits for the other to read: writeNBytes on both sides.
Wedged(t) ==
    /\ Answering(t) = 1 /\ ~Room(s2c, t)
    /\ \E p \in Client : Cur(p) = t /\ Sending(p) = 1 /\ ~Room(c2s, t)

\* The users process p waits for move in the end: one who has connected and does not
\* speak (socksHandShake), one who does not read (writeNBytes), one behind a stale bit.
UsersMove(p) == []<>(at[p] \notin {"user", "held"})

\* A send of the server to t ends unless t is wedged, or t's client waits for ever for
\* one of its users, and reads nothing of what it is sent.
AnswersEnd ==
    \A t \in Tunnels :
        UsersMove(t[1]) => (Answering(t) = 1 ~> Answering(t) = 0 \/ Wedged(t))

\* serverHandShake, which stalls every other client, comes to an end.
HandshakesEnd == srv.at \in {"first", "third"} ~> srv.at \notin {"first", "third"}

\* The server's thread comes round to every tunnel that is ready: no host that does
\* not read (send in launch_server), and no half of a packet, holds it for ever.
ServerComesRound == \A t \in Tunnels : SF_vars(Serve(t))

\* A client's send ends unless the server waits for the buffers of some tunnel, or is
\* held up elsewhere for ever.
MessagesEnd ==
    ServerComesRound => \A p \in Client :
        Sending(p) = 1 ~> Sending(p) = 0 \/ \E t \in Tunnels : Answering(t) = 1 /\ ~Room(s2c, t)
=============================================================================
