---------------------------- MODULE TunnelProofs ----------------------------
(***************************************************************************)
(* Proofs of what Tunnel.tla claims of the sequence numbers, for any       *)
(* number of clients, tunnels and packets and any first numbers.           *)
(*                                                                         *)
(* Each action is at one tunnel; the others are Untouched, and what        *)
(* LifeInv says of an untouched tunnel stays true (Frame).  For the tunnel *)
(* of the action there is one lemma per action or group of actions that    *)
(* keeps IInv, with a step for each part of LifeInv it can disturb.  The   *)
(* numbers on their way are handled by the lemmas about FromClient,        *)
(* FromTheServer and FromHello: a queue that is numbered on from its       *)
(* receiver stays so when its end sends the next number, when the receiver *)
(* takes the first and when a cut tunnel loses the last.                   *)
(***************************************************************************)
EXTENDS Tunnel, SequenceTheorems, TLAPS

-----------------------------------------------------------------------------
(* Tunnels and queues.                                                     *)

LEMMA TunnelShape ==
    ASSUME NEW t \in Tunnels
    PROVE  /\ t[1] \in Client
           /\ t[2] \in Nat \ {0}
           /\ t[2] <= MaxTunnels[t[1]]
           /\ t = <<t[1], t[2]>>
BY MaxTunnelsAssumption DEF Tunnels

LEMMA CurTunnel ==
    ASSUME TypeOK, NEW p \in Client, n[p] >= 1
    PROVE  /\ Cur(p) \in Tunnels
           /\ Cur(p)[1] = p
           /\ Cur(p)[2] = n[p]
<1>1. n[p] \in 1 .. MaxTunnels[p]
  BY MaxTunnelsAssumption DEF TypeOK
<1>2. QED
  BY <1>1 DEF Cur, Tunnels

LEMMA AppendQueue ==
    ASSUME NEW q \in Seq(Packets), NEW m \in Packets
    PROVE  /\ Append(q, m) \in Seq(Packets)
           /\ Len(Append(q, m)) = Len(q) + 1
           /\ Append(q, m) # <<>>
           /\ \A i \in 1 .. Len(q) : Append(q, m)[i] = q[i]
           /\ Append(q, m)[Len(q) + 1] = m
OBVIOUS

LEMMA TailQueue ==
    ASSUME NEW q \in Seq(Packets), q # <<>>
    PROVE  /\ Head(q) \in Packets
           /\ Head(q) = q[1]
           /\ Len(q) \in Nat \ {0}
           /\ Tail(q) \in Seq(Packets)
           /\ Len(Tail(q)) = Len(q) - 1
           /\ \A i \in 1 .. Len(q) - 1 : Tail(q)[i] = q[i + 1]
OBVIOUS

LEMMA FrontQueue ==
    ASSUME NEW q \in Seq(Packets), q # <<>>
    PROVE  LET f == SubSeq(q, 1, Len(q) - 1) IN
           /\ f \in Seq(Packets)
           /\ Len(f) = Len(q) - 1
           /\ \A i \in 1 .. Len(q) - 1 : f[i] = q[i]
<1>1. PICK k \in Nat : k = Len(q) - 1
  OBVIOUS
<1>2. \A i \in 1 .. k : q[i] \in Packets
  BY <1>1
<1>3. /\ SubSeq(q, 1, k) \in Seq(Packets)
      /\ Len(SubSeq(q, 1, k)) = IF 1 <= k THEN k - 1 + 1 ELSE 0
      /\ \A i \in 1 .. k - 1 + 1 : SubSeq(q, 1, k)[i] = q[1 + i - 1]
  BY <1>1, <1>2, SubSeqProperties
<1>4. Len(SubSeq(q, 1, k)) = k /\ \A i \in 1 .. k : SubSeq(q, 1, k)[i] = q[i]
  BY <1>3
<1>5. QED
  BY <1>1, <1>3, <1>4

\* Queues of numbered packets stay numbered when one is added to them or taken away.
LEMMA AppendFromClient ==
    ASSUME NEW q \in Seq(Packets), NEW k \in Nat, FromClient(q, k),
           NEW m \in Packets, m.type = "message", m.cSeq = k + Len(q) + 1
    PROVE  FromClient(Append(q, m), k)
BY AppendQueue DEF FromClient

LEMMA TailFromClient ==
    ASSUME NEW q \in Seq(Packets), NEW k \in Nat, FromClient(q, k), q # <<>>
    PROVE  /\ FromClient(Tail(q), k + 1)
           /\ Head(q).type = "message" /\ Head(q).cSeq = k + 1
BY TailQueue DEF FromClient

LEMMA FrontFromClient ==
    ASSUME NEW q \in Seq(Packets), NEW k \in Nat, FromClient(q, k), q # <<>>
    PROVE  FromClient(SubSeq(q, 1, Len(q) - 1), k)
BY FrontQueue DEF FromClient

LEMMA AppendFromTheServer ==
    ASSUME NEW q \in Seq(Packets), NEW k \in Nat, FromTheServer(q, k),
           NEW m \in Packets, m.type = "message", m.sSeq = k + Len(q) + 1
    PROVE  FromTheServer(Append(q, m), k)
BY AppendQueue DEF FromTheServer

LEMMA TailFromTheServer ==
    ASSUME NEW q \in Seq(Packets), NEW k \in Nat, FromTheServer(q, k), q # <<>>
    PROVE  /\ FromTheServer(Tail(q), k + 1)
           /\ Head(q).type = "message" /\ Head(q).sSeq = k + 1
BY TailQueue DEF FromTheServer

LEMMA FrontFromTheServer ==
    ASSUME NEW q \in Seq(Packets), NEW k \in Nat, FromTheServer(q, k), q # <<>>
    PROVE  FromTheServer(SubSeq(q, 1, Len(q) - 1), k)
BY FrontQueue DEF FromTheServer

LEMMA AppendFromHello ==
    ASSUME NEW q \in Seq(Packets), NEW c \in Nat, NEW s \in Nat, FromHello(q, c, s), q # <<>>,
           NEW m \in Packets, m.type = "message", m.cSeq = c + Len(q) + 1
    PROVE  FromHello(Append(q, m), c, s)
<1>1. Len(q) \in Nat \ {0} /\ Len(Append(q, m)) = Len(q) + 1
  OBVIOUS
<1>2. SUFFICES ASSUME NEW i \in 1 .. Len(q) + 1
               PROVE  /\ Append(q, m)[i].cSeq = c + i
                      /\ Append(q, m)[i].type = IF i = 1 THEN "third" ELSE "message"
                      /\ i = 1 => Append(q, m)[i].sSeq = s
  BY <1>1 DEF FromHello
<1>3. CASE i \in 1 .. Len(q)
  BY <1>3, AppendQueue DEF FromHello
<1>4. CASE i = Len(q) + 1
  <2>1. Append(q, m)[i] = m /\ i # 1
    BY <1>1, <1>4, AppendQueue
  <2>2. QED
    BY <1>1, <1>4, <2>1
<1>5. QED
  BY <1>1, <1>3, <1>4

LEMMA TailFromHello ==
    ASSUME NEW q \in Seq(Packets), NEW c \in Nat, NEW s \in Nat, FromHello(q, c, s), q # <<>>
    PROVE  /\ FromClient(Tail(q), c + 1)
           /\ Head(q).type = "third" /\ Head(q).cSeq = c + 1 /\ Head(q).sSeq = s
BY TailQueue DEF FromHello, FromClient

LEMMA FrontFromHello ==
    ASSUME NEW q \in Seq(Packets), NEW c \in Nat, NEW s \in Nat, FromHello(q, c, s), q # <<>>
    PROVE  FromHello(SubSeq(q, 1, Len(q) - 1), c, s)
BY FrontQueue DEF FromHello

LEMMA SingleFromHello ==
    ASSUME NEW c \in Nat, NEW s \in Nat
    PROVE  FromHello(<<Packet("third", c + 1, s)>>, c, s)
BY DEF FromHello, Packet

LEMMA EmptyQueue ==
    ASSUME NEW k, NEW s
    PROVE  FromClient(<<>>, k) /\ FromTheServer(<<>>, k) /\ FromHello(<<>>, k, s)
BY DEF FromClient, FromTheServer, FromHello

LEMMA PacketType ==
    ASSUME NEW type \in {"first", "second", "third", "message"}, NEW c \in Nat, NEW s \in Nat
    PROVE  Packet(type, c, s) \in Packets
BY DEF Packet, Packets

LEMMA NumbersExcept ==
    ASSUME NEW r \in Numbers, NEW v
    PROVE  /\ [r EXCEPT !.cSeq = v] = [cSeq |-> v, sSeq |-> r.sSeq]
           /\ [r EXCEPT !.sSeq = v] = [cSeq |-> r.cSeq, sSeq |-> v]
BY DEF Numbers

LEMMA TunnelTypes ==
    ASSUME TypeOK, NEW t \in Tunnels
    PROVE  /\ c2s[t] \in Seq(Packets) /\ Len(c2s[t]) \in Nat
           /\ s2c[t] \in Seq(Packets) /\ Len(s2c[t]) \in Nat
           /\ node[t] # NoNode => node[t].cSeq \in Nat /\ node[t].sSeq \in Nat
           /\ srv.cSeq \in Nat /\ srv.sSeq \in Nat
           /\ ctx[t[1]].cSeq \in Nat /\ ctx[t[1]].sSeq \in Nat
<1>1. /\ c2s[t] \in Seq(Packets) /\ s2c[t] \in Seq(Packets)
      /\ node[t] \in Numbers \cup {NoNode}
      /\ srv.cSeq \in Nat /\ srv.sSeq \in Nat
      /\ ctx[t[1]] \in Numbers
  BY TunnelShape DEF TypeOK
<1>2. Len(c2s[t]) \in Nat /\ Len(s2c[t]) \in Nat
  BY <1>1
<1>3. \A r \in Numbers : r.cSeq \in Nat /\ r.sSeq \in Nat
  BY DEF Numbers
<1>4. QED
  BY <1>1, <1>2, <1>3

\* A tunnel that a step leaves alone.
Untouched(t) ==
    /\ node'[t] = node[t] /\ c2s'[t] = c2s[t] /\ s2c'[t] = s2c[t]
    /\ cut[t] => cut'[t]
    /\ t \in backlog' <=> t \in backlog
    /\ Begun(t)' <=> Begun(t)
    /\ Greeting(t)' <=> Greeting(t)
    /\ InSession(t)' <=> InSession(t)
    /\ Greeting(t) \/ InSession(t) => at'[t[1]] = at[t[1]] /\ ctx'[t[1]] = ctx[t[1]]
    /\ srv'.t = t /\ srv'.at # "loop" <=> srv.t = t /\ srv.at # "loop"
    /\ srv.t = t /\ srv.at # "loop" => srv' = srv

LEMMA Frame ==
    ASSUME TypeOK, NEW t \in Tunnels, LifeInv(t), Untouched(t)
    PROVE  LifeInv(t)'
BY DEF Untouched, LifeInv, FreshInv, CutInv, UnreadInv, HelloInv, ThirdInv, AnswerInv,
       InStep, Complete, AtServer, Unread, Sending, Answering, TypeOK

\* A step is at one tunnel.
LEMMA OneTunnel ==
    ASSUME IInv, TypeOK', NEW c \in Tunnels, LifeInv(c)',
           \A q \in Client : at'[q] \notin {"off", "ended"} => n'[q] >= 1,
           \A t \in Tunnels : t # c => Untouched(t)
    PROVE  IInv'
BY Frame DEF IInv

-----------------------------------------------------------------------------
(* The steps of a client.                                                  *)

\* The first packet.
LEMMA SendFirstKeeps ==
    ASSUME IInv, NEW p \in Client, SendFirst(p)
    PROVE  IInv'
<1>1. TypeOK /\ at[p] = "connected" /\ n[p] >= 1
  BY DEF IInv, SendFirst
<1>2. PICK c \in Tunnels : c = Cur(p) /\ c[1] = p /\ c[2] = n[p] /\ LifeInv(c)
  BY <1>1, CurTunnel DEF IInv
<1>3. PICK k \in ClientStart :
         /\ ctx' = [ctx EXCEPT ![p] = [cSeq |-> k, sSeq |-> 0]]
         /\ c2s' = Put(c2s, c, Packet("first", k, 0))
  BY <1>2 DEF SendFirst
<1>4. k \in Nat /\ Packet("first", k, 0) \in Packets
  BY StartAssumption, PacketType
<1>5. c2s[c] = <<>>
  BY <1>1, <1>2 DEF LifeInv, HelloInv, Greeting
<1>6. c2s'[c] = IF cut[c] THEN <<>> ELSE <<Packet("first", k, 0)>>
  BY <1>1, <1>3, <1>5 DEF TypeOK, Put
<1>7. TypeOK'
  BY <1>1, <1>2, <1>3, <1>4, <1>5, <1>6, AppendQueue DEF TypeOK, Places, Numbers, SendFirst,
     Goto, Put, server
<1>8. \A q \in Client : at'[q] \notin {"off", "ended"} => n'[q] >= 1
  BY <1>1 DEF IInv, SendFirst, Goto, Put, server, TypeOK
<1>9. ASSUME NEW t \in Tunnels, t # c PROVE LifeInv(t)'
  <2>1. Untouched(t)
    BY <1>1, <1>2, <1>3, <1>4, <1>5, <1>6, <1>9, TunnelShape DEF Untouched, Begun, Greeting,
       InSession, Cur, TypeOK, SendFirst, Goto, Put, server
  <2>2. QED
    BY <1>1, <2>1, Frame DEF IInv
<1>10. LifeInv(c)'
  <2>1. /\ at'[p] = "hello" /\ n' = n /\ c = Cur(p)' /\ ctx'[p] = [cSeq |-> k, sSeq |-> 0]
        /\ UNCHANGED <<srv, node, backlog, cut, s2c>>
    BY <1>1, <1>2, <1>3, <1>4, <1>5, <1>6 DEF TypeOK, Cur, SendFirst, Goto, Put, server
  <2>2. Len(c2s'[c]) <= 1 /\ (c2s'[c] # <<>> => c2s'[c][1].cSeq = k)
    BY <1>6 DEF Packet
  <2>3. QED
    BY <1>1, <1>2, <1>4, <1>5, <2>1, <2>2 DEF LifeInv, FreshInv, CutInv, UnreadInv, HelloInv,
       ThirdInv, AnswerInv,
       InStep, Complete, AtServer, Unread, Sending, Answering, Begun, Greeting, InSession, TypeOK
<1>11. QED
  BY <1>7, <1>8, <1>9, <1>10 DEF IInv

\* A step inside the session: Listen, AcceptUser, UserLeaves, RequestFails, ReadSilentUser,
\* UserMoves.
LEMMA SessionKeeps ==
    ASSUME IInv, NEW p \in Client,
           at[p] \in {"listen", "run", "user", "held", "request", "data"},
           NEW x \in {"run", "user", "held"}, Goto(p, x),
           at[p] \in {"request", "data"} => cut[Cur(p)],
           served' \in [Client -> BOOLEAN], UNCHANGED <<n, ctx, server, backlog, cut, c2s, s2c>>
    PROVE  IInv'
<1>1. TypeOK /\ at[p] \notin {"off", "ended"} /\ n[p] >= 1
  BY DEF IInv
<1>2. PICK c \in Tunnels : c = Cur(p) /\ c[1] = p /\ c[2] = n[p] /\ LifeInv(c)
  BY <1>1, CurTunnel DEF IInv
<1>3. TypeOK'
  BY <1>1, <1>2 DEF TypeOK, Places, Numbers, Goto, server
<1>4. \A q \in Client : at'[q] \notin {"off", "ended"} => n'[q] >= 1
  BY <1>1 DEF IInv, Goto, server, TypeOK
<1>5. ASSUME NEW t \in Tunnels, t # c PROVE LifeInv(t)'
  <2>1. Untouched(t)
    BY <1>1, <1>2, <1>5, TunnelShape DEF Untouched, Begun, Greeting, InSession, Cur, TypeOK,
       Goto, server
  <2>2. QED
    BY <1>1, <2>1, Frame DEF IInv
<1>6. LifeInv(c)'
  <2>1. /\ at'[p] = x /\ c = Cur(p)' /\ UNCHANGED <<n, ctx, srv, node, backlog, cut, c2s, s2c>>
    BY <1>1, <1>2 DEF TypeOK, Cur, Goto, server
  <2>2. QED
    BY <1>1, <1>2, <2>1 DEF LifeInv, FreshInv, CutInv, UnreadInv, HelloInv, ThirdInv, AnswerInv,
       InStep, Complete, AtServer, Unread, Sending, Answering, Begun, Greeting, InSession, TypeOK
<1>7. QED
  BY <1>3, <1>4, <1>5, <1>6 DEF IInv

\* The end of a session or of the process: ListenFails, Leave, Killed, DataFails, ShakeFails.
LEMMA CloseKeeps ==
    ASSUME IInv, NEW p \in Client, at[p] \notin {"off", "ended"}, NEW x \in {"off", "ended"},
           Goto(p, x), Close(p),
           UNCHANGED <<n, served, server, backlog, c2s>>
    PROVE  IInv'
<1>1. TypeOK /\ at[p] \notin {"off", "ended"} /\ n[p] >= 1
  BY DEF IInv
<1>2. PICK c \in Tunnels : c = Cur(p) /\ c[1] = p /\ c[2] = n[p] /\ LifeInv(c)
  BY <1>1, CurTunnel DEF IInv
<1>3. TypeOK'
  BY <1>1, <1>2 DEF TypeOK, Places, Numbers, Goto, Close, Cut, Flushed, server
<1>4. \A q \in Client : at'[q] \notin {"off", "ended"} => n'[q] >= 1
  BY <1>1 DEF IInv, Goto, Close, Cut, Flushed, server, TypeOK
<1>5. ASSUME NEW t \in Tunnels, t # c PROVE LifeInv(t)'
  <2>1. Untouched(t)
    BY <1>1, <1>2, <1>5, TunnelShape DEF Untouched, Begun, Greeting, InSession, Cur, TypeOK,
       Goto, Close, Cut, Flushed, server
  <2>2. QED
    BY <1>1, <2>1, Frame DEF IInv
<1>6. LifeInv(c)'
  <2>1. /\ at'[p] = x /\ c = Cur(p)' /\ cut'[c] /\ s2c'[c] = <<>>
        /\ UNCHANGED <<n, srv, node, backlog, c2s>>
    BY <1>1, <1>2 DEF TypeOK, Cur, Goto, Close, Cut, Flushed, server
  <2>2. QED
    BY <1>1, <1>2, <2>1 DEF LifeInv, FreshInv, CutInv, UnreadInv, HelloInv, ThirdInv, AnswerInv,
       InStep, Complete, AtServer, Unread, Sending, Answering, Begun, Greeting, InSession, TypeOK
<1>7. QED
  BY <1>3, <1>4, <1>5, <1>6 DEF IInv

\* A client that does not reach the server.
LEMMA ConnectFailsKeeps ==
    ASSUME IInv, NEW p \in Client, ConnectFails(p)
    PROVE  IInv'
<1>1. TypeOK'
  BY DEF IInv, TypeOK, Places, ConnectFails, Goto, server
<1>2. \A q \in Client : at'[q] \notin {"off", "ended"} => n'[q] >= 1
  BY DEF IInv, TypeOK, ConnectFails, Goto
<1>3. ASSUME NEW t \in Tunnels PROVE LifeInv(t)'
  <2>1. Untouched(t)
    BY TunnelShape DEF Untouched, Begun, Greeting, InSession, Cur, IInv, TypeOK, ConnectFails,
       Goto, server
  <2>2. QED
    BY <2>1, Frame DEF IInv
<1>4. QED
  BY <1>1, <1>2, <1>3 DEF IInv

\* A new tunnel.
LEMMA ConnectKeeps ==
    ASSUME IInv, NEW p \in Client, Connect(p)
    PROVE  IInv'
<1>1. TypeOK /\ at[p] = "off" /\ n[p] < MaxTunnels[p]
  BY DEF IInv, Connect
<1>2. PICK c \in Tunnels : c = <<p, n[p] + 1>> /\ c[1] = p /\ c[2] = n[p] + 1 /\ LifeInv(c)
  <2>1. n[p] + 1 \in 1 .. MaxTunnels[p]
    BY <1>1, MaxTunnelsAssumption DEF TypeOK
  <2>2. <<p, n[p] + 1>> \in {p} \X (1 .. MaxTunnels[p])
    BY <2>1
  <2>3. <<p, n[p] + 1>> \in Tunnels
    BY <2>2 DEF Tunnels
  <2>4. QED
    BY <2>3 DEF IInv
<1>3. /\ n' = [n EXCEPT ![p] = n[p] + 1] /\ at' = [at EXCEPT ![p] = "connected"]
      /\ backlog' = backlog \cup {c}
      /\ UNCHANGED <<ctx, served, srv, node, cut, c2s, s2c>>
  BY <1>1, <1>2 DEF Connect, Goto, server, TypeOK
<1>4. TypeOK'
  <2>0. n[p] \in Nat /\ n' \in [Client -> Nat]
    BY <1>1, <1>3 DEF TypeOK
  <2>1. ASSUME NEW q \in Client PROVE n'[q] <= MaxTunnels[q]
    <3>1. /\ n[q] \in Nat /\ MaxTunnels[q] \in Nat /\ n[q] <= MaxTunnels[q]
          /\ n'[q] = IF q = p THEN n[p] + 1 ELSE n[q]
      BY <1>1, <1>3, MaxTunnelsAssumption DEF TypeOK
    <3>2. QED
      BY <1>1, <2>0, <3>1
  <2>2. backlog' \subseteq Tunnels /\ at' \in [Client -> Places]
    BY <1>1, <1>2, <1>3 DEF TypeOK, Places
  <2>3. QED
    BY <1>1, <1>3, <2>0, <2>1, <2>2 DEF TypeOK
<1>5. \A q \in Client : at'[q] \notin {"off", "ended"} => n'[q] >= 1
  BY <1>1, <1>3 DEF IInv, TypeOK
<1>6. ASSUME NEW t \in Tunnels, t # c PROVE Untouched(t)
  BY <1>1, <1>2, <1>3, <1>6, TunnelShape DEF Untouched, Begun, Greeting, InSession, Cur, TypeOK
<1>7. LifeInv(c)'
  <2>1. /\ at'[p] = "connected" /\ n'[p] = n[p] + 1 /\ c = Cur(p)' /\ c \in backlog'
        /\ UNCHANGED <<srv, node, cut, c2s, s2c>>
    BY <1>1, <1>2, <1>3 DEF TypeOK, Cur
  <2>2. QED
    BY <1>1, <1>2, <2>1 DEF
       LifeInv, FreshInv, CutInv, UnreadInv, HelloInv, ThirdInv, AnswerInv,
       InStep, Complete, AtServer, Unread, Sending, Answering, Begun, Greeting, InSession, TypeOK
<1>8. QED
  BY <1>4, <1>5, <1>6, <1>7, OneTunnel

\* sendMessage takes a number.
LEMMA BeginMessageKeeps ==
    ASSUME IInv, NEW p \in Client, NEW x \in {"request", "data"},
           at[p] \in {"run", "user"}, BeginMessage(p, x)
    PROVE  IInv'
<1>1. TypeOK /\ at[p] \in {"run", "user"} /\ n[p] >= 1
  BY DEF IInv
<1>2. PICK c \in Tunnels : c = Cur(p) /\ c[1] = p /\ c[2] = n[p] /\ LifeInv(c)
  BY <1>1, CurTunnel DEF IInv
<1>0. /\ c2s[c] \in Seq(Packets) /\ Len(c2s[c]) \in Nat
      /\ s2c[c] \in Seq(Packets) /\ Len(s2c[c]) \in Nat
      /\ node[c] # NoNode => node[c].cSeq \in Nat /\ node[c].sSeq \in Nat
      /\ srv.cSeq \in Nat /\ srv.sSeq \in Nat
      /\ ctx[p] \in Numbers /\ ctx[p].cSeq \in Nat /\ ctx[p].sSeq \in Nat
  BY <1>1, <1>2, TunnelTypes DEF TypeOK
<1>3. /\ ctx' = [ctx EXCEPT ![p] = [cSeq |-> ctx[p].cSeq + 1, sSeq |-> ctx[p].sSeq]]
      /\ ctx[p].cSeq \in Nat /\ ctx[p].sSeq \in Nat
  <2>2. ctx' = [ctx EXCEPT ![p] = [ctx[p] EXCEPT !.cSeq = ctx[p].cSeq + 1]]
    BY <1>1 DEF BeginMessage, TypeOK
  <2>3. QED
    BY <1>0, <2>2, NumbersExcept DEF Numbers
<1>4. TypeOK'
  <2>1. ctx' \in [Client -> Numbers]
    BY <1>1, <1>0, <1>3 DEF TypeOK, Numbers
  <2>2. QED
    BY <1>1, <1>2, <1>3, <1>0, <2>1 DEF TypeOK, Places, BeginMessage, Goto, server
<1>5. \A q \in Client : at'[q] \notin {"off", "ended"} => n'[q] >= 1
  BY <1>1 DEF IInv, TypeOK, BeginMessage, Goto, server
<1>6. ASSUME NEW t \in Tunnels, t # c PROVE LifeInv(t)'
  <2>1. Untouched(t)
    BY <1>1, <1>2, <1>3, <1>6, TunnelShape DEF Untouched, Begun, Greeting, InSession, Cur, TypeOK,
       BeginMessage, Goto, server
  <2>2. QED
    BY <1>1, <2>1, Frame DEF IInv
<1>7. LifeInv(c)'
  <2>1. /\ at'[p] = x /\ c = Cur(p)' /\ ctx'[p].cSeq = ctx[p].cSeq + 1 /\ ctx'[p].sSeq = ctx[p].sSeq
        /\ UNCHANGED <<n, srv, node, backlog, cut, c2s, s2c>>
    BY <1>1, <1>2, <1>3 DEF TypeOK, Cur, BeginMessage, Goto, server
  <2>2. Sending(p)' = 1 /\ Sending(p) = 0 /\ InSession(c)
    BY <1>1, <1>2, <2>1 DEF Sending, InSession
  <2>3. FreshInv(c)' /\ CutInv(c)' /\ UnreadInv(c)' /\ HelloInv(c)' /\ AnswerInv(c)'
    BY <1>2, <1>0, <1>3, <2>1, <2>2 DEF
       LifeInv, FreshInv, CutInv, UnreadInv, HelloInv, ThirdInv, AnswerInv,
       InStep, Complete, AtServer, Unread, Sending, Answering, Begun, Greeting, InSession
  <2>4. ThirdInv(c)'
    BY <1>2, <1>0, <1>3, <2>1, <2>2 DEF LifeInv, ThirdInv, AtServer, InSession
  <2>5. InStep(c)'
    BY <1>2, <1>0, <1>3, <2>1, <2>2 DEF LifeInv, InStep, InSession
  <2>6. Complete(c)'
    BY <1>2, <1>0, <1>3, <2>1, <2>2 DEF LifeInv, Complete, Answering
  <2>7. QED
    BY <2>3, <2>4, <2>5, <2>6 DEF LifeInv
<1>8. QED
  BY <1>4, <1>5, <1>6, <1>7 DEF IInv

\* The packet of a message is sent.
LEMMA EndMessageKeeps ==
    ASSUME IInv, NEW p \in Client, EndMessage(p)
    PROVE  IInv'
<1>1. TypeOK /\ at[p] \in {"request", "data"} /\ n[p] >= 1
  BY DEF IInv, EndMessage
<1>2. PICK c \in Tunnels : c = Cur(p) /\ c[1] = p /\ c[2] = n[p] /\ LifeInv(c)
  BY <1>1, CurTunnel DEF IInv
<1>3. /\ c2s[c] \in Seq(Packets) /\ Len(c2s[c]) \in Nat
      /\ s2c[c] \in Seq(Packets) /\ Len(s2c[c]) \in Nat
      /\ node[c] # NoNode => node[c].cSeq \in Nat /\ node[c].sSeq \in Nat
      /\ srv.cSeq \in Nat /\ srv.sSeq \in Nat
      /\ ctx[p] \in Numbers /\ ctx[p].cSeq \in Nat /\ ctx[p].sSeq \in Nat
  BY <1>1, <1>2, TunnelTypes DEF TypeOK
<1>4. PICK m \in Packets :
        /\ m = Packet("message", ctx[p].cSeq, ctx[p].sSeq)
        /\ m.type = "message" /\ m.cSeq = ctx[p].cSeq
  <2>1. Packet("message", ctx[p].cSeq, ctx[p].sSeq) \in Packets
    BY <1>3, PacketType
  <2>2. QED
    BY <2>1 DEF Packet
<1>5. /\ c2s' = IF cut[c] THEN c2s ELSE [c2s EXCEPT ![c] = Append(c2s[c], m)]
      /\ at' = [at EXCEPT ![p] = "run"] /\ n' = n
      /\ UNCHANGED <<ctx, served, srv, node, backlog, cut, s2c>>
  BY <1>1, <1>2, <1>4 DEF EndMessage, Put, Goto, server, TypeOK
<1>6. TypeOK'
  BY <1>1, <1>2, <1>3, <1>4, <1>5, AppendQueue DEF TypeOK, Places
<1>7. \A q \in Client : at'[q] \notin {"off", "ended"} => n'[q] >= 1
  BY <1>1, <1>5 DEF IInv, TypeOK
<1>8. ASSUME NEW t \in Tunnels, t # c PROVE Untouched(t)
  BY <1>1, <1>2, <1>5, <1>8, TunnelShape DEF Untouched, Begun, Greeting, InSession, Cur, TypeOK
<1>9. LifeInv(c)'
  <2>1. /\ InSession(c) /\ InSession(c)' /\ ~Greeting(c) /\ ~Greeting(c)' /\ Begun(c) /\ Begun(c)'
        /\ Sending(p) = 1 /\ Sending(p)' = 0
    BY <1>1, <1>2, <1>5 DEF TypeOK, InSession, Greeting, Begun, Sending, Cur
  <2>2. ~Unread(c) /\ ~Unread(c)'
    BY <1>2, <1>5, <2>1 DEF LifeInv, UnreadInv, Unread, AtServer
  <2>3. /\ cut[c] => c2s'[c] = c2s[c]
        /\ ~cut[c] => c2s'[c] = Append(c2s[c], m)
    BY <1>1, <1>5 DEF TypeOK
  <2>4. FreshInv(c)' /\ CutInv(c)' /\ UnreadInv(c)' /\ HelloInv(c)' /\ AnswerInv(c)'
    BY <1>2, <1>5, <2>1, <2>2 DEF LifeInv, FreshInv, CutInv, UnreadInv, HelloInv, AnswerInv, Unread,
       AtServer, Answering
  <2>5. ThirdInv(c)'
    <3>1. SUFFICES ASSUME AtServer(c, "third"), ~cut[c]  PROVE ThirdInv(c)'
      BY <1>2, <1>5, <2>1, <2>3 DEF LifeInv, ThirdInv, AtServer
    <3>2. /\ node[c] = NoNode
          /\ FromHello(c2s[c], srv.cSeq, srv.sSeq) /\ c2s[c] # <<>>
          /\ ctx[p].sSeq = srv.sSeq /\ s2c[c] = <<>>
          /\ ctx[p].cSeq = srv.cSeq + Len(c2s[c]) + 1
      BY <1>2, <2>1, <3>1 DEF LifeInv, ThirdInv
    <3>3. FromHello(Append(c2s[c], m), srv.cSeq, srv.sSeq)
      BY <1>3, <1>4, <3>2, AppendFromHello
    <3>4. Append(c2s[c], m) # <<>> /\ Len(Append(c2s[c], m)) = Len(c2s[c]) + 1
      BY <1>3, AppendQueue
    <3>5. QED
      BY <1>2, <1>3, <1>5, <2>1, <2>3, <3>1, <3>2, <3>3, <3>4 DEF ThirdInv
  <2>6. InStep(c)'
    <3>1. CASE cut[c] \/ node[c] = NoNode
      BY <1>2, <1>5, <2>1, <2>3, <3>1 DEF LifeInv, InStep
    <3>2. CASE ~cut[c] /\ node[c] # NoNode
      <4>1. ctx[p].cSeq = node[c].cSeq + Len(c2s[c]) + 1
        BY <1>2, <1>5, <2>1, <3>2 DEF LifeInv, Complete
      <4>2. FromClient(c2s[c], node[c].cSeq)
        BY <1>2, <3>2 DEF LifeInv, InStep
      <4>3. FromClient(Append(c2s[c], m), node[c].cSeq)
        BY <1>3, <1>4, <3>2, <4>1, <4>2, AppendFromClient
      <4>4. QED
        BY <1>2, <1>5, <2>1, <2>3, <3>2, <4>3 DEF LifeInv, InStep
    <3>3. QED
      BY <3>1, <3>2
  <2>7. Complete(c)'
    <3>1. SUFFICES ASSUME node[c] # NoNode, ~cut[c]  PROVE Complete(c)'
      BY <1>5 DEF Complete
    <3>2. Len(Append(c2s[c], m)) = Len(c2s[c]) + 1
      BY <1>3, AppendQueue
    <3>3. /\ ctx[p].cSeq = node[c].cSeq + Len(c2s[c]) + 1
          /\ node[c].sSeq = ctx[p].sSeq + Len(s2c[c]) + Answering(c)
      BY <1>2, <2>1, <3>1 DEF LifeInv, Complete
    <3>4. Answering(c)' = Answering(c)
      BY <1>5 DEF Answering
    <3>5. ctx[p].cSeq = node[c].cSeq + Len(c2s'[c]) + 0
      <4>1. Len(c2s'[c]) = Len(c2s[c]) + 1
        BY <2>3, <3>1, <3>2
      <4>2. node[c].cSeq \in Nat /\ Len(c2s[c]) \in Nat
        BY <1>3, <3>1
      <4>3. QED
        BY <3>3, <4>1, <4>2
    <3>6. QED
      BY <1>2, <1>5, <2>1, <3>3, <3>4, <3>5 DEF Complete
  <2>8. QED
    BY <2>4, <2>5, <2>6, <2>7 DEF LifeInv
<1>10. QED
  BY <1>6, <1>7, <1>8, <1>9, OneTunnel

\* A packet of the server is received.
LEMMA FromServerKeeps ==
    ASSUME IInv, NEW p \in Client, FromServer(p)
    PROVE  IInv'
<1>1. TypeOK /\ at[p] = "run" /\ n[p] >= 1
  BY DEF IInv, FromServer
<1>2. PICK c \in Tunnels : c = Cur(p) /\ c[1] = p /\ c[2] = n[p] /\ LifeInv(c)
  BY <1>1, CurTunnel DEF IInv
<1>3. /\ c2s[c] \in Seq(Packets) /\ Len(c2s[c]) \in Nat
      /\ s2c[c] \in Seq(Packets) /\ s2c[c] # <<>> /\ Len(s2c[c]) \in Nat
      /\ node[c] # NoNode => node[c].cSeq \in Nat /\ node[c].sSeq \in Nat
      /\ ctx[p] \in Numbers /\ ctx[p].cSeq \in Nat /\ ctx[p].sSeq \in Nat
  BY <1>1, <1>2, TunnelTypes DEF TypeOK, FromServer
<1>4. InSession(c) /\ ~Greeting(c) /\ Begun(c)
  BY <1>1, <1>2 DEF InSession, Greeting, Begun, TypeOK
<1>5. /\ FromTheServer(Tail(s2c[c]), ctx[p].sSeq + 1)
      /\ Head(s2c[c]).type = "message" /\ Head(s2c[c]).sSeq = ctx[p].sSeq + 1
      /\ Tail(s2c[c]) \in Seq(Packets) /\ Len(Tail(s2c[c])) = Len(s2c[c]) - 1
  <2>1. FromTheServer(s2c[c], ctx[p].sSeq)
    BY <1>2, <1>4 DEF LifeInv, InStep
  <2>2. QED
    BY <1>3, <2>1, TailFromTheServer, TailQueue
<1>6. /\ ctx' = [ctx EXCEPT ![p] = [cSeq |-> ctx[p].cSeq, sSeq |-> ctx[p].sSeq + 1]]
      /\ s2c' = [s2c EXCEPT ![c] = Tail(s2c[c])]
      /\ \E place \in {"run", "held"} : at' = [at EXCEPT ![p] = place]
      /\ n' = n /\ UNCHANGED <<served, srv, node, backlog, cut, c2s>>
  <2>1. /\ ctx' = [ctx EXCEPT ![p] = [ctx[p] EXCEPT !.sSeq = ctx[p].sSeq + 1]]
        /\ s2c' = [s2c EXCEPT ![c] = Tail(s2c[c])]
        /\ \E place \in {"run", "held"} : at' = [at EXCEPT ![p] = place]
        /\ n' = n /\ UNCHANGED <<served, srv, node, backlog, cut, c2s>>
    BY <1>1, <1>2, <1>5 DEF FromServer, Get, Goto, server, TypeOK
  <2>2. QED
    BY <1>3, <2>1, NumbersExcept
<1>7. TypeOK'
  <2>1. ctx' \in [Client -> Numbers] /\ s2c' \in [Tunnels -> Seq(Packets)]
    BY <1>1, <1>3, <1>5, <1>6 DEF TypeOK, Numbers
  <2>2. at' \in [Client -> Places]
    BY <1>1, <1>6 DEF TypeOK, Places
  <2>3. QED
    BY <1>1, <1>6, <2>1, <2>2 DEF TypeOK
<1>8. \A q \in Client : at'[q] \notin {"off", "ended"} => n'[q] >= 1
  BY <1>1, <1>6 DEF IInv, TypeOK
<1>9. ASSUME NEW t \in Tunnels, t # c PROVE Untouched(t)
  BY <1>1, <1>2, <1>6, <1>9, TunnelShape DEF Untouched, Begun, Greeting, InSession, Cur, TypeOK
<1>10. LifeInv(c)'
  <2>1. /\ InSession(c)' /\ ~Greeting(c)' /\ Begun(c)' /\ Sending(p)' = Sending(p)
        /\ ctx'[p].cSeq = ctx[p].cSeq /\ ctx'[p].sSeq = ctx[p].sSeq + 1
        /\ s2c'[c] = Tail(s2c[c])
    BY <1>1, <1>2, <1>4, <1>6 DEF TypeOK, InSession, Greeting, Begun, Sending, Cur
  <2>2. ~Unread(c) /\ ~Unread(c)' /\ ~AtServer(c, "third") /\ ~AtServer(c, "third")'
    BY <1>2, <1>3, <1>4, <1>6 DEF LifeInv, UnreadInv, ThirdInv, Unread, AtServer
  <2>3. FreshInv(c)' /\ CutInv(c)' /\ UnreadInv(c)' /\ HelloInv(c)' /\ ThirdInv(c)' /\ AnswerInv(c)'
    BY <1>2, <1>4, <1>6, <2>1, <2>2 DEF LifeInv, FreshInv, CutInv, UnreadInv, HelloInv, ThirdInv,
       AnswerInv, Unread, AtServer, Answering
  <2>4. InStep(c)'
    BY <1>2, <1>5, <1>6, <2>1 DEF LifeInv, InStep
  <2>5. Complete(c)'
    <3>1. SUFFICES ASSUME node[c] # NoNode, ~cut[c]  PROVE Complete(c)'
      BY <1>6 DEF Complete
    <3>2. /\ ctx[p].cSeq = node[c].cSeq + Len(c2s[c]) + Sending(p)
          /\ node[c].sSeq = ctx[p].sSeq + Len(s2c[c]) + Answering(c)
      BY <1>2, <1>4, <3>1 DEF LifeInv, Complete
    <3>3. Answering(c)' = Answering(c) /\ Answering(c) \in Nat
      BY <1>6 DEF Answering
    <3>4. node[c].sSeq = ctx'[p].sSeq + Len(s2c'[c]) + Answering(c)
      BY <1>3, <1>5, <2>1, <3>2, <3>3
    <3>5. QED
      BY <1>2, <1>6, <2>1, <3>2, <3>3, <3>4 DEF Complete
  <2>6. QED
    BY <2>3, <2>4, <2>5 DEF LifeInv
<1>11. QED
  BY <1>7, <1>8, <1>9, <1>10, OneTunnel

\* The second packet is received and the third sent; or the handshake is over.
LEMMA SendThirdKeeps ==
    ASSUME IInv, NEW p \in Client, SendThird(p)
    PROVE  IInv'
<1>1. TypeOK /\ at[p] = "hello" /\ n[p] >= 1
  BY DEF IInv, SendThird
<1>2. PICK c \in Tunnels : c = Cur(p) /\ c[1] = p /\ c[2] = n[p] /\ LifeInv(c)
  BY <1>1, CurTunnel DEF IInv
<1>3. PICK m \in Packets : m = Head(s2c[c])
  BY <1>1, <1>2, TailQueue DEF TypeOK, SendThird
<1>4. CASE ~(m.cSeq = ctx[p].cSeq /\ m.type = "second")
  <2>1. Goto(p, "ended") /\ Close(p) /\ UNCHANGED <<n, served, server, backlog, c2s>>
    BY <1>2, <1>3, <1>4 DEF SendThird
  <2>2. QED
    BY <1>1, <2>1, CloseKeeps
<1>5. CASE m.cSeq = ctx[p].cSeq /\ m.type = "second"
  <2>1. /\ c2s[c] \in Seq(Packets) /\ s2c[c] \in Seq(Packets) /\ s2c[c] # <<>>
        /\ m.cSeq \in Nat /\ m.sSeq \in Nat /\ srv.cSeq \in Nat /\ srv.sSeq \in Nat
        /\ Packet("third", m.cSeq + 1, m.sSeq) \in Packets
    <3>1. m.cSeq \in Nat /\ m.sSeq \in Nat
      BY DEF Packets
    <3>2. Packet("third", m.cSeq + 1, m.sSeq) \in Packets
      BY <3>1, PacketType
    <3>3. QED
      BY <1>1, <1>2, <3>1, <3>2, TunnelTypes DEF SendThird
  <2>2. Greeting(c) /\ ~InSession(c) /\ Begun(c)
    BY <1>1, <1>2 DEF Greeting, InSession, Begun, TypeOK
  <2>3. /\ node[c] = NoNode /\ ~Unread(c) /\ Len(s2c[c]) <= 1
        /\ AtServer(c, "third") =>
             c2s[c] = <<>> /\ srv.cSeq = m.cSeq /\ srv.sSeq = m.sSeq
        /\ ~AtServer(c, "third") => cut[c]
    BY <1>2, <1>3, <1>5, <2>1, <2>2, TailQueue DEF LifeInv, UnreadInv, HelloInv, CutInv
  <2>4. Tail(s2c[c]) = <<>>
    BY <2>1, <2>3
  <2>5. /\ ctx' = [ctx EXCEPT ![p] = [cSeq |-> m.cSeq + 1, sSeq |-> m.sSeq]]
        /\ c2s' = IF cut[c] THEN c2s
                  ELSE [c2s EXCEPT ![c] = Append(c2s[c], Packet("third", m.cSeq + 1, m.sSeq))]
        /\ s2c' = [s2c EXCEPT ![c] = <<>>]
        /\ at' = [at EXCEPT ![p] = "listen"] /\ n' = n
        /\ UNCHANGED <<served, srv, node, backlog, cut>>
    BY <1>1, <1>2, <1>3, <1>5, <2>4 DEF SendThird, NewContext, Put, Get, Goto, server, TypeOK
  <2>6. TypeOK'
    <3>1. c2s' \in [Tunnels -> Seq(Packets)] /\ s2c' \in [Tunnels -> Seq(Packets)]
      BY <1>1, <2>1, <2>5, AppendQueue DEF TypeOK
    <3>2. ctx' \in [Client -> Numbers] /\ at' \in [Client -> Places]
      BY <1>1, <2>1, <2>5 DEF TypeOK, Places, Numbers
    <3>3. QED
      BY <1>1, <2>5, <3>1, <3>2 DEF TypeOK
  <2>7. \A q \in Client : at'[q] \notin {"off", "ended"} => n'[q] >= 1
    BY <1>1, <2>5 DEF IInv, TypeOK
  <2>8. ASSUME NEW t \in Tunnels, t # c PROVE Untouched(t)
    BY <1>1, <1>2, <2>5, <2>8, TunnelShape DEF Untouched, Begun, Greeting, InSession, Cur, TypeOK
  <2>9. LifeInv(c)'
    <3>1. /\ InSession(c)' /\ ~Greeting(c)' /\ Begun(c)' /\ Sending(p)' = 0
          /\ ctx'[p].cSeq = m.cSeq + 1 /\ ctx'[p].sSeq = m.sSeq /\ s2c'[c] = <<>>
      BY <1>1, <1>2, <2>2, <2>5 DEF TypeOK, InSession, Greeting, Begun, Sending, Cur
    <3>2. ~Unread(c)' /\ (AtServer(c, "third")' <=> AtServer(c, "third"))
      BY <2>3, <2>5 DEF Unread, AtServer
    <3>3. FreshInv(c)' /\ CutInv(c)' /\ UnreadInv(c)' /\ HelloInv(c)' /\ AnswerInv(c)' /\ Complete(c)'
      BY <1>2, <2>2, <2>3, <2>5, <3>1, <3>2 DEF LifeInv, FreshInv, CutInv, UnreadInv, HelloInv,
         AnswerInv, Complete, Unread, AtServer, Answering
    <3>4. InStep(c)'
      BY <1>2, <2>3, <2>5, <3>1, EmptyQueue DEF InStep
    <3>5. ThirdInv(c)'
      <4>1. CASE ~AtServer(c, "third")
        BY <3>2, <4>1 DEF ThirdInv
      <4>2. CASE AtServer(c, "third") /\ cut[c]
        BY <1>2, <2>3, <2>5, <3>1, <4>2, EmptyQueue DEF ThirdInv
      <4>3. CASE AtServer(c, "third") /\ ~cut[c]
        <5>1. c2s'[c] = <<Packet("third", srv.cSeq + 1, srv.sSeq)>>
          BY <1>1, <2>3, <2>5, <4>3 DEF TypeOK
        <5>2. FromHello(c2s'[c], srv.cSeq, srv.sSeq)
          BY <2>1, <5>1, SingleFromHello
        <5>3. c2s'[c] # <<>> /\ Len(c2s'[c]) = 1
          BY <5>1
        <5>4. QED
          BY <1>2, <2>1, <2>3, <2>5, <3>1, <4>3, <5>2, <5>3 DEF ThirdInv
      <4>4. QED
        BY <4>1, <4>2, <4>3
    <3>6. QED
      BY <3>3, <3>4, <3>5 DEF LifeInv
  <2>10. QED
    BY <2>6, <2>7, <2>8, <2>9, OneTunnel
<1>6. QED
  BY <1>4, <1>5

\* All steps of a client.
LEMMA ClientKeeps ==
    ASSUME IInv, NEW p \in Client, ClientStep(p)
    PROVE  IInv'
<1>1. TypeOK
  BY DEF IInv
<1>2. CASE Connect(p)
  BY <1>2, ConnectKeeps
<1>3. CASE ConnectFails(p)
  BY <1>3, ConnectFailsKeeps
<1>4. CASE SendFirst(p)
  BY <1>4, SendFirstKeeps
<1>5. CASE SendThird(p)
  BY <1>5, SendThirdKeeps
<1>6. CASE ShakeFails(p) \/ ListenFails(p) \/ Leave(p) \/ Killed(p) \/ DataFails(p)
  BY <1>6, CloseKeeps DEF ShakeFails, ListenFails, Leave, Killed, DataFails
<1>7. CASE Listen(p)
  <2>1. served' \in [Client -> BOOLEAN]
    BY <1>1, <1>7 DEF TypeOK, Listen
  <2>2. QED
    BY <1>7, <2>1, SessionKeeps DEF Listen
<1>8. CASE \/ AcceptUser(p) \/ UserLeaves(p) \/ RequestFails(p)
           \/ ReadSilentUser(p) \/ UserMoves(p)
  <2>1. served' \in [Client -> BOOLEAN]
    BY <1>1, <1>8 DEF TypeOK, AcceptUser, UserLeaves, RequestFails, ReadSilentUser, UserMoves
  <2>2. QED
    BY <1>8, <2>1, SessionKeeps
    DEF AcceptUser, UserLeaves, RequestFails, ReadSilentUser, UserMoves
<1>9. CASE UserAsks(p) \/ UserData(p)
  BY <1>9, BeginMessageKeeps DEF UserAsks, UserData
<1>10. CASE EndMessage(p)
  BY <1>10, EndMessageKeeps
<1>11. CASE FromServer(p)
  BY <1>11, FromServerKeeps
<1>12. QED
  BY <1>2, <1>3, <1>4, <1>5, <1>6, <1>7, <1>8, <1>9, <1>10, <1>11 DEF ClientStep, Shake, SendReturns

-----------------------------------------------------------------------------
(* The steps of the server.                                                *)

LEMMA IdleType == Idle.at = "loop" /\ Idle \in [at : {"loop"}, t : {NoNode}, cSeq : Nat, sSeq : Nat]
BY DEF Idle

\* The server works on one tunnel at a time.
LEMMA OneServed ==
    ASSUME IInv, TypeOK', NEW c \in Tunnels, LifeInv(c)', UNCHANGED client,
           srv.at = "loop" \/ srv.t = c, srv'.at = "loop" \/ srv'.t = c,
           \A t \in Tunnels : t # c =>
               /\ node'[t] = node[t] /\ c2s'[t] = c2s[t] /\ s2c'[t] = s2c[t] /\ cut'[t] = cut[t]
               /\ t \in backlog' <=> t \in backlog
    PROVE  IInv'
<1>1. /\ at' = at /\ n' = n /\ ctx' = ctx
  BY DEF client
<1>2. ASSUME NEW t \in Tunnels, t # c PROVE Untouched(t)
  BY <1>1, <1>2 DEF Untouched, Begun, Greeting, InSession, Cur
<1>3. \A q \in Client : at'[q] \notin {"off", "ended"} => n'[q] >= 1
  BY <1>1 DEF IInv
<1>4. QED
  BY <1>2, <1>3, OneTunnel

\* A client is dropped: in its handshake, or later.
LEMMA DropKeeps ==
    ASSUME IInv, NEW c \in Tunnels, Drop(c), UNCHANGED <<client, backlog, s2c>>,
           \/ srv.at = "loop" /\ node[c] # NoNode
           \/ AtServer(c, "first") \/ AtServer(c, "third")
           \/ AtServer(c, "reply")
    PROVE  IInv'
<1>1. TypeOK /\ LifeInv(c)
  BY DEF IInv
<1>2. /\ node' = [node EXCEPT ![c] = NoNode] /\ cut' = [cut EXCEPT ![c] = TRUE]
      /\ c2s' = [c2s EXCEPT ![c] = <<>>] /\ srv' = Idle
      /\ UNCHANGED <<at, n, ctx, served, backlog, s2c>>
  BY DEF Drop, Cut, Flushed, client
<1>3. /\ node'[c] = NoNode /\ cut'[c] /\ c2s'[c] = <<>> /\ srv'.at = "loop"
  BY <1>1, <1>2, IdleType DEF TypeOK
<1>4. TypeOK'
  BY <1>1, <1>2, IdleType DEF TypeOK
<1>5. c \notin backlog /\ Begun(c)
  BY <1>1 DEF LifeInv, FreshInv, UnreadInv, Unread, AnswerInv, Answering, AtServer
<1>6. LifeInv(c)'
  <2>1. /\ (Greeting(c)' <=> Greeting(c)) /\ (InSession(c)' <=> InSession(c))
        /\ Begun(c)' /\ ~Unread(c)' /\ ~AtServer(c, "third")'
    BY <1>2, <1>3, <1>5 DEF Greeting, InSession, Begun, Cur, Unread, AtServer
  <2>2. FreshInv(c)' /\ CutInv(c)' /\ UnreadInv(c)' /\ ThirdInv(c)' /\ AnswerInv(c)' /\ Complete(c)'
    BY <1>2, <1>3, <1>5, <2>1 DEF FreshInv, CutInv, UnreadInv, ThirdInv, AnswerInv, Answering,
       Complete,
       Unread, AtServer
  <2>3. HelloInv(c)'
    BY <1>1, <1>2, <1>3, <2>1 DEF LifeInv, HelloInv
  <2>4. InStep(c)'
    BY <1>1, <1>2, <1>3, <2>1 DEF LifeInv, InStep
  <2>5. QED
    BY <2>2, <2>3, <2>4 DEF LifeInv
<1>7. srv.at = "loop" \/ srv.t = c
  BY DEF AtServer
<1>8. ASSUME NEW t \in Tunnels, t # c
      PROVE  /\ node'[t] = node[t] /\ c2s'[t] = c2s[t] /\ s2c'[t] = s2c[t] /\ cut'[t] = cut[t]
             /\ t \in backlog' <=> t \in backlog
  BY <1>1, <1>2, <1>8 DEF TypeOK
<1>9. QED
  BY <1>3, <1>4, <1>6, <1>7, <1>8, OneServed

\* A connection is accepted.
LEMMA AcceptKeeps ==
    ASSUME IInv, NEW c \in Tunnels, Accept(c)
    PROVE  IInv'
<1>1. TypeOK /\ LifeInv(c) /\ srv.at = "loop" /\ c \in backlog
  BY DEF IInv, Accept
<1>2. PICK s \in ServerStart : srv' = [at |-> "first", t |-> c, cSeq |-> 0, sSeq |-> s]
  BY DEF Accept, Busy
<1>3. /\ backlog' = backlog \ {c}
      /\ UNCHANGED <<at, n, ctx, served, node, cut, c2s, s2c>>
  BY DEF Accept, client
<1>4. srv'.at = "first" /\ srv'.t = c /\ srv'.sSeq = s /\ s \in Nat
  BY <1>2, StartAssumption
<1>5. TypeOK'
  BY <1>1, <1>2, <1>3, <1>4 DEF TypeOK
<1>6. LifeInv(c)'
  <2>1. /\ (Greeting(c)' <=> Greeting(c)) /\ (InSession(c)' <=> InSession(c))
        /\ (Begun(c)' <=> Begun(c)) /\ Unread(c) /\ Unread(c)'
        /\ ~AtServer(c, "third") /\ ~AtServer(c, "third")'
    BY <1>1, <1>3, <1>4 DEF Greeting, InSession, Begun, Cur, Unread, AtServer
  <2>2. FreshInv(c)' /\ CutInv(c)' /\ UnreadInv(c)' /\ HelloInv(c)' /\ ThirdInv(c)' /\ AnswerInv(c)'
    BY <1>1, <1>3, <1>4, <2>1 DEF LifeInv, FreshInv, CutInv, UnreadInv, HelloInv, ThirdInv,
       AnswerInv,
       Answering, Unread, AtServer
  <2>3. InStep(c)' /\ Complete(c)'
    BY <1>1, <1>3, <2>1 DEF LifeInv, UnreadInv, InStep, Complete
  <2>4. QED
    BY <2>2, <2>3 DEF LifeInv
<1>7. ASSUME NEW t \in Tunnels, t # c
      PROVE  /\ node'[t] = node[t] /\ c2s'[t] = c2s[t] /\ s2c'[t] = s2c[t] /\ cut'[t] = cut[t]
             /\ t \in backlog' <=> t \in backlog
  BY <1>3, <1>7
<1>8. UNCHANGED client
  BY DEF Accept
<1>9. QED
  BY <1>1, <1>4, <1>5, <1>6, <1>7, <1>8, OneServed

\* The first packet is received and the second sent; or the handshake is over.
LEMMA SendSecondKeeps ==
    ASSUME IInv, NEW c \in Tunnels, SendSecond(c)
    PROVE  IInv'
<1>1. TypeOK /\ LifeInv(c) /\ srv.at = "first" /\ srv.t = c /\ AtServer(c, "first")
  BY DEF IInv, SendSecond, AtServer
<1>2. PICK m \in Packets : m = Head(c2s[c])
  BY <1>1, TailQueue DEF TypeOK, SendSecond
<1>3. CASE m.type # "first"
  <2>1. Drop(c) /\ UNCHANGED <<client, backlog, s2c>>
    BY <1>2, <1>3 DEF SendSecond
  <2>2. QED
    BY <1>1, <2>1, DropKeeps
<1>4. CASE m.type = "first"
  <2>1. /\ c2s[c] \in Seq(Packets) /\ c2s[c] # <<>>
        /\ m.cSeq \in Nat /\ srv.sSeq \in Nat
        /\ Packet("second", m.cSeq, srv.sSeq) \in Packets
    <3>1. m.cSeq \in Nat /\ srv.sSeq \in Nat
      BY <1>1 DEF Packets, TypeOK
    <3>2. Packet("second", m.cSeq, srv.sSeq) \in Packets
      BY <3>1, PacketType
    <3>3. QED
      BY <1>1, <3>1, <3>2 DEF SendSecond, TypeOK
  <2>2. /\ Unread(c) /\ node[c] = NoNode /\ s2c[c] = <<>> /\ Len(c2s[c]) <= 1 /\ ~InSession(c)
        /\ c \notin backlog /\ Begun(c)
        /\ Greeting(c) => m.cSeq = ctx[c[1]].cSeq /\ at[c[1]] = "hello"
    <3>1. /\ Unread(c) /\ node[c] = NoNode /\ s2c[c] = <<>> /\ Len(c2s[c]) <= 1 /\ ~InSession(c)
          /\ c \notin backlog /\ Begun(c)
          /\ Greeting(c) => c2s[c][1].cSeq = ctx[c[1]].cSeq
      BY <1>1, <2>1 DEF LifeInv, UnreadInv, FreshInv, Unread
    <3>2. m = c2s[c][1]
      BY <1>2, <2>1, TailQueue
    <3>3. Greeting(c) => at[c[1]] = "hello"
      BY <1>1, <2>1 DEF LifeInv, HelloInv, Greeting
    <3>4. QED
      BY <3>1, <3>2, <3>3
  <2>3. Tail(c2s[c]) = <<>>
    BY <2>1, <2>2
  <2>4. /\ c2s' = [c2s EXCEPT ![c] = <<>>]
        /\ s2c' = IF cut[c] THEN s2c ELSE [s2c EXCEPT ![c] = Append(s2c[c], Packet("second", m.cSeq, srv.sSeq))]
        /\ srv' = [at |-> "third", t |-> c, cSeq |-> m.cSeq, sSeq |-> srv.sSeq]
        /\ UNCHANGED <<at, n, ctx, served, node, backlog, cut>>
    BY <1>1, <1>2, <1>4, <2>3 DEF SendSecond, Get, Put, Busy, client, TypeOK
  <2>5. TypeOK'
    <3>1. s2c' \in [Tunnels -> Seq(Packets)] /\ c2s' \in [Tunnels -> Seq(Packets)]
      BY <1>1, <2>1, <2>2, <2>4, AppendQueue DEF TypeOK
    <3>2. QED
      BY <1>1, <2>1, <2>4, <3>1 DEF TypeOK
  <2>6. LifeInv(c)'
    <3>1. /\ srv'.at = "third" /\ srv'.t = c /\ srv'.cSeq = m.cSeq /\ srv'.sSeq = srv.sSeq
          /\ c2s'[c] = <<>>
          /\ s2c'[c] = IF cut[c] THEN <<>> ELSE <<Packet("second", m.cSeq, srv.sSeq)>>
      BY <1>1, <2>2, <2>4 DEF TypeOK
    <3>2. /\ (Greeting(c)' <=> Greeting(c)) /\ ~InSession(c)' /\ Begun(c)' /\ ~Unread(c)'
          /\ AtServer(c, "third")' /\ ~AtServer(c, "first")'
      BY <2>2, <2>4, <3>1 DEF Greeting, InSession, Begun, Cur, Unread, AtServer
    <3>3. Len(s2c'[c]) <= 1 /\ (s2c'[c] # <<>> => s2c'[c][1].sSeq = srv.sSeq)
      BY <3>1 DEF Packet
    <3>4. FreshInv(c)' /\ CutInv(c)' /\ UnreadInv(c)' /\ AnswerInv(c)' /\ InStep(c)' /\ Complete(c)'
      BY <1>1, <2>2, <2>4, <3>1, <3>2 DEF LifeInv, FreshInv, CutInv, UnreadInv, AnswerInv,
         InStep, Complete,
         Answering, Unread
    <3>5. HelloInv(c)'
      BY <2>2, <2>4, <3>1, <3>2, <3>3 DEF HelloInv
    <3>6. ThirdInv(c)'
      BY <2>2, <2>4, <3>1, <3>2, EmptyQueue DEF ThirdInv
    <3>7. QED
      BY <3>4, <3>5, <3>6 DEF LifeInv
  <2>7. ASSUME NEW t \in Tunnels, t # c
        PROVE  /\ node'[t] = node[t] /\ c2s'[t] = c2s[t] /\ s2c'[t] = s2c[t] /\ cut'[t] = cut[t]
               /\ t \in backlog' <=> t \in backlog
    BY <1>1, <2>4, <2>7 DEF TypeOK
  <2>8. UNCHANGED client /\ srv'.t = c
    BY <2>4 DEF client
  <2>9. QED
    BY <1>1, <2>5, <2>6, <2>7, <2>8, OneServed
<1>5. QED
  BY <1>3, <1>4

\* The third packet is received; or the handshake is over.
LEMMA RegisterKeeps ==
    ASSUME IInv, NEW c \in Tunnels, Register(c)
    PROVE  IInv'
<1>1. TypeOK /\ LifeInv(c) /\ srv.at = "third" /\ srv.t = c /\ AtServer(c, "third")
  BY DEF IInv, Register, AtServer
<1>2. /\ c2s[c] \in Seq(Packets) /\ c2s[c] # <<>> /\ Len(c2s[c]) \in Nat
      /\ srv.cSeq \in Nat /\ srv.sSeq \in Nat
  BY <1>1, TunnelTypes DEF Register
<1>3. /\ FromHello(c2s[c], srv.cSeq, srv.sSeq) /\ node[c] = NoNode
      /\ ~Unread(c) /\ ~Greeting(c) /\ Begun(c) /\ c \notin backlog
  BY <1>1, <1>2 DEF LifeInv, ThirdInv, UnreadInv, HelloInv, FreshInv, Unread
<1>4. /\ FromClient(Tail(c2s[c]), srv.cSeq + 1)
      /\ Head(c2s[c]).type = "third" /\ Head(c2s[c]).cSeq = srv.cSeq + 1 /\ Head(c2s[c]).sSeq = srv.sSeq
      /\ Tail(c2s[c]) \in Seq(Packets) /\ Len(Tail(c2s[c])) = Len(c2s[c]) - 1
  BY <1>2, <1>3, TailFromHello, TailQueue
<1>5. /\ c2s' = [c2s EXCEPT ![c] = Tail(c2s[c])]
      /\ node' = [node EXCEPT ![c] = [cSeq |-> srv.cSeq + 1, sSeq |-> srv.sSeq]]
      /\ srv' = Idle
      /\ UNCHANGED <<at, n, ctx, served, backlog, cut, s2c>>
  BY <1>1, <1>4 DEF Register, Get, client, TypeOK
<1>6. TypeOK'
  <2>1. c2s' \in [Tunnels -> Seq(Packets)]
    BY <1>1, <1>4, <1>5 DEF TypeOK
  <2>2. node' \in [Tunnels -> Numbers \cup {NoNode}]
    BY <1>1, <1>2, <1>5 DEF TypeOK, Numbers
  <2>3. QED
    BY <1>1, <1>5, <2>1, <2>2, IdleType DEF TypeOK
<1>7. LifeInv(c)'
  <2>1. /\ srv'.at = "loop" /\ c2s'[c] = Tail(c2s[c])
        /\ node'[c] = [cSeq |-> srv.cSeq + 1, sSeq |-> srv.sSeq]
        /\ node'[c].cSeq = srv.cSeq + 1 /\ node'[c].sSeq = srv.sSeq
    BY <1>1, <1>5, IdleType DEF TypeOK
  <2>2. /\ ~Greeting(c)' /\ (InSession(c)' <=> InSession(c)) /\ Begun(c)' /\ ~Unread(c)'
        /\ ~AtServer(c, "third")' /\ Sending(c[1])' = Sending(c[1]) /\ Answering(c)' = 0
    BY <1>3, <1>5, <2>1 DEF Greeting, InSession, Begun, Cur, Unread, AtServer, Sending, Answering
  <2>3. node'[c] # NoNode
    BY <1>2, <2>1, NoNodeAssumption
  <2>4. FreshInv(c)' /\ CutInv(c)' /\ UnreadInv(c)' /\ HelloInv(c)' /\ ThirdInv(c)' /\ AnswerInv(c)'
    BY <1>1, <1>3, <1>5, <2>1, <2>2, <2>3 DEF LifeInv, FreshInv, CutInv, UnreadInv, HelloInv,
       ThirdInv,
       AnswerInv, AtServer
  <2>5. InStep(c)'
    BY <1>1, <1>4, <1>5, <2>1, <2>2 DEF LifeInv, InStep
  <2>6. Complete(c)'
    <3>1. SUFFICES ASSUME InSession(c), ~cut[c]  PROVE Complete(c)'
      BY <1>5, <2>2 DEF Complete
    <3>2. /\ ctx[c[1]].sSeq = srv.sSeq /\ s2c[c] = <<>>
          /\ ctx[c[1]].cSeq = srv.cSeq + Len(c2s[c]) + Sending(c[1])
      BY <1>1, <3>1 DEF LifeInv, ThirdInv
    <3>3. Sending(c[1]) \in Nat
      BY DEF Sending
    <3>4. ctx[c[1]].cSeq = node'[c].cSeq + Len(c2s'[c]) + Sending(c[1])
      BY <1>2, <1>4, <2>1, <3>2, <3>3
    <3>5. node'[c].sSeq = ctx[c[1]].sSeq + Len(s2c[c]) + 0
      BY <1>2, <2>1, <3>2
    <3>6. QED
      BY <1>5, <2>2, <3>4, <3>5 DEF Complete
  <2>7. QED
    BY <2>4, <2>5, <2>6 DEF LifeInv
<1>8. ASSUME NEW t \in Tunnels, t # c
      PROVE  /\ node'[t] = node[t] /\ c2s'[t] = c2s[t] /\ s2c'[t] = s2c[t] /\ cut'[t] = cut[t]
             /\ t \in backlog' <=> t \in backlog
  BY <1>1, <1>5, <1>8 DEF TypeOK
<1>9. UNCHANGED client /\ srv'.at = "loop"
  BY <1>5, IdleType DEF client
<1>10. QED
  BY <1>1, <1>6, <1>7, <1>8, <1>9, OneServed

\* A packet of a client in session is received: its data goes to a host, or a reply begins.
LEMMA ReceiveKeeps ==
    ASSUME IInv, NEW c \in Tunnels, Receive(c)
    PROVE  IInv'
<1>1. TypeOK /\ LifeInv(c) /\ srv.at = "loop" /\ node[c] # NoNode
  BY DEF IInv, Receive
<1>2. /\ c2s[c] \in Seq(Packets) /\ c2s[c] # <<>> /\ Len(c2s[c]) \in Nat
      /\ node[c] \in Numbers /\ node[c].cSeq \in Nat /\ node[c].sSeq \in Nat
  BY <1>1, TunnelTypes DEF Receive, TypeOK
<1>3. /\ ~Unread(c) /\ ~Greeting(c) /\ Begun(c) /\ c \notin backlog /\ Answering(c) = 0
  BY <1>1 DEF LifeInv, UnreadInv, HelloInv, FreshInv, Unread, Answering
<1>4. /\ FromClient(Tail(c2s[c]), node[c].cSeq + 1)
      /\ Head(c2s[c]).type = "message" /\ Head(c2s[c]).cSeq = node[c].cSeq + 1
      /\ Tail(c2s[c]) \in Seq(Packets) /\ Len(Tail(c2s[c])) = Len(c2s[c]) - 1
  <2>1. FromClient(c2s[c], node[c].cSeq)
    BY <1>1 DEF LifeInv, InStep
  <2>2. QED
    BY <1>2, <2>1, TailFromClient, TailQueue
<1>5. PICK a \in {0, 1}, k \in Nat :
         /\ k = node[c].sSeq + a
         /\ node' = [node EXCEPT ![c] = [cSeq |-> node[c].cSeq + 1, sSeq |-> k]]
         /\ a = 0 => srv' = srv
         /\ a = 1 => srv' = [at |-> "reply", t |-> c, cSeq |-> 0, sSeq |-> 0]
  <2>1. CASE node' = [node EXCEPT ![c].cSeq = node[c].cSeq + 1] /\ srv' = srv
    <3>1. node' = [node EXCEPT ![c] = [node[c] EXCEPT !.cSeq = node[c].cSeq + 1]]
      BY <1>1, <2>1 DEF TypeOK
    <3>2. node' = [node EXCEPT ![c] = [cSeq |-> node[c].cSeq + 1, sSeq |-> node[c].sSeq]]
      BY <1>2, <3>1, NumbersExcept
    <3>3. node[c].sSeq = node[c].sSeq + 0 /\ srv' = srv
      BY <1>2, <2>1
    <3>4. node[c].sSeq \in Nat
      BY <1>2
    <3>5. WITNESS 0 \in {0, 1}, node[c].sSeq \in Nat
    <3>6. QED
      BY <3>2, <3>3
  <2>2. CASE /\ node' = [node EXCEPT ![c] = [cSeq |-> node[c].cSeq + 1, sSeq |-> node[c].sSeq + 1]]
             /\ srv' = [at |-> "reply", t |-> c, cSeq |-> 0, sSeq |-> 0]
    <3>1. node[c].sSeq + 1 \in Nat
      BY <1>2
    <3>2. WITNESS 1 \in {0, 1}, node[c].sSeq + 1 \in Nat
    <3>3. QED
      BY <2>2
  <2>3. QED
    BY <1>1, <1>4, <2>1, <2>2 DEF Receive, NextAnswer, Busy
<1>6. /\ c2s' = [c2s EXCEPT ![c] = Tail(c2s[c])]
      /\ UNCHANGED <<at, n, ctx, served, backlog, cut, s2c>>
  BY <1>1, <1>4 DEF Receive, Get, client, TypeOK
<1>7. TypeOK'
  <2>1. c2s' \in [Tunnels -> Seq(Packets)]
    BY <1>1, <1>4, <1>6 DEF TypeOK
  <2>2. node' \in [Tunnels -> Numbers \cup {NoNode}]
    BY <1>1, <1>2, <1>5 DEF TypeOK, Numbers
  <2>3. srv' = srv \/ srv' = [at |-> "reply", t |-> c, cSeq |-> 0, sSeq |-> 0]
    BY <1>5
  <2>4. QED
    BY <1>1, <1>6, <2>1, <2>2, <2>3 DEF TypeOK
<1>8. LifeInv(c)'
  <2>1. /\ c2s'[c] = Tail(c2s[c])
        /\ node'[c] = [cSeq |-> node[c].cSeq + 1, sSeq |-> k]
        /\ node'[c].cSeq = node[c].cSeq + 1 /\ node'[c].sSeq = node[c].sSeq + a
    BY <1>1, <1>5, <1>6 DEF TypeOK
  <2>2. srv'.at = (IF a = 0 THEN "loop" ELSE "reply") /\ (a = 1 => srv'.t = c)
    BY <1>1, <1>5
  <2>3. /\ ~Greeting(c)' /\ (InSession(c)' <=> InSession(c)) /\ Begun(c)' /\ ~Unread(c)'
        /\ ~AtServer(c, "third")' /\ Sending(c[1])' = Sending(c[1]) /\ Answering(c)' = a
    BY <1>3, <1>5, <1>6, <2>2 DEF Greeting, InSession, Begun, Cur, Unread, AtServer, Sending,
       Answering
  <2>4. node'[c] # NoNode
    BY <1>2, <2>1, NoNodeAssumption
  <2>5. FreshInv(c)' /\ CutInv(c)' /\ UnreadInv(c)' /\ HelloInv(c)' /\ ThirdInv(c)' /\ AnswerInv(c)'
    BY <1>1, <1>3, <1>6, <2>2, <2>3, <2>4 DEF LifeInv, FreshInv, CutInv, UnreadInv, HelloInv,
       ThirdInv,
       AnswerInv, AtServer
  <2>6. InStep(c)'
    BY <1>1, <1>4, <1>6, <2>1, <2>3 DEF LifeInv, InStep
  <2>7. Complete(c)'
    <3>1. SUFFICES ASSUME InSession(c), ~cut[c]  PROVE Complete(c)'
      BY <1>6, <2>3 DEF Complete
    <3>2. /\ ctx[c[1]].cSeq = node[c].cSeq + Len(c2s[c]) + Sending(c[1])
          /\ node[c].sSeq = ctx[c[1]].sSeq + Len(s2c[c]) + 0
      BY <1>1, <1>3, <3>1 DEF LifeInv, Complete
    <3>3. Sending(c[1]) \in Nat
      BY DEF Sending
    <3>4. ctx[c[1]].cSeq = node'[c].cSeq + Len(c2s'[c]) + Sending(c[1])
      <4>1. Len(c2s'[c]) = Len(c2s[c]) - 1 /\ node'[c].cSeq = node[c].cSeq + 1
        BY <1>4, <2>1
      <4>2. node[c].cSeq \in Nat /\ Len(c2s[c]) \in Nat
        BY <1>2
      <4>3. ctx[c[1]].cSeq = node[c].cSeq + Len(c2s[c]) + Sending(c[1])
        BY <3>2
      <4>4. QED
        BY <3>3, <4>1, <4>2, <4>3
    <3>5. node'[c].sSeq = ctx[c[1]].sSeq + Len(s2c[c]) + a
      <4>1. ctx[c[1]].sSeq \in Nat /\ Len(s2c[c]) \in Nat
        BY <1>1, TunnelTypes
      <4>2. QED
        BY <1>2, <2>1, <3>2, <4>1
    <3>6. QED
      BY <1>6, <2>3, <3>4, <3>5 DEF Complete
  <2>8. QED
    BY <2>5, <2>6, <2>7 DEF LifeInv
<1>9. ASSUME NEW t \in Tunnels, t # c
      PROVE  /\ node'[t] = node[t] /\ c2s'[t] = c2s[t] /\ s2c'[t] = s2c[t] /\ cut'[t] = cut[t]
             /\ t \in backlog' <=> t \in backlog
  BY <1>1, <1>5, <1>6, <1>9 DEF TypeOK
<1>10. UNCHANGED client /\ (srv'.at = "loop" \/ srv'.t = c)
  BY <1>1, <1>5, <1>6 DEF client
<1>11. QED
  BY <1>1, <1>7, <1>8, <1>9, <1>10, OneServed

\* sendData takes a number.
LEMMA HostDataKeeps ==
    ASSUME IInv, NEW c \in Tunnels, HostData(c)
    PROVE  IInv'
<1>1. TypeOK /\ LifeInv(c) /\ srv.at = "loop" /\ node[c] # NoNode
  BY DEF IInv, HostData
<1>2. node[c] \in Numbers /\ node[c].cSeq \in Nat /\ node[c].sSeq \in Nat
  BY <1>1, TunnelTypes DEF TypeOK
<1>3. /\ ~Unread(c) /\ ~Greeting(c) /\ Begun(c) /\ c \notin backlog /\ Answering(c) = 0
  BY <1>1 DEF LifeInv, UnreadInv, HelloInv, FreshInv, Unread, Answering
<1>4. node' = [node EXCEPT ![c] = [cSeq |-> node[c].cSeq, sSeq |-> node[c].sSeq + 1]]
  <2>1. node' = [node EXCEPT ![c] = [node[c] EXCEPT !.sSeq = node[c].sSeq + 1]]
    BY <1>1 DEF HostData, NextAnswer, TypeOK
  <2>2. QED
    BY <1>2, <2>1, NumbersExcept
<1>5. /\ srv' = [at |-> "traffic", t |-> c, cSeq |-> 0, sSeq |-> 0]
      /\ UNCHANGED <<at, n, ctx, served, backlog, cut, c2s, s2c>>
  BY DEF HostData, Busy, client
<1>6. TypeOK'
  <2>1. node' \in [Tunnels -> Numbers \cup {NoNode}]
    BY <1>1, <1>2, <1>4 DEF TypeOK, Numbers
  <2>2. QED
    BY <1>1, <1>5, <2>1 DEF TypeOK
<1>7. LifeInv(c)'
  <2>1. /\ node'[c] = [cSeq |-> node[c].cSeq, sSeq |-> node[c].sSeq + 1]
        /\ node'[c].cSeq = node[c].cSeq /\ node'[c].sSeq = node[c].sSeq + 1
        /\ srv'.at = "traffic" /\ srv'.t = c
    BY <1>1, <1>4, <1>5 DEF TypeOK
  <2>2. /\ ~Greeting(c)' /\ (InSession(c)' <=> InSession(c)) /\ Begun(c)' /\ ~Unread(c)'
        /\ ~AtServer(c, "third")' /\ Sending(c[1])' = Sending(c[1]) /\ Answering(c)' = 1
    BY <1>3, <1>5, <2>1 DEF Greeting, InSession, Begun, Cur, Unread, AtServer, Sending, Answering
  <2>3. node'[c] # NoNode
    BY <1>2, <2>1, NoNodeAssumption
  <2>4. FreshInv(c)' /\ CutInv(c)' /\ UnreadInv(c)' /\ HelloInv(c)' /\ ThirdInv(c)' /\ AnswerInv(c)'
    BY <1>1, <1>3, <1>5, <2>1, <2>2, <2>3 DEF LifeInv, FreshInv, CutInv, UnreadInv, HelloInv,
       ThirdInv,
       AnswerInv, AtServer
  <2>5. InStep(c)'
    BY <1>1, <1>5, <2>1, <2>2 DEF LifeInv, InStep
  <2>6. Complete(c)'
    <3>1. SUFFICES ASSUME InSession(c), ~cut[c]  PROVE Complete(c)'
      BY <1>5, <2>2 DEF Complete
    <3>2. /\ ctx[c[1]].cSeq = node[c].cSeq + Len(c2s[c]) + Sending(c[1])
          /\ node[c].sSeq = ctx[c[1]].sSeq + Len(s2c[c]) + 0
      BY <1>1, <1>3, <3>1 DEF LifeInv, Complete
    <3>3. ctx[c[1]].sSeq \in Nat /\ Len(s2c[c]) \in Nat
      BY <1>1, TunnelTypes
    <3>4. node'[c].sSeq = ctx[c[1]].sSeq + Len(s2c[c]) + 1
      BY <1>2, <2>1, <3>2, <3>3
    <3>5. QED
      BY <1>5, <2>1, <2>2, <3>2, <3>4 DEF Complete
  <2>7. QED
    BY <2>4, <2>5, <2>6 DEF LifeInv
<1>8. ASSUME NEW t \in Tunnels, t # c
      PROVE  /\ node'[t] = node[t] /\ c2s'[t] = c2s[t] /\ s2c'[t] = s2c[t] /\ cut'[t] = cut[t]
             /\ t \in backlog' <=> t \in backlog
  BY <1>1, <1>4, <1>5, <1>8 DEF TypeOK
<1>9. UNCHANGED client /\ srv'.t = c
  BY <1>5 DEF client
<1>10. QED
  BY <1>1, <1>6, <1>7, <1>8, <1>9, OneServed

\* The packet of an answer is sent.
LEMMA EndAnswerKeeps ==
    ASSUME IInv, NEW c \in Tunnels, EndAnswer(c)
    PROVE  IInv'
<1>1. TypeOK /\ LifeInv(c) /\ srv.at \in {"reply", "traffic"} /\ srv.t = c /\ Answering(c) = 1
  BY DEF IInv, EndAnswer, Answering
<1>2. node[c] # NoNode
  BY <1>1 DEF LifeInv, AnswerInv
<1>3. /\ c2s[c] \in Seq(Packets) /\ s2c[c] \in Seq(Packets) /\ Len(s2c[c]) \in Nat
      /\ node[c].cSeq \in Nat /\ node[c].sSeq \in Nat /\ ctx[c[1]].sSeq \in Nat
  BY <1>1, <1>2, TunnelTypes
<1>4. /\ ~Unread(c) /\ ~Greeting(c) /\ Begun(c) /\ c \notin backlog
  BY <1>1, <1>2 DEF LifeInv, UnreadInv, HelloInv, FreshInv, Unread
<1>5. PICK m \in Packets :
        /\ m = Packet("message", node[c].cSeq, node[c].sSeq)
        /\ m.type = "message" /\ m.sSeq = node[c].sSeq
  <2>1. Packet("message", node[c].cSeq, node[c].sSeq) \in Packets
    BY <1>3, PacketType
  <2>2. QED
    BY <2>1 DEF Packet
<1>6. /\ s2c' = IF cut[c] THEN s2c ELSE [s2c EXCEPT ![c] = Append(s2c[c], m)]
      /\ srv' = Idle
      /\ UNCHANGED <<at, n, ctx, served, node, backlog, cut, c2s>>
  BY <1>1, <1>5 DEF EndAnswer, Put, client, TypeOK
<1>7. TypeOK'
  <2>1. s2c' \in [Tunnels -> Seq(Packets)]
    BY <1>1, <1>3, <1>6, AppendQueue DEF TypeOK
  <2>2. QED
    BY <1>1, <1>6, <2>1, IdleType DEF TypeOK
<1>8. LifeInv(c)'
  <2>1. /\ cut[c] => s2c'[c] = s2c[c]
        /\ ~cut[c] => s2c'[c] = Append(s2c[c], m)
        /\ srv'.at = "loop"
    BY <1>1, <1>6, IdleType DEF TypeOK
  <2>2. /\ ~Greeting(c)' /\ (InSession(c)' <=> InSession(c)) /\ Begun(c)' /\ ~Unread(c)'
        /\ ~AtServer(c, "third")' /\ Sending(c[1])' = Sending(c[1]) /\ Answering(c)' = 0
    BY <1>4, <1>6, <2>1 DEF Greeting, InSession, Begun, Cur, Unread, AtServer, Sending, Answering
  <2>3. FreshInv(c)' /\ CutInv(c)' /\ UnreadInv(c)' /\ HelloInv(c)' /\ ThirdInv(c)' /\ AnswerInv(c)'
    BY <1>1, <1>2, <1>4, <1>6, <2>1, <2>2 DEF LifeInv, FreshInv, CutInv, UnreadInv, HelloInv,
       ThirdInv,
       AnswerInv, AtServer
  <2>4. ~cut[c] /\ InSession(c) => node[c].sSeq = ctx[c[1]].sSeq + Len(s2c[c]) + 1
    BY <1>1, <1>2 DEF LifeInv, Complete
  <2>5. InStep(c)'
    <3>1. CASE cut[c] \/ ~InSession(c)
      BY <1>1, <1>6, <2>1, <2>2, <3>1 DEF LifeInv, InStep
    <3>2. CASE ~cut[c] /\ InSession(c)
      <4>1. FromTheServer(s2c[c], ctx[c[1]].sSeq)
        BY <1>1, <3>2 DEF LifeInv, InStep
      <4>2. FromTheServer(Append(s2c[c], m), ctx[c[1]].sSeq)
        BY <1>3, <1>5, <2>4, <3>2, <4>1, AppendFromTheServer
      <4>3. QED
        BY <1>1, <1>6, <2>1, <3>2, <4>2 DEF LifeInv, InStep
    <3>3. QED
      BY <3>1, <3>2
  <2>6. Complete(c)'
    <3>1. SUFFICES ASSUME InSession(c), ~cut[c]  PROVE Complete(c)'
      BY <1>6, <2>2 DEF Complete
    <3>2. ctx[c[1]].cSeq = node[c].cSeq + Len(c2s[c]) + Sending(c[1])
      BY <1>1, <1>2, <3>1 DEF LifeInv, Complete
    <3>3. Len(s2c'[c]) = Len(s2c[c]) + 1
      <4>1. Len(Append(s2c[c], m)) = Len(s2c[c]) + 1
        BY <1>3, AppendQueue
      <4>2. QED
        BY <2>1, <3>1, <4>1
    <3>4. node[c].sSeq = ctx[c[1]].sSeq + Len(s2c'[c]) + 0
      <4>1. node[c].sSeq = ctx[c[1]].sSeq + Len(s2c[c]) + 1
        BY <2>4, <3>1
      <4>2. node[c].sSeq \in Nat /\ ctx[c[1]].sSeq \in Nat /\ Len(s2c[c]) \in Nat
        BY <1>3
      <4>3. QED
        BY <3>3, <4>1, <4>2
    <3>5. QED
      BY <1>6, <2>2, <3>2, <3>4 DEF Complete
  <2>7. QED
    BY <2>3, <2>5, <2>6 DEF LifeInv
<1>9. ASSUME NEW t \in Tunnels, t # c
      PROVE  /\ node'[t] = node[t] /\ c2s'[t] = c2s[t] /\ s2c'[t] = s2c[t] /\ cut'[t] = cut[t]
             /\ t \in backlog' <=> t \in backlog
  BY <1>1, <1>6, <1>9 DEF TypeOK
<1>10. UNCHANGED client /\ srv'.at = "loop"
  BY <1>6, IdleType DEF client
<1>11. QED
  BY <1>1, <1>7, <1>8, <1>9, <1>10, OneServed

\* launch_server dies, and all its connections with it.
LEMMA TrafficFailsKeeps ==
    ASSUME IInv, NEW c \in Tunnels, TrafficFails(c)
    PROVE  IInv'
<1>1. TypeOK /\ srv.at = "traffic"
  BY DEF IInv, TrafficFails
<1>2. /\ srv'.at = "crashed" /\ srv' \in [at : {"crashed"}, t : {NoNode}, cSeq : Nat, sSeq : Nat]
      /\ node' = [u \in Tunnels |-> NoNode] /\ backlog' = {}
      /\ cut' = [u \in Tunnels |-> TRUE] /\ c2s' = [u \in Tunnels |-> <<>>]
      /\ UNCHANGED <<at, n, ctx, served, s2c>>
  BY DEF TrafficFails, Idle, client
<1>3. TypeOK'
  BY <1>1, <1>2 DEF TypeOK
<1>4. ASSUME NEW t \in Tunnels PROVE LifeInv(t)'
  <2>1. /\ (Greeting(t)' <=> Greeting(t)) /\ (InSession(t)' <=> InSession(t)) /\ (Begun(t)' <=> Begun(t))
        /\ ~Unread(t)' /\ ~AtServer(t, "third")' /\ ~AtServer(t, "first")' /\ Answering(t)' = 0
    BY <1>2 DEF Greeting, InSession, Begun, Cur, Unread, AtServer, Answering
  <2>2. node'[t] = NoNode /\ cut'[t] /\ c2s'[t] = <<>> /\ s2c'[t] = s2c[t]
    BY <1>2
  <2>3. FreshInv(t) /\ HelloInv(t) /\ InStep(t)
    BY DEF IInv, LifeInv
  <2>4. QED
    BY <1>2, <2>1, <2>2, <2>3 DEF LifeInv, FreshInv, CutInv, UnreadInv, HelloInv, ThirdInv,
       AnswerInv,
       InStep, Complete
<1>5. QED
  BY <1>2, <1>3, <1>4 DEF IInv

\* All steps of the server.
LEMMA ServerKeeps ==
    ASSUME IInv, NEW t \in Tunnels, ServerStep(t)
    PROVE  IInv'
<1>1. CASE Accept(t)
  BY <1>1, AcceptKeeps
<1>2. CASE SendSecond(t)
  BY <1>2, SendSecondKeeps
<1>3. CASE Register(t)
  BY <1>3, RegisterKeeps
<1>4. CASE HandshakeFails(t) \/ Eof(t) \/ ReplyFails(t) \/ Expire(t)
  BY <1>4, DropKeeps DEF HandshakeFails, Eof, ReplyFails, Expire, AtServer
<1>5. CASE Receive(t)
  BY <1>5, ReceiveKeeps
<1>6. CASE HostData(t)
  BY <1>6, HostDataKeeps
<1>7. CASE EndAnswer(t)
  BY <1>7, EndAnswerKeeps
<1>8. CASE TrafficFails(t)
  BY <1>8, TrafficFailsKeeps
<1>9. QED
  BY <1>1, <1>2, <1>3, <1>4, <1>5, <1>6, <1>7, <1>8 DEF ServerStep, ServerShake, Serve,
     AnswerReturns

-----------------------------------------------------------------------------
(* The network.                                                            *)

LEMMA BreakKeeps ==
    ASSUME IInv, NEW c \in Tunnels, Break(c)
    PROVE  IInv'
<1>1. TypeOK
  BY DEF IInv
<1>2. /\ cut' = [cut EXCEPT ![c] = TRUE]
      /\ UNCHANGED <<at, n, ctx, served, srv, node, backlog, c2s, s2c>>
  BY DEF Break, Cut, client, server
<1>3. TypeOK'
  BY <1>1, <1>2 DEF TypeOK
<1>4. ASSUME NEW t \in Tunnels PROVE LifeInv(t)'
  <2>1. Untouched(t)
    BY <1>1, <1>2 DEF Untouched, Begun, Greeting, InSession, Cur, TypeOK
  <2>2. QED
    BY <1>1, <2>1, Frame DEF IInv
<1>5. QED
  BY <1>2, <1>3, <1>4 DEF IInv

\* The last packet on the way to the server is lost.
LEMMA LoseUpKeeps ==
    ASSUME IInv, NEW c \in Tunnels, cut[c], c2s[c] # <<>>,
           c2s' = [c2s EXCEPT ![c] = SubSeq(@, 1, Len(@) - 1)],
           UNCHANGED <<client, server, backlog, cut, s2c>>
    PROVE  IInv'
<1>1. TypeOK /\ LifeInv(c)
  BY DEF IInv
<1>2. /\ c2s[c] \in Seq(Packets) /\ Len(c2s[c]) \in Nat
      /\ node[c] # NoNode => node[c].cSeq \in Nat
      /\ srv.cSeq \in Nat /\ srv.sSeq \in Nat
  BY <1>1, TunnelTypes
<1>3. PICK f \in Seq(Packets) :
         /\ f = SubSeq(c2s[c], 1, Len(c2s[c]) - 1)
         /\ Len(f) = Len(c2s[c]) - 1
         /\ \A i \in 1 .. Len(c2s[c]) - 1 : f[i] = c2s[c][i]
  BY <1>2, FrontQueue
<1>4. /\ c2s' = [c2s EXCEPT ![c] = f]
      /\ UNCHANGED <<at, n, ctx, served, srv, node, backlog, cut, s2c>>
  BY <1>1, <1>3 DEF client, server, TypeOK
<1>5. TypeOK'
  <2>1. c2s' \in [Tunnels -> Seq(Packets)]
    BY <1>1, <1>4 DEF TypeOK
  <2>2. QED
    BY <1>1, <1>4, <2>1 DEF TypeOK
<1>6. \A q \in Client : at'[q] \notin {"off", "ended"} => n'[q] >= 1
  BY <1>4 DEF IInv
<1>7. ASSUME NEW t \in Tunnels, t # c PROVE Untouched(t)
  BY <1>1, <1>4, <1>7 DEF Untouched, Begun, Greeting, InSession, Cur, TypeOK
<1>8. LifeInv(c)'
  <2>1. /\ c2s'[c] = f /\ UNCHANGED <<Greeting(c), InSession(c), Begun(c), Unread(c)>>
        /\ (AtServer(c, "third")' <=> AtServer(c, "third")) /\ (AtServer(c, "first")' <=> AtServer(c, "first"))
    BY <1>1, <1>4 DEF Greeting, InSession, Begun, Cur, Unread, AtServer, TypeOK
  <2>2. Len(f) <= Len(c2s[c]) /\ (Len(c2s[c]) <= 1 => f = <<>>)
    BY <1>2, <1>3
  <2>3. FreshInv(c)' /\ CutInv(c)' /\ UnreadInv(c)' /\ HelloInv(c)' /\ AnswerInv(c)' /\ Complete(c)'
    BY <1>1, <1>2, <1>4, <2>1, <2>2 DEF LifeInv, FreshInv, CutInv, UnreadInv, HelloInv,
       AnswerInv, Complete,
       Answering
  <2>4. ThirdInv(c)'
    <3>1. CASE ~AtServer(c, "third")
      BY <2>1, <3>1 DEF ThirdInv
    <3>2. CASE AtServer(c, "third")
      <4>1. FromHello(f, srv.cSeq, srv.sSeq)
        BY <1>1, <1>2, <1>3, <3>2, FrontFromHello DEF LifeInv, ThirdInv
      <4>2. QED
        BY <1>1, <1>4, <2>1, <3>2, <4>1 DEF LifeInv, ThirdInv
    <3>3. QED
      BY <3>1, <3>2
  <2>5. InStep(c)'
    <3>1. node[c] # NoNode => FromClient(f, node[c].cSeq)
      BY <1>1, <1>2, <1>3, FrontFromClient DEF LifeInv, InStep
    <3>2. QED
      BY <1>1, <1>4, <2>1, <3>1 DEF LifeInv, InStep
  <2>6. QED
    BY <2>3, <2>4, <2>5 DEF LifeInv
<1>9. QED
  BY <1>5, <1>6, <1>7, <1>8, OneTunnel

\* The last packet on the way to the client is lost.
LEMMA LoseDownKeeps ==
    ASSUME IInv, NEW c \in Tunnels, cut[c], s2c[c] # <<>>,
           s2c' = [s2c EXCEPT ![c] = SubSeq(@, 1, Len(@) - 1)],
           UNCHANGED <<client, server, backlog, cut, c2s>>
    PROVE  IInv'
<1>1. TypeOK /\ LifeInv(c)
  BY DEF IInv
<1>2. /\ s2c[c] \in Seq(Packets) /\ Len(s2c[c]) \in Nat /\ ctx[c[1]].sSeq \in Nat
  BY <1>1, TunnelTypes
<1>3. PICK f \in Seq(Packets) :
         /\ f = SubSeq(s2c[c], 1, Len(s2c[c]) - 1)
         /\ Len(f) = Len(s2c[c]) - 1
         /\ \A i \in 1 .. Len(s2c[c]) - 1 : f[i] = s2c[c][i]
  BY <1>2, FrontQueue
<1>4. /\ s2c' = [s2c EXCEPT ![c] = f]
      /\ UNCHANGED <<at, n, ctx, served, srv, node, backlog, cut, c2s>>
  BY <1>1, <1>3 DEF client, server, TypeOK
<1>5. TypeOK'
  <2>1. s2c' \in [Tunnels -> Seq(Packets)]
    BY <1>1, <1>4 DEF TypeOK
  <2>2. QED
    BY <1>1, <1>4, <2>1 DEF TypeOK
<1>6. \A q \in Client : at'[q] \notin {"off", "ended"} => n'[q] >= 1
  BY <1>4 DEF IInv
<1>7. ASSUME NEW t \in Tunnels, t # c PROVE Untouched(t)
  BY <1>1, <1>4, <1>7 DEF Untouched, Begun, Greeting, InSession, Cur, TypeOK
<1>8. LifeInv(c)'
  <2>1. /\ s2c'[c] = f /\ UNCHANGED <<Greeting(c), InSession(c), Begun(c), Unread(c)>>
        /\ (AtServer(c, "third")' <=> AtServer(c, "third")) /\ (AtServer(c, "first")' <=> AtServer(c, "first"))
    BY <1>1, <1>4 DEF Greeting, InSession, Begun, Cur, Unread, AtServer, TypeOK
  <2>2. Len(f) <= Len(s2c[c]) /\ (Len(s2c[c]) <= 1 => f = <<>>)
    BY <1>2, <1>3
  <2>3. FreshInv(c)' /\ CutInv(c)' /\ UnreadInv(c)' /\ AnswerInv(c)' /\ Complete(c)'
    BY <1>1, <1>2, <1>4, <2>1, <2>2 DEF LifeInv, FreshInv, CutInv, UnreadInv, AnswerInv, Complete,
       Answering
  <2>4. HelloInv(c)'
    <3>1. Greeting(c) => Len(s2c[c]) <= 1
      BY <1>1 DEF LifeInv, HelloInv
    <3>2. Greeting(c) => f = <<>> /\ Len(f) <= 1
      BY <1>3, <2>2, <3>1
    <3>3. QED
      BY <1>1, <1>4, <2>1, <3>2 DEF LifeInv, HelloInv
  <2>5. ThirdInv(c)'
    BY <1>1, <1>4, <2>1 DEF LifeInv, ThirdInv, Sending
  <2>6. InStep(c)'
    <3>1. InSession(c) => FromTheServer(f, ctx[c[1]].sSeq)
      BY <1>1, <1>2, <1>3, FrontFromTheServer DEF LifeInv, InStep
    <3>2. QED
      BY <1>1, <1>4, <2>1, <3>1 DEF LifeInv, InStep
  <2>7. QED
    BY <2>3, <2>4, <2>5, <2>6 DEF LifeInv
<1>9. QED
  BY <1>5, <1>6, <1>7, <1>8, OneTunnel

-----------------------------------------------------------------------------
(* The theorems.                                                           *)

\* No tunnel is open and nothing is on its way.
LEMMA InitInv == Init => IInv
<1>1. SUFFICES ASSUME Init  PROVE IInv
  OBVIOUS
<1>2. TypeOK
  <2>1. \A p \in Client : 0 <= MaxTunnels[p]
    BY MaxTunnelsAssumption
  <2>2. n \in [Client -> Nat] /\ at \in [Client -> Places] /\ ctx \in [Client -> Numbers]
        /\ served \in [Client -> BOOLEAN]
    BY <1>1 DEF Init, Places, Numbers
  <2>3. c2s \in [Tunnels -> Seq(Packets)] /\ s2c \in [Tunnels -> Seq(Packets)]
    BY <1>1 DEF Init
  <2>4. QED
    BY <1>1, <2>1, <2>2, <2>3 DEF Init, TypeOK, Idle
<1>3. ASSUME NEW t \in Tunnels PROVE LifeInv(t)
  <2>1. /\ n[t[1]] = 0 /\ at[t[1]] = "off" /\ t[2] >= 1
    BY <1>1, TunnelShape DEF Init
  <2>2. node[t] = NoNode /\ c2s[t] = <<>> /\ s2c[t] = <<>> /\ backlog = {} /\ srv.at = "loop"
    BY <1>1 DEF Init, Idle
  <2>3. ~Greeting(t) /\ ~InSession(t) /\ ~Begun(t) /\ ~Unread(t) /\ ~AtServer(t, "third") /\ ~AtServer(t, "first")
    BY <2>1, <2>2, TunnelShape DEF Greeting, InSession, Begun, Unread, AtServer
  <2>4. Answering(t) = 0
    BY <2>2 DEF Answering
  <2>5. QED
    BY <2>2, <2>3, <2>4 DEF LifeInv, FreshInv, CutInv, UnreadInv, HelloInv, ThirdInv, AnswerInv,
       InStep, Complete
<1>4. \A p \in Client : at[p] = "off"
  BY <1>1 DEF Init
<1>5. QED
  BY <1>2, <1>3, <1>4 DEF IInv

LEMMA NextKeeps ==
    ASSUME IInv, [Next]_vars
    PROVE  IInv'
<1>1. ASSUME NEW p \in Client, ClientStep(p) PROVE IInv'
  BY <1>1, ClientKeeps
<1>2. ASSUME NEW t \in Tunnels, ServerStep(t) PROVE IInv'
  BY <1>2, ServerKeeps
<1>3. ASSUME NEW t \in Tunnels, Break(t) PROVE IInv'
  BY <1>3, BreakKeeps
<1>4. ASSUME NEW t \in Tunnels, Lose(t) PROVE IInv'
  BY <1>4, LoseUpKeeps, LoseDownKeeps DEF Lose
<1>5. CASE UNCHANGED vars
  <2>1. UNCHANGED <<at, n, ctx, served, srv, node, backlog, cut, c2s, s2c>>
    BY <1>5 DEF vars, client, server
  <2>2. TypeOK'
    BY <2>1 DEF IInv, TypeOK
  <2>3. ASSUME NEW t \in Tunnels PROVE LifeInv(t)'
    <3>1. Untouched(t)
      BY <2>1 DEF Untouched, Begun, Greeting, InSession, Cur
    <3>2. QED
      BY <3>1, Frame DEF IInv
  <2>4. QED
    BY <2>1, <2>2, <2>3 DEF IInv
<1>6. QED
  BY <1>1, <1>2, <1>3, <1>4, <1>5 DEF Next

\* Every state of the program has each tunnel somewhere in the life that clientHandleShake,
\* serverHandShake, the sessions, closeSocket and deleteClient lead it through.
THEOREM TunnelLives == Spec => []IInv
<1>1. QED
  BY InitInv, NextKeeps, PTL DEF Spec

\* The values of the variables are of their types.
THEOREM TypeCorrect == Spec => []TypeOK
<1>1. IInv => TypeOK
  BY DEF IInv
<1>2. QED
  BY TunnelLives, <1>1, PTL

\* recvData and recvMessage never turn down a packet of the other end of the tunnel,
\* whatever was sent or lost before, for any number of clients and tunnels.
THEOREM NumbersAlwaysInStep == Spec => []NumbersInStep
<1>1. IInv => NumbersInStep
  BY DEF IInv, LifeInv, NumbersInStep
<1>2. QED
  BY TunnelLives, <1>1, PTL

\* Nothing sent with sendMessage or sendData goes missing while its tunnel stands.
THEOREM NothingEverMissing == Spec => []NothingMissing
<1>1. IInv => NothingMissing
  BY DEF IInv, LifeInv, NothingMissing
<1>2. QED
  BY TunnelLives, <1>1, PTL

-----------------------------------------------------------------------------
(***************************************************************************)
(* Both directions of every tunnel implement Channel.tla.                  *)
(*                                                                         *)
(* For every action and every tunnel there is a lemma that says what it is *)
(* in Channel, to the server (UpMove) and to the client (DownMove): a      *)
(* packet sent, received or lost, the cut, the end, or nothing.  IInv      *)
(* supplies what Channel's steps ask for: that a receiver is open when a   *)
(* packet comes, that the number sent follows the last one on its way,     *)
(* that an end that is over is cut.                                        *)
(***************************************************************************)

-----------------------------------------------------------------------------
(* What Channel allows in the two directions of a tunnel.                  *)

LEMMA NumbersOf ==
    ASSUME NEW q \in Seq(Packets)
    PROVE  /\ CSeqs(q) \in Seq(Nat) /\ Len(CSeqs(q)) = Len(q)
           /\ SSeqs(q) \in Seq(Nat) /\ Len(SSeqs(q)) = Len(q)
           /\ \A i \in 1 .. Len(q) : CSeqs(q)[i] = q[i].cSeq /\ SSeqs(q)[i] = q[i].sSeq
<1>1. Len(q) \in Nat /\ \A i \in 1 .. Len(q) : q[i] \in Packets
  OBVIOUS
<1>2. \A i \in 1 .. Len(q) : q[i].cSeq \in Nat /\ q[i].sSeq \in Nat
  BY <1>1 DEF Packets
<1>3. QED
  BY <1>1, <1>2 DEF CSeqs, SSeqs

LEMMA NumbersOfNone == CSeqs(<<>>) = <<>> /\ SSeqs(<<>>) = <<>>
<1>1. <<>> \in Seq(Packets) /\ Len(<<>>) = 0
  OBVIOUS
<1>2. CSeqs(<<>>) \in Seq(Nat) /\ Len(CSeqs(<<>>)) = 0 /\ SSeqs(<<>>) \in Seq(Nat) /\ Len(SSeqs(<<>>)) = 0
  BY <1>1, NumbersOf
<1>3. QED
  BY <1>2, EmptySeq

\* A sequence with the numbers of a queue is the queue's.
LEMMA AreNumbers ==
    ASSUME NEW q \in Seq(Packets), NEW s \in Seq(Nat), Len(s) = Len(q)
    PROVE  /\ (\A i \in 1 .. Len(q) : s[i] = q[i].cSeq) => CSeqs(q) = s
           /\ (\A i \in 1 .. Len(q) : s[i] = q[i].sSeq) => SSeqs(q) = s
<1>1. /\ CSeqs(q) \in Seq(Nat) /\ Len(CSeqs(q)) = Len(s)
      /\ SSeqs(q) \in Seq(Nat) /\ Len(SSeqs(q)) = Len(s)
      /\ \A i \in 1 .. Len(s) : CSeqs(q)[i] = q[i].cSeq /\ SSeqs(q)[i] = q[i].sSeq
  BY NumbersOf
<1>2. ASSUME \A i \in 1 .. Len(q) : s[i] = q[i].cSeq  PROVE CSeqs(q) = s
  <2>1. \A i \in 1 .. Len(s) : CSeqs(q)[i] = s[i]
    BY <1>1, <1>2
  <2>2. QED
    BY <1>1, <2>1, SeqEqual
<1>3. ASSUME \A i \in 1 .. Len(q) : s[i] = q[i].sSeq  PROVE SSeqs(q) = s
  <2>1. \A i \in 1 .. Len(s) : SSeqs(q)[i] = s[i]
    BY <1>1, <1>3
  <2>2. QED
    BY <1>1, <2>1, SeqEqual
<1>4. QED
  BY <1>2, <1>3

LEMMA AppendNumber ==
    ASSUME NEW s \in Seq(Nat), NEW k \in Nat
    PROVE  /\ Append(s, k) \in Seq(Nat) /\ Len(Append(s, k)) = Len(s) + 1
           /\ \A i \in 1 .. Len(s) : Append(s, k)[i] = s[i]
           /\ Append(s, k)[Len(s) + 1] = k
BY AppendProperties

LEMMA TailNumbers ==
    ASSUME NEW s \in Seq(Nat), s # <<>>
    PROVE  /\ Tail(s) \in Seq(Nat) /\ Len(Tail(s)) = Len(s) - 1 /\ Head(s) = s[1]
           /\ \A i \in 1 .. Len(s) - 1 : Tail(s)[i] = s[i + 1]
BY HeadTailProperties

LEMMA FrontNumbers ==
    ASSUME NEW s \in Seq(Nat), s # <<>>
    PROVE  LET f == SubSeq(s, 1, Len(s) - 1) IN
           /\ f \in Seq(Nat) /\ Len(f) = Len(s) - 1
           /\ \A i \in 1 .. Len(s) - 1 : f[i] = s[i]
<1>1. PICK k \in Nat : k = Len(s) - 1
  OBVIOUS
<1>2. \A i \in 1 .. k : s[i] \in Nat
  BY <1>1
<1>3. /\ SubSeq(s, 1, k) \in Seq(Nat)
      /\ Len(SubSeq(s, 1, k)) = IF 1 <= k THEN k - 1 + 1 ELSE 0
      /\ \A i \in 1 .. k - 1 + 1 : SubSeq(s, 1, k)[i] = s[1 + i - 1]
  BY <1>1, <1>2, SubSeqProperties
<1>4. Len(SubSeq(s, 1, k)) = k /\ \A i \in 1 .. k : SubSeq(s, 1, k)[i] = s[i]
  BY <1>3
<1>5. QED
  BY <1>1, <1>3, <1>4

LEMMA NumbersOfAppend ==
    ASSUME NEW q \in Seq(Packets), NEW m \in Packets
    PROVE  /\ CSeqs(Append(q, m)) = Append(CSeqs(q), m.cSeq)
           /\ SSeqs(Append(q, m)) = Append(SSeqs(q), m.sSeq)
<1>1. /\ CSeqs(q) \in Seq(Nat) /\ Len(CSeqs(q)) = Len(q)
      /\ SSeqs(q) \in Seq(Nat) /\ Len(SSeqs(q)) = Len(q)
      /\ \A i \in 1 .. Len(q) : CSeqs(q)[i] = q[i].cSeq /\ SSeqs(q)[i] = q[i].sSeq
  BY NumbersOf
<1>2. /\ Append(q, m) \in Seq(Packets) /\ Len(Append(q, m)) = Len(q) + 1 /\ Len(q) \in Nat
      /\ \A i \in 1 .. Len(q) : Append(q, m)[i] = q[i]
      /\ Append(q, m)[Len(q) + 1] = m
  BY AppendQueue
<1>3. m.cSeq \in Nat /\ m.sSeq \in Nat
  BY DEF Packets
<1>4. \A s \in Seq(Nat), k \in Nat : Len(s) = Len(q) =>
        /\ Append(s, k) \in Seq(Nat) /\ Len(Append(s, k)) = Len(Append(q, m))
        /\ \A i \in 1 .. Len(q) : Append(s, k)[i] = s[i]
        /\ Append(s, k)[Len(q) + 1] = k
  BY <1>2, AppendNumber
<1>5. CSeqs(Append(q, m)) = Append(CSeqs(q), m.cSeq)
  <2>1. /\ Append(CSeqs(q), m.cSeq) \in Seq(Nat) /\ Len(Append(CSeqs(q), m.cSeq)) = Len(Append(q, m))
        /\ \A i \in 1 .. Len(q) : Append(CSeqs(q), m.cSeq)[i] = q[i].cSeq
        /\ Append(CSeqs(q), m.cSeq)[Len(q) + 1] = m.cSeq
    BY <1>1, <1>3, <1>4
  <2>2. \A i \in 1 .. Len(Append(q, m)) : Append(CSeqs(q), m.cSeq)[i] = Append(q, m)[i].cSeq
    BY <1>2, <2>1
  <2>3. QED
    BY <1>2, <2>1, <2>2, AreNumbers
<1>6. SSeqs(Append(q, m)) = Append(SSeqs(q), m.sSeq)
  <2>1. /\ Append(SSeqs(q), m.sSeq) \in Seq(Nat) /\ Len(Append(SSeqs(q), m.sSeq)) = Len(Append(q, m))
        /\ \A i \in 1 .. Len(q) : Append(SSeqs(q), m.sSeq)[i] = q[i].sSeq
        /\ Append(SSeqs(q), m.sSeq)[Len(q) + 1] = m.sSeq
    BY <1>1, <1>3, <1>4
  <2>2. \A i \in 1 .. Len(Append(q, m)) : Append(SSeqs(q), m.sSeq)[i] = Append(q, m)[i].sSeq
    BY <1>2, <2>1
  <2>3. QED
    BY <1>2, <2>1, <2>2, AreNumbers
<1>7. QED
  BY <1>5, <1>6

LEMMA NumbersOfTail ==
    ASSUME NEW q \in Seq(Packets), q # <<>>
    PROVE  /\ CSeqs(q) # <<>> /\ Head(CSeqs(q)) = Head(q).cSeq /\ CSeqs(Tail(q)) = Tail(CSeqs(q))
           /\ SSeqs(q) # <<>> /\ Head(SSeqs(q)) = Head(q).sSeq /\ SSeqs(Tail(q)) = Tail(SSeqs(q))
<1>1. /\ CSeqs(q) \in Seq(Nat) /\ Len(CSeqs(q)) = Len(q)
      /\ SSeqs(q) \in Seq(Nat) /\ Len(SSeqs(q)) = Len(q)
      /\ \A i \in 1 .. Len(q) : CSeqs(q)[i] = q[i].cSeq /\ SSeqs(q)[i] = q[i].sSeq
  BY NumbersOf
<1>2. /\ Tail(q) \in Seq(Packets) /\ Len(Tail(q)) = Len(q) - 1 /\ Len(q) \in Nat \ {0}
      /\ \A i \in 1 .. Len(q) - 1 : Tail(q)[i] = q[i + 1]
      /\ Head(q) = q[1]
  BY TailQueue
<1>3. CSeqs(q) # <<>> /\ SSeqs(q) # <<>>
  BY <1>1, <1>2, EmptySeq
<1>4. /\ Tail(CSeqs(q)) \in Seq(Nat) /\ Len(Tail(CSeqs(q))) = Len(Tail(q))
      /\ \A i \in 1 .. Len(q) - 1 : Tail(CSeqs(q))[i] = CSeqs(q)[i + 1]
      /\ Head(CSeqs(q)) = CSeqs(q)[1]
      /\ Tail(SSeqs(q)) \in Seq(Nat) /\ Len(Tail(SSeqs(q))) = Len(Tail(q))
      /\ \A i \in 1 .. Len(q) - 1 : Tail(SSeqs(q))[i] = SSeqs(q)[i + 1]
      /\ Head(SSeqs(q)) = SSeqs(q)[1]
  BY <1>1, <1>2, <1>3, TailNumbers
<1>5. ASSUME NEW i \in 1 .. Len(Tail(q))
      PROVE  Tail(CSeqs(q))[i] = Tail(q)[i].cSeq /\ Tail(SSeqs(q))[i] = Tail(q)[i].sSeq
  <2>1. i \in 1 .. Len(q) - 1 /\ i + 1 \in 1 .. Len(q)
    BY <1>2
  <2>2. QED
    BY <1>1, <1>2, <1>4, <2>1
<1>6. Head(CSeqs(q)) = Head(q).cSeq /\ Head(SSeqs(q)) = Head(q).sSeq
  BY <1>1, <1>2, <1>4
<1>7. CSeqs(Tail(q)) = Tail(CSeqs(q)) /\ SSeqs(Tail(q)) = Tail(SSeqs(q))
  BY <1>2, <1>4, <1>5, AreNumbers
<1>8. QED
  BY <1>3, <1>6, <1>7

LEMMA NumbersOfFront ==
    ASSUME NEW q \in Seq(Packets), q # <<>>, NEW f, f = SubSeq(q, 1, Len(q) - 1)
    PROVE  /\ CSeqs(q) # <<>> /\ CSeqs(f) = SubSeq(CSeqs(q), 1, Len(CSeqs(q)) - 1)
           /\ SSeqs(q) # <<>> /\ SSeqs(f) = SubSeq(SSeqs(q), 1, Len(SSeqs(q)) - 1)
<1>1. /\ CSeqs(q) \in Seq(Nat) /\ Len(CSeqs(q)) = Len(q)
      /\ SSeqs(q) \in Seq(Nat) /\ Len(SSeqs(q)) = Len(q)
      /\ \A i \in 1 .. Len(q) : CSeqs(q)[i] = q[i].cSeq /\ SSeqs(q)[i] = q[i].sSeq
  BY NumbersOf
<1>2. /\ f \in Seq(Packets) /\ Len(f) = Len(q) - 1 /\ Len(q) \in Nat \ {0}
      /\ \A i \in 1 .. Len(q) - 1 : f[i] = q[i]
  BY FrontQueue, TailQueue
<1>3. CSeqs(q) # <<>> /\ SSeqs(q) # <<>>
  BY <1>1, <1>2, EmptySeq
<1>4. ASSUME NEW s \in Seq(Nat), s # <<>>, Len(s) = Len(q)
      PROVE  /\ SubSeq(s, 1, Len(s) - 1) \in Seq(Nat)
             /\ Len(SubSeq(s, 1, Len(s) - 1)) = Len(f)
             /\ \A i \in 1 .. Len(f) : SubSeq(s, 1, Len(s) - 1)[i] = s[i]
  <2>1. /\ SubSeq(s, 1, Len(s) - 1) \in Seq(Nat)
        /\ Len(SubSeq(s, 1, Len(s) - 1)) = Len(s) - 1
        /\ \A i \in 1 .. Len(s) - 1 : SubSeq(s, 1, Len(s) - 1)[i] = s[i]
    BY <1>4, FrontNumbers
  <2>2. QED
    BY <1>2, <1>4, <2>1
<1>5. \A i \in 1 .. Len(f) : CSeqs(q)[i] = f[i].cSeq /\ SSeqs(q)[i] = f[i].sSeq
  BY <1>1, <1>2
<1>6. CSeqs(f) = SubSeq(CSeqs(q), 1, Len(CSeqs(q)) - 1)
  <2>1. \A i \in 1 .. Len(f) : SubSeq(CSeqs(q), 1, Len(CSeqs(q)) - 1)[i] = f[i].cSeq
    BY <1>1, <1>3, <1>4, <1>5
  <2>2. QED
    BY <1>1, <1>2, <1>3, <1>4, <2>1, AreNumbers
<1>7. SSeqs(f) = SubSeq(SSeqs(q), 1, Len(SSeqs(q)) - 1)
  <2>1. \A i \in 1 .. Len(f) : SubSeq(SSeqs(q), 1, Len(SSeqs(q)) - 1)[i] = f[i].sSeq
    BY <1>1, <1>3, <1>4, <1>5
  <2>2. QED
    BY <1>1, <1>2, <1>3, <1>4, <2>1, AreNumbers
<1>8. QED
  BY <1>3, <1>6, <1>7

UpMove(t) == Up!Still(t) \/ Up!Step(t)
DownMove(t) == Down!Still(t) \/ Down!Step(t)

\* The last number on the way.
LEMMA LastNumber ==
    ASSUME NEW q \in Seq(Packets), NEW k \in Nat
    PROVE  /\ (\A i \in 1 .. Len(q) : q[i].cSeq = k + i) =>
                 (IF CSeqs(q) # <<>> THEN CSeqs(q)[Len(CSeqs(q))] ELSE k) = k + Len(q)
           /\ (\A i \in 1 .. Len(q) : q[i].sSeq = k + i) =>
                 (IF SSeqs(q) # <<>> THEN SSeqs(q)[Len(SSeqs(q))] ELSE k) = k + Len(q)
<1>1. /\ CSeqs(q) \in Seq(Nat) /\ Len(CSeqs(q)) = Len(q)
      /\ SSeqs(q) \in Seq(Nat) /\ Len(SSeqs(q)) = Len(q)
      /\ \A i \in 1 .. Len(q) : CSeqs(q)[i] = q[i].cSeq /\ SSeqs(q)[i] = q[i].sSeq
  BY NumbersOf
<1>2. CASE q = <<>>
  <2>1. CSeqs(q) = <<>> /\ SSeqs(q) = <<>> /\ Len(q) = 0 /\ k + 0 = k
    BY <1>2, NumbersOfNone
  <2>2. QED
    BY <2>1
<1>3. CASE q # <<>>
  <2>1. CSeqs(q) # <<>> /\ SSeqs(q) # <<>> /\ Len(q) \in 1 .. Len(q)
    BY <1>3, NumbersOfTail, TailQueue
  <2>2. QED
    BY <1>1, <2>1
<1>4. QED
  BY <1>2, <1>3

\* To the server.
LEMMA UpQuiet ==
    ASSUME TypeOK, TypeOK', NEW t \in Tunnels, c2s'[t] = c2s[t], cut[t] => cut'[t],
           UpEnd(t)' = UpEnd(t), UpGot(t)' = UpGot(t)
    PROVE  UpMove(t)
<1>1. UpWay(t)' = UpWay(t)
  BY DEF UpWay
<1>2. CASE cut'[t]
  BY <1>1, <1>2 DEF UpMove, Up!Step, Up!Break
<1>3. CASE ~cut'[t]
  <2>1. cut'[t] = cut[t]
    BY <1>3 DEF TypeOK
  <2>2. QED
    BY <1>1, <2>1 DEF UpMove, Up!Still
<1>4. QED
  BY <1>2, <1>3

LEMMA UpFirst ==
    ASSUME NEW t \in Tunnels, ~cut[t], ~cut'[t], UpEnd(t) = "new", UpEnd(t)' = "new",
           UpGot(t)' = UpGot(t),
           NEW m \in Packets, m.cSeq \in ClientStart, c2s[t] = <<>>, c2s'[t] = <<m>>
    PROVE  UpMove(t)
<1>1. UpWay(t) = <<>> /\ UpWay(t)' = Append(UpWay(t), m.cSeq)
  <2>1. <<>> \in Seq(Packets) /\ Append(<<>>, m) = <<m>>
    OBVIOUS
  <2>2. CSeqs(<<>>) = <<>> /\ CSeqs(<<m>>) = Append(<<>>, m.cSeq)
    BY <2>1, NumbersOfNone, NumbersOfAppend
  <2>3. QED
    BY <2>2 DEF UpWay
<1>2. QED
  BY <1>1 DEF UpMove, Up!Step, Up!SendFirst, Up!Send

LEMMA UpSends ==
    ASSUME NEW t \in Tunnels, ~cut[t], ~cut'[t], UpEnd(t) = "open", UpEnd(t)' = "open",
           UpGot(t)' = UpGot(t),
           c2s[t] \in Seq(Packets), NEW m \in Packets, c2s'[t] = Append(c2s[t], m),
           UpGot(t) \in Nat, \A i \in 1 .. Len(c2s[t]) : c2s[t][i].cSeq = UpGot(t) + i,
           m.cSeq = UpGot(t) + Len(c2s[t]) + 1
    PROVE  UpMove(t)
<1>1. UpWay(t) = CSeqs(c2s[t]) /\ UpWay(t)' = Append(UpWay(t), m.cSeq)
  BY NumbersOfAppend DEF UpWay
<1>2. (IF UpWay(t) # <<>> THEN UpWay(t)[Len(UpWay(t))] ELSE UpGot(t)) = UpGot(t) + Len(c2s[t])
  BY <1>1, LastNumber
<1>3. QED
  BY <1>1, <1>2 DEF UpMove, Up!Step, Up!SendNext, Up!Send, Up!Sent

LEMMA UpReceives ==
    ASSUME TypeOK, TypeOK', NEW t \in Tunnels, cut'[t] = cut[t], UpEnd(t) # "over",
           UpEnd(t)' = "open",
           c2s[t] # <<>>, c2s'[t] = Tail(c2s[t]), UpGot(t)' = Head(c2s[t]).cSeq
    PROVE  UpMove(t)
<1>1. c2s[t] \in Seq(Packets)
  BY DEF TypeOK
<1>2. UpWay(t) # <<>> /\ UpWay(t)' = Tail(UpWay(t)) /\ UpGot(t)' = Head(UpWay(t))
  BY <1>1, NumbersOfTail DEF UpWay
<1>3. QED
  BY <1>2 DEF UpMove, Up!Step, Up!Receive

LEMMA UpLoses ==
    ASSUME TypeOK, NEW t \in Tunnels, cut[t], cut'[t], UpEnd(t)' = UpEnd(t), UpGot(t)' = UpGot(t),
           c2s[t] # <<>>, c2s'[t] = SubSeq(c2s[t], 1, Len(c2s[t]) - 1)
    PROVE  UpMove(t)
<1>1. c2s[t] \in Seq(Packets)
  BY DEF TypeOK
<1>2. CASE UpEnd(t) = "over"
  BY <1>2 DEF UpMove, Up!Step, Up!Break, UpWay
<1>3. CASE UpEnd(t) # "over"
  <2>1. UpWay(t) # <<>> /\ UpWay(t)' = SubSeq(UpWay(t), 1, Len(UpWay(t)) - 1)
    BY <1>1, <1>3, NumbersOfFront DEF UpWay
  <2>2. QED
    BY <2>1 DEF UpMove, Up!Step, Up!Lose
<1>4. QED
  BY <1>2, <1>3

LEMMA UpEnds ==
    ASSUME NEW t \in Tunnels, cut'[t], UpEnd(t)' = "over"
    PROVE  UpMove(t)
<1>1. UpGot(t)' = 0 /\ UpWay(t)' = <<>>
  BY DEF UpGot, UpEnd, UpWay
<1>2. QED
  BY <1>1 DEF UpMove, Up!Step, Up!End

\* To the client.
LEMMA DownQuiet ==
    ASSUME TypeOK, TypeOK', NEW t \in Tunnels, s2c'[t] = s2c[t], cut[t] => cut'[t],
           DownEnd(t)' = DownEnd(t), DownGot(t)' = DownGot(t)
    PROVE  DownMove(t)
<1>1. DownWay(t)' = DownWay(t)
  BY DEF DownWay
<1>2. CASE cut'[t]
  BY <1>1, <1>2 DEF DownMove, Down!Step, Down!Break
<1>3. CASE ~cut'[t]
  <2>1. cut'[t] = cut[t]
    BY <1>3 DEF TypeOK
  <2>2. QED
    BY <1>1, <2>1 DEF DownMove, Down!Still
<1>4. QED
  BY <1>2, <1>3

LEMMA DownFirst ==
    ASSUME NEW t \in Tunnels, ~cut[t], ~cut'[t], DownEnd(t) = "new", DownEnd(t)' = "new",
           DownGot(t)' = DownGot(t),
           NEW m \in Packets, m.sSeq \in ServerStart, s2c[t] = <<>>, s2c'[t] = <<m>>
    PROVE  DownMove(t)
<1>1. DownWay(t) = <<>> /\ DownWay(t)' = Append(DownWay(t), m.sSeq)
  <2>1. <<>> \in Seq(Packets) /\ Append(<<>>, m) = <<m>>
    OBVIOUS
  <2>2. SSeqs(<<>>) = <<>> /\ SSeqs(<<m>>) = Append(<<>>, m.sSeq)
    BY <2>1, NumbersOfNone, NumbersOfAppend
  <2>3. QED
    BY <2>2 DEF DownWay
<1>2. QED
  BY <1>1 DEF DownMove, Down!Step, Down!SendFirst, Down!Send

LEMMA DownSends ==
    ASSUME NEW t \in Tunnels, ~cut[t], ~cut'[t], DownEnd(t) = "open", DownEnd(t)' = "open",
           DownGot(t)' = DownGot(t),
           s2c[t] \in Seq(Packets), NEW m \in Packets, s2c'[t] = Append(s2c[t], m),
           DownGot(t) \in Nat, \A i \in 1 .. Len(s2c[t]) : s2c[t][i].sSeq = DownGot(t) + i,
           m.sSeq = DownGot(t) + Len(s2c[t]) + 1
    PROVE  DownMove(t)
<1>1. DownWay(t) = SSeqs(s2c[t]) /\ DownWay(t)' = Append(DownWay(t), m.sSeq)
  BY NumbersOfAppend DEF DownWay
<1>2. (IF DownWay(t) # <<>> THEN DownWay(t)[Len(DownWay(t))] ELSE DownGot(t)) = DownGot(t) + Len(s2c[t])
  BY <1>1, LastNumber
<1>3. QED
  BY <1>1, <1>2 DEF DownMove, Down!Step, Down!SendNext, Down!Send, Down!Sent

LEMMA DownReceives ==
    ASSUME TypeOK, TypeOK', NEW t \in Tunnels, cut'[t] = cut[t], DownEnd(t) # "over",
           DownEnd(t)' = "open",
           s2c[t] # <<>>, s2c'[t] = Tail(s2c[t]), DownGot(t)' = Head(s2c[t]).sSeq
    PROVE  DownMove(t)
<1>1. s2c[t] \in Seq(Packets)
  BY DEF TypeOK
<1>2. DownWay(t) # <<>> /\ DownWay(t)' = Tail(DownWay(t)) /\ DownGot(t)' = Head(DownWay(t))
  BY <1>1, NumbersOfTail DEF DownWay
<1>3. QED
  BY <1>2 DEF DownMove, Down!Step, Down!Receive

LEMMA DownLoses ==
    ASSUME TypeOK, NEW t \in Tunnels, cut[t], cut'[t], DownEnd(t)' = DownEnd(t),
           DownGot(t)' = DownGot(t),
           s2c[t] # <<>>, s2c'[t] = SubSeq(s2c[t], 1, Len(s2c[t]) - 1)
    PROVE  DownMove(t)
<1>1. s2c[t] \in Seq(Packets)
  BY DEF TypeOK
<1>2. CASE DownEnd(t) = "over"
  BY <1>2 DEF DownMove, Down!Step, Down!Break, DownWay
<1>3. CASE DownEnd(t) # "over"
  <2>1. DownWay(t) # <<>> /\ DownWay(t)' = SubSeq(DownWay(t), 1, Len(DownWay(t)) - 1)
    BY <1>1, <1>3, NumbersOfFront DEF DownWay
  <2>2. QED
    BY <2>1 DEF DownMove, Down!Step, Down!Lose
<1>4. QED
  BY <1>2, <1>3

LEMMA DownEnds ==
    ASSUME NEW t \in Tunnels, cut'[t], DownEnd(t)' = "over"
    PROVE  DownMove(t)
<1>1. DownGot(t)' = 0 /\ DownWay(t)' = <<>>
  BY DEF DownGot, DownWay
<1>2. QED
  BY <1>1 DEF DownMove, Down!Step, Down!End

-----------------------------------------------------------------------------
(* Steps that do not concern a tunnel, or one of its directions.            *)

LEMMA FrameMoves ==
    ASSUME TypeOK, TypeOK', NEW t \in Tunnels, Untouched(t)
    PROVE  UpMove(t) /\ DownMove(t)
<1>1. c2s'[t] = c2s[t] /\ s2c'[t] = s2c[t] /\ (cut[t] => cut'[t])
  BY DEF Untouched
<1>2. UpEnd(t)' = UpEnd(t) /\ UpGot(t)' = UpGot(t)
  BY DEF Untouched, UpEnd, UpGot, Unread, AtServer
<1>3. DownEnd(t)' = DownEnd(t) /\ DownGot(t)' = DownGot(t)
  BY DEF Untouched, DownEnd, DownGot
<1>4. QED
  BY <1>1, <1>2, <1>3, UpQuiet, DownQuiet

\* A client that receives and sends nothing, as the server sees it.
LEMMA UpStays ==
    ASSUME TypeOK, TypeOK', UNCHANGED <<n, server, backlog>>, NEW t \in Tunnels
    PROVE  /\ UpEnd(t)' = UpEnd(t) /\ UpGot(t)' = UpGot(t)
           /\ c2s'[t] = c2s[t] /\ (cut[t] => cut'[t]) => UpMove(t)
<1>1. UpEnd(t)' = UpEnd(t) /\ UpGot(t)' = UpGot(t)
  BY DEF server, UpEnd, UpGot, Unread, AtServer, Begun
<1>2. QED
  BY <1>1, UpQuiet

\* The server, as a client sees it.
LEMMA DownStays ==
    ASSUME TypeOK, TypeOK', UNCHANGED client, NEW t \in Tunnels
    PROVE  /\ DownEnd(t)' = DownEnd(t) /\ DownGot(t)' = DownGot(t)
           /\ s2c'[t] = s2c[t] /\ (cut[t] => cut'[t]) => DownMove(t)
<1>1. DownEnd(t)' = DownEnd(t) /\ DownGot(t)' = DownGot(t)
  BY DEF client, DownEnd, DownGot, Greeting, InSession, Begun, Cur
<1>2. QED
  BY <1>1, DownQuiet

\* Another tunnel than the one a client uses.
LEMMA DownElsewhere ==
    ASSUME TypeOK, TypeOK', NEW p \in Client, UNCHANGED n,
           \A q \in Client : q # p => at'[q] = at[q] /\ ctx'[q] = ctx[q],
           NEW t \in Tunnels, t # Cur(p), s2c'[t] = s2c[t], cut'[t] = cut[t]
    PROVE  DownMove(t)
<1>1. DownEnd(t)' = DownEnd(t) /\ DownGot(t)' = DownGot(t)
  BY TunnelShape DEF DownEnd, DownGot, Greeting, InSession, Begun, Cur
<1>2. QED
  BY <1>1, DownQuiet

\* Another tunnel than the one the server works on.
LEMMA UpElsewhere ==
    ASSUME TypeOK, TypeOK', NEW c \in Tunnels, UNCHANGED client,
           srv.at = "loop" \/ srv.t = c, srv'.at = "loop" \/ srv'.t = c,
           NEW t \in Tunnels, t # c, node'[t] = node[t], c2s'[t] = c2s[t], cut'[t] = cut[t],
           t \in backlog' <=> t \in backlog
    PROVE  UpMove(t)
<1>1. UpEnd(t)' = UpEnd(t) /\ UpGot(t)' = UpGot(t)
  BY DEF client, UpEnd, UpGot, Unread, AtServer, Begun
<1>2. QED
  BY <1>1, UpQuiet

-----------------------------------------------------------------------------
(* The steps of a client.                                                  *)

LEMMA ConnectMoves ==
    ASSUME IInv, IInv', NEW p \in Client, Connect(p), NEW t \in Tunnels
    PROVE  UpMove(t) /\ DownMove(t)
<1>1. TypeOK /\ TypeOK' /\ at[p] = "off" /\ LifeInv(t)
  BY DEF IInv, Connect
<1>2. /\ n' = [n EXCEPT ![p] = n[p] + 1] /\ at' = [at EXCEPT ![p] = "connected"]
      /\ backlog' = backlog \cup {<<p, n[p] + 1>>}
      /\ UNCHANGED <<ctx, served, srv, node, cut, c2s, s2c>>
  BY <1>1 DEF Connect, Goto, server, TypeOK
<1>3. CASE t # <<p, n[p] + 1>>
  <2>1. Untouched(t)
    BY <1>1, <1>2, <1>3, TunnelShape DEF Untouched, Begun, Greeting, InSession, Cur, TypeOK
  <2>2. QED
    BY <1>1, <2>1, FrameMoves
<1>4. CASE t = <<p, n[p] + 1>>
  <2>1. ~Begun(t) /\ Begun(t)' /\ Greeting(t)' /\ t \in backlog' /\ n[p] \in Nat
    BY <1>1, <1>2, <1>4 DEF Begun, Greeting, Cur, TypeOK
  <2>2. /\ node[t] = NoNode /\ ~AtServer(t, "third") /\ node'[t] = NoNode /\ ~AtServer(t, "third")'
    BY <1>1, <1>2, <2>1 DEF LifeInv, FreshInv, AtServer
  <2>3. UpEnd(t) = "new" /\ UpEnd(t)' = "new" /\ UpGot(t) = 0 /\ UpGot(t)' = 0
    BY <2>1, <2>2 DEF UpEnd, UpGot, Unread
  <2>4. DownEnd(t) = "new" /\ DownEnd(t)' = "new" /\ DownGot(t) = 0 /\ DownGot(t)' = 0
    <3>1. DownEnd(t) = "new" /\ DownEnd(t)' = "new"
      BY <2>1 DEF DownEnd
    <3>2. QED
      BY <3>1 DEF DownGot
  <2>5. QED
    BY <1>1, <1>2, <2>3, <2>4, UpQuiet, DownQuiet
<1>5. QED
  BY <1>3, <1>4

LEMMA ConnectFailsMoves ==
    ASSUME IInv, IInv', NEW p \in Client, ConnectFails(p), NEW t \in Tunnels
    PROVE  UpMove(t) /\ DownMove(t)
<1>1. TypeOK /\ TypeOK'
  BY DEF IInv
<1>2. Untouched(t)
  BY TunnelShape DEF Untouched, Begun, Greeting, InSession, Cur, IInv, TypeOK, ConnectFails,
     Goto, server
<1>3. QED
  BY <1>1, <1>2, FrameMoves

\* The first packet is sent, unless the server has dropped the tunnel.
LEMMA SendFirstMoves ==
    ASSUME IInv, IInv', NEW p \in Client, SendFirst(p), NEW t \in Tunnels
    PROVE  UpMove(t) /\ DownMove(t)
<1>1. TypeOK /\ TypeOK' /\ at[p] = "connected" /\ LifeInv(t)
  BY DEF IInv, SendFirst
<1>2. PICK k \in ClientStart :
         /\ ctx' = [ctx EXCEPT ![p] = [cSeq |-> k, sSeq |-> 0]]
         /\ c2s' = Put(c2s, Cur(p), Packet("first", k, 0))
  BY DEF SendFirst
<1>3. /\ at' = [at EXCEPT ![p] = "hello"] /\ n' = n
      /\ UNCHANGED <<served, srv, node, backlog, cut, s2c>>
  BY DEF SendFirst, Goto, server
<1>4. UpEnd(t)' = UpEnd(t) /\ UpGot(t)' = UpGot(t) /\ (c2s'[t] = c2s[t] => UpMove(t))
  BY <1>1, <1>3, UpStays DEF server
<1>5. DownMove(t)
  <2>1. DownEnd(t)' = DownEnd(t) /\ DownGot(t)' = DownGot(t)
    BY <1>1, <1>2, <1>3, TunnelShape DEF DownEnd, DownGot, Greeting, InSession, Begun, Cur, TypeOK
  <2>2. QED
    BY <1>1, <1>3, <2>1, DownQuiet
<1>6. CASE t # Cur(p) \/ cut[t]
  BY <1>1, <1>2, <1>4, <1>5, <1>6 DEF Put, TypeOK
<1>7. CASE t = Cur(p) /\ ~cut[t]
  <2>1. k \in Nat /\ Packet("first", k, 0) \in Packets /\ Packet("first", k, 0).cSeq = k
    BY StartAssumption, PacketType DEF Packet
  <2>2. Greeting(t) /\ ~InSession(t) /\ Begun(t)
    BY <1>1, <1>7 DEF Greeting, InSession, Begun, Cur, TypeOK
  <2>3. node[t] = NoNode /\ c2s[t] = <<>> /\ ~AtServer(t, "third") /\ Unread(t)
    BY <1>1, <1>7, <2>2, CurTunnel DEF LifeInv, HelloInv, CutInv, IInv, Cur
  <2>4. UpEnd(t) = "new"
    BY <2>3 DEF UpEnd
  <2>5. c2s'[t] = <<Packet("first", k, 0)>>
    BY <1>1, <1>2, <1>7, <2>3 DEF Put, TypeOK
  <2>6. UpMove(t)
    BY <1>3, <1>4, <1>7, <2>1, <2>3, <2>4, <2>5, UpFirst
  <2>7. QED
    BY <1>5, <2>6
<1>8. QED
  BY <1>6, <1>7

\* A client stops.
LEMMA CloseMoves ==
    ASSUME IInv, IInv', NEW p \in Client, at[p] \notin {"off", "ended"},
           NEW x \in {"off", "ended"}, Goto(p, x), Close(p),
           UNCHANGED <<n, served, server, backlog, c2s>>, NEW t \in Tunnels
    PROVE  UpMove(t) /\ DownMove(t)
<1>1. TypeOK /\ TypeOK' /\ n[p] >= 1
  BY DEF IInv
<1>2. /\ cut' = [cut EXCEPT ![Cur(p)] = TRUE] /\ s2c' = [s2c EXCEPT ![Cur(p)] = <<>>]
      /\ at' = [at EXCEPT ![p] = x]
      /\ ctx' = [ctx EXCEPT ![p] = [cSeq |-> 0, sSeq |-> 0]]
  BY DEF Close, Cut, Flushed, Goto
<1>3. UpMove(t)
  <2>1. cut[t] => cut'[t]
    BY <1>1, <1>2 DEF TypeOK
  <2>2. QED
    BY <1>1, <2>1, UpStays
<1>4. CASE t # Cur(p)
  <2>1. s2c'[t] = s2c[t] /\ cut'[t] = cut[t]
    BY <1>1, <1>2, <1>4 DEF TypeOK
  <2>2. \A q \in Client : q # p => at'[q] = at[q] /\ ctx'[q] = ctx[q]
    BY <1>1, <1>2 DEF TypeOK
  <2>3. DownMove(t)
    BY <1>1, <1>4, <2>1, <2>2, DownElsewhere
  <2>4. QED
    BY <1>3, <2>3
<1>5. CASE t = Cur(p)
  <2>1. cut'[t]
    BY <1>1, <1>2, <1>5 DEF TypeOK
  <2>2. t[1] = p /\ t[2] = n[p] /\ at'[p] = x
    BY <1>1, <1>2, <1>5 DEF Cur, TypeOK
  <2>3. DownEnd(t)' = "over"
    BY <1>1, <2>2 DEF DownEnd, Greeting, InSession, Begun, TypeOK
  <2>4. QED
    BY <1>3, <2>1, <2>3, DownEnds
<1>6. QED
  BY <1>4, <1>5

\* Inside the session nothing comes or goes.
LEMMA SessionMoves ==
    ASSUME IInv, IInv', NEW p \in Client,
           at[p] \in {"listen", "run", "user", "held", "request", "data"},
           NEW x \in {"run", "user", "held", "request", "data"}, Goto(p, x),
           \A q \in Client : ctx'[q].sSeq = ctx[q].sSeq,
           UNCHANGED <<n, server, backlog, cut, s2c>>, NEW t \in Tunnels
    PROVE  DownMove(t) /\ (c2s'[t] = c2s[t] => UpMove(t))
<1>1. TypeOK /\ TypeOK'
  BY DEF IInv
<1>2. c2s'[t] = c2s[t] => UpMove(t)
  BY <1>1, UpStays
<1>3. at' = [at EXCEPT ![p] = x]
  BY DEF Goto
<1>4. DownEnd(t)' = DownEnd(t)
  BY <1>1, <1>3, TunnelShape DEF DownEnd, Greeting, InSession, Begun, Cur, TypeOK
<1>5. DownGot(t)' = DownGot(t)
  BY <1>4, TunnelShape DEF DownGot
<1>6. QED
  BY <1>1, <1>2, <1>4, <1>5, DownQuiet

\* A message is sent, unless the server has dropped the tunnel.
LEMMA EndMessageMoves ==
    ASSUME IInv, IInv', NEW p \in Client, EndMessage(p), NEW t \in Tunnels
    PROVE  UpMove(t) /\ DownMove(t)
<1>1. TypeOK /\ TypeOK' /\ at[p] \in {"request", "data"} /\ LifeInv(t)
  BY DEF IInv, EndMessage
<1>2. /\ Goto(p, "run") /\ n' = n /\ ctx' = ctx
      /\ UNCHANGED <<n, server, backlog, cut, s2c>>
      /\ c2s' = Put(c2s, Cur(p), Packet("message", ctx[p].cSeq, ctx[p].sSeq))
  BY DEF EndMessage
<1>3. DownMove(t) /\ (c2s'[t] = c2s[t] => UpMove(t))
  BY <1>1, <1>2, SessionMoves
<1>4. CASE t # Cur(p) \/ cut[t]
  BY <1>1, <1>2, <1>3, <1>4 DEF Put, TypeOK
<1>5. CASE t = Cur(p) /\ ~cut[t]
  <2>1. PICK m \in Packets :
          m = Packet("message", ctx[p].cSeq, ctx[p].sSeq) /\ m.cSeq = ctx[p].cSeq
    <3>1. Packet("message", ctx[p].cSeq, ctx[p].sSeq) \in Packets
      BY <1>1, PacketType DEF TypeOK, Numbers
    <3>2. QED
      BY <3>1 DEF Packet
  <2>2. t[1] = p /\ InSession(t) /\ ~Greeting(t) /\ Begun(t) /\ Sending(p) = 1
    <3>1. t[1] = p /\ t[2] = n[p] /\ t = Cur(t[1])
      BY <1>5 DEF Cur
    <3>2. InSession(t) /\ ~Greeting(t)
      BY <1>1, <3>1 DEF InSession, Greeting
    <3>3. Begun(t)
      BY <1>1, <3>1 DEF Begun, TypeOK
    <3>4. Sending(p) = 1
      BY <1>1 DEF Sending
    <3>5. QED
      BY <3>1, <3>2, <3>3, <3>4
  <2>3. /\ c2s[t] \in Seq(Packets) /\ c2s'[t] = Append(c2s[t], m)
    BY <1>1, <1>2, <1>5, <2>1 DEF Put, TypeOK
  <2>4. /\ UpEnd(t) = "open" /\ UpGot(t) \in Nat
        /\ \A i \in 1 .. Len(c2s[t]) : c2s[t][i].cSeq = UpGot(t) + i
        /\ ctx[p].cSeq = UpGot(t) + Len(c2s[t]) + 1
    <3>1. CASE node[t] # NoNode
      <4>1. UpEnd(t) = "open" /\ UpGot(t) = node[t].cSeq
        <5>1. UpEnd(t) = "open"
          BY <3>1 DEF UpEnd
        <5>2. UpGot(t) = node[t].cSeq
          BY <3>1 DEF UpGot
        <5>3. QED
          BY <5>1, <5>2
      <4>2. FromClient(c2s[t], node[t].cSeq) /\ ctx[p].cSeq = node[t].cSeq + Len(c2s[t]) + 1
        BY <1>1, <1>5, <2>2, <3>1 DEF LifeInv, InStep, Complete
      <4>3. QED
        BY <1>1, <3>1, <4>1, <4>2, TunnelTypes DEF FromClient
    <3>2. CASE node[t] = NoNode /\ AtServer(t, "third")
      <4>1. UpEnd(t) = "open" /\ UpGot(t) = srv.cSeq
        <5>1. UpEnd(t) = "open"
          BY <3>2 DEF UpEnd
        <5>2. UpGot(t) = srv.cSeq
          BY <3>2 DEF UpGot
        <5>3. QED
          BY <5>1, <5>2
      <4>2. FromHello(c2s[t], srv.cSeq, srv.sSeq) /\ ctx[p].cSeq = srv.cSeq + Len(c2s[t]) + 1
        BY <1>1, <1>5, <2>2, <3>2 DEF LifeInv, ThirdInv
      <4>3. QED
        BY <1>1, <4>1, <4>2, TunnelTypes DEF FromHello
    <3>3. node[t] # NoNode \/ AtServer(t, "third")
      BY <1>1, <1>5, <2>2 DEF LifeInv, UnreadInv, CutInv
    <3>4. QED
      BY <3>1, <3>2, <3>3
  <2>5. UpEnd(t)' = "open" /\ UpGot(t)' = UpGot(t)
    BY <1>1, <1>2, <2>4, UpStays
  <2>6. UpMove(t)
    BY <1>2, <1>5, <2>1, <2>3, <2>4, <2>5, UpSends
  <2>7. QED
    BY <1>3, <2>6
<1>6. QED
  BY <1>4, <1>5

\* A packet of the server is received.
LEMMA FromServerMoves ==
    ASSUME IInv, IInv', NEW p \in Client, FromServer(p), NEW t \in Tunnels
    PROVE  UpMove(t) /\ DownMove(t)
<1>1. TypeOK /\ TypeOK' /\ at[p] = "run" /\ LifeInv(t) /\ s2c[Cur(p)] # <<>>
  BY DEF IInv, FromServer
<1>2. /\ s2c' = [s2c EXCEPT ![Cur(p)] = Tail(s2c[Cur(p)])]
      /\ UNCHANGED <<n, server, backlog, cut, c2s>>
      /\ \A q \in Client : q # p => at'[q] = at[q] /\ ctx'[q] = ctx[q]
      /\ at'[p] \in {"run", "held"}
  BY <1>1 DEF FromServer, Get, Goto, TypeOK
<1>3. UpMove(t)
  BY <1>1, <1>2, UpStays
<1>4. CASE t # Cur(p)
  <2>1. s2c'[t] = s2c[t]
    BY <1>1, <1>2, <1>4 DEF TypeOK
  <2>2. DownMove(t)
    BY <1>1, <1>2, <1>4, <2>1, DownElsewhere
  <2>3. QED
    BY <1>3, <2>2
<1>5. CASE t = Cur(p)
  <2>1. /\ t[1] = p /\ InSession(t) /\ InSession(t)' /\ Begun(t) /\ Begun(t)' /\ ~Greeting(t) /\ ~Greeting(t)'
    BY <1>1, <1>2, <1>5 DEF InSession, Greeting, Begun, Cur, TypeOK
  <2>2. DownEnd(t) = "open" /\ DownEnd(t)' = "open" /\ DownGot(t)' = ctx'[p].sSeq
    BY <2>1 DEF DownEnd, DownGot
  <2>3. Head(s2c[t]).type = "message" /\ Head(s2c[t]).sSeq = ctx[p].sSeq + 1
    <3>1. s2c[t] \in Seq(Packets) /\ FromTheServer(s2c[t], ctx[p].sSeq) /\ ctx[p].sSeq \in Nat
      BY <1>1, <2>1, TunnelTypes DEF LifeInv, InStep
    <3>2. QED
      BY <1>1, <1>5, <3>1, TailFromTheServer
  <2>4. ctx'[p].sSeq = Head(s2c[t]).sSeq
    <3>1. ctx' = [ctx EXCEPT ![p] = [ctx[p] EXCEPT !.sSeq = Head(s2c[t]).sSeq]]
      BY <1>1, <1>5, <2>3 DEF FromServer, TypeOK
    <3>2. ctx[p] \in Numbers
      BY <1>1 DEF TypeOK
    <3>3. QED
      BY <1>1, <3>1, <3>2, NumbersExcept DEF TypeOK
  <2>5. s2c'[t] = Tail(s2c[t]) /\ cut'[t] = cut[t]
    BY <1>1, <1>2, <1>5 DEF TypeOK
  <2>6. DownMove(t)
    BY <1>1, <1>5, <2>2, <2>4, <2>5, DownReceives
  <2>7. QED
    BY <1>3, <2>6
<1>6. QED
  BY <1>4, <1>5

\* The second packet is received and the third sent; or the handshake is over.
LEMMA SendThirdMoves ==
    ASSUME IInv, IInv', NEW p \in Client, SendThird(p), NEW t \in Tunnels
    PROVE  UpMove(t) /\ DownMove(t)
<1>1. TypeOK /\ TypeOK' /\ at[p] = "hello" /\ LifeInv(t) /\ s2c[Cur(p)] # <<>> /\ n[p] >= 1
  BY DEF IInv, SendThird
<1>2. PICK c \in Tunnels : c = Cur(p) /\ c[1] = p /\ c[2] = n[p] /\ LifeInv(c)
  BY <1>1, CurTunnel DEF IInv
<1>3. PICK m \in Packets : m = Head(s2c[c])
  BY <1>1, <1>2, TailQueue DEF TypeOK
<1>4. CASE ~(m.cSeq = ctx[p].cSeq /\ m.type = "second")
  <2>1. Goto(p, "ended") /\ Close(p) /\ UNCHANGED <<n, served, server, backlog, c2s>>
    BY <1>2, <1>3, <1>4 DEF SendThird
  <2>2. QED
    BY <1>1, <2>1, CloseMoves
<1>5. CASE m.cSeq = ctx[p].cSeq /\ m.type = "second"
  <2>1. /\ ctx' = [ctx EXCEPT ![p] = [cSeq |-> m.cSeq + 1, sSeq |-> m.sSeq]]
        /\ c2s' = Put(c2s, c, Packet("third", m.cSeq + 1, m.sSeq))
        /\ s2c' = [s2c EXCEPT ![c] = Tail(s2c[c])]
        /\ at' = [at EXCEPT ![p] = "listen"]
        /\ UNCHANGED <<n, server, backlog, cut>>
    BY <1>1, <1>2, <1>3, <1>5 DEF SendThird, NewContext, Get, Goto, TypeOK
  <2>2. UpEnd(t)' = UpEnd(t) /\ UpGot(t)' = UpGot(t) /\ (c2s'[t] = c2s[t] => UpMove(t))
    BY <1>1, <2>1, UpStays
  <2>3. CASE t # c
    <3>1. c2s'[t] = c2s[t] /\ s2c'[t] = s2c[t]
      BY <1>1, <1>2, <2>1, <2>3 DEF Put, TypeOK
    <3>2. \A q \in Client : q # p => at'[q] = at[q] /\ ctx'[q] = ctx[q]
      BY <1>1, <2>1 DEF TypeOK
    <3>3. DownMove(t)
      BY <1>1, <1>2, <2>1, <2>3, <3>1, <3>2, DownElsewhere
    <3>4. QED
      BY <2>2, <3>1, <3>3
  <2>4. CASE t = c
    <3>1. Greeting(t) /\ ~InSession(t) /\ Begun(t)
      <4>1. t[1] = p /\ t[2] = n[p] /\ t = Cur(t[1])
        BY <1>2, <2>4
      <4>2. QED
        BY <1>1, <4>1 DEF Greeting, InSession, Begun, TypeOK
    <3>2. /\ InSession(t)' /\ ~Greeting(t)' /\ Begun(t)'
          /\ ctx'[p].sSeq = m.sSeq /\ s2c'[t] = Tail(s2c[t])
      BY <1>1, <1>2, <2>1, <2>4, <3>1 DEF Greeting, InSession, Begun, Cur, TypeOK
    <3>3. DownMove(t)
      <4>1. DownEnd(t) = "new" /\ DownEnd(t)' = "open"
        BY <3>1, <3>2 DEF DownEnd
      <4>2. DownGot(t)' = m.sSeq
        BY <1>2, <2>4, <3>2, <4>1 DEF DownGot
      <4>3. QED
        BY <1>1, <1>2, <1>3, <2>1, <2>4, <3>2, <4>1, <4>2, DownReceives
    <3>4. UpMove(t)
      <4>1. CASE cut[t]
        BY <1>1, <2>1, <2>2, <2>4, <4>1 DEF Put
      <4>2. CASE ~cut[t]
        <5>1. s2c[t] \in Seq(Packets) /\ c2s[t] \in Seq(Packets) /\ srv.cSeq \in Nat /\ m.cSeq \in Nat /\ m.sSeq \in Nat
          BY <1>1, TunnelTypes DEF Packets
        <5>2. /\ node[t] = NoNode /\ ~Unread(t) /\ AtServer(t, "third")
              /\ c2s[t] = <<>> /\ srv.cSeq = m.cSeq
          BY <1>1, <1>2, <1>5, <2>4, <3>1, <4>2 DEF LifeInv, UnreadInv, HelloInv, CutInv
        <5>3. UpEnd(t) = "open" /\ UpGot(t) = m.cSeq
          BY <5>2 DEF UpEnd, UpGot
        <5>4. PICK k \in Packets : k = Packet("third", m.cSeq + 1, m.sSeq) /\ k.cSeq = m.cSeq + 1
          <6>1. Packet("third", m.cSeq + 1, m.sSeq) \in Packets
            BY <5>1, PacketType
          <6>2. QED
            BY <6>1 DEF Packet
        <5>5. c2s'[t] = Append(c2s[t], k)
          BY <1>1, <2>1, <2>4, <4>2, <5>4 DEF Put, TypeOK
        <5>6. Len(c2s[t]) = 0 /\ UpGot(t) \in Nat /\ k.cSeq = UpGot(t) + Len(c2s[t]) + 1
          BY <5>1, <5>2, <5>3, <5>4
        <5>7. \A i \in 1 .. Len(c2s[t]) : c2s[t][i].cSeq = UpGot(t) + i
          BY <5>6
        <5>8. ~cut'[t] /\ UpEnd(t)' = "open"
          BY <2>1, <2>2, <4>2, <5>3
        <5>9. QED
          BY <2>2, <4>2, <5>1, <5>3, <5>5, <5>6, <5>7, <5>8, UpSends
      <4>3. QED
        BY <4>1, <4>2
    <3>5. QED
      BY <3>3, <3>4
  <2>5. QED
    BY <2>3, <2>4
<1>6. QED
  BY <1>4, <1>5

LEMMA ClientMoves ==
    ASSUME IInv, IInv', NEW p \in Client, ClientStep(p), NEW t \in Tunnels
    PROVE  UpMove(t) /\ DownMove(t)
<1>1. CASE Connect(p)
  BY <1>1, ConnectMoves
<1>2. CASE ConnectFails(p)
  BY <1>2, ConnectFailsMoves
<1>3. CASE SendFirst(p)
  BY <1>3, SendFirstMoves
<1>4. CASE SendThird(p)
  BY <1>4, SendThirdMoves
<1>5. CASE ShakeFails(p) \/ ListenFails(p) \/ Leave(p) \/ Killed(p) \/ DataFails(p)
  BY <1>5, CloseMoves DEF ShakeFails, ListenFails, Leave, Killed, DataFails
<1>6. CASE \/ Listen(p) \/ AcceptUser(p) \/ UserLeaves(p) \/ RequestFails(p)
           \/ ReadSilentUser(p) \/ UserMoves(p)
  <2>1. /\ \E x \in {"run", "user", "held"} : Goto(p, x)
        /\ at[p] \in {"listen", "run", "user", "held", "request", "data"}
        /\ UNCHANGED <<n, ctx, server, backlog, cut, c2s, s2c>>
    BY <1>6 DEF Listen, AcceptUser, UserLeaves, RequestFails, ReadSilentUser, UserMoves
  <2>2. QED
    BY <2>1, SessionMoves
<1>7. CASE UserAsks(p) \/ UserData(p)
  <2>1. PICK x \in {"request", "data"} : BeginMessage(p, x) /\ at[p] \in {"run", "user"}
    BY <1>7 DEF UserAsks, UserData
  <2>2. /\ Goto(p, x) /\ UNCHANGED <<n, server, backlog, cut, c2s, s2c>>
        /\ ctx' = [ctx EXCEPT ![p].cSeq = ctx[p].cSeq + 1]
    BY <2>1 DEF BeginMessage
  <2>3. \A q \in Client : ctx'[q].sSeq = ctx[q].sSeq
    <3>1. ctx \in [Client -> Numbers]
      BY DEF IInv, TypeOK
    <3>2. ctx' = [ctx EXCEPT ![p] = [ctx[p] EXCEPT !.cSeq = ctx[p].cSeq + 1]]
      BY <2>2, <3>1
    <3>3. QED
      BY <3>1, <3>2, NumbersExcept
  <2>4. QED
    BY <2>1, <2>2, <2>3, SessionMoves
<1>8. CASE EndMessage(p)
  BY <1>8, EndMessageMoves
<1>9. CASE FromServer(p)
  BY <1>9, FromServerMoves
<1>10. QED
  BY <1>1, <1>2, <1>3, <1>4, <1>5, <1>6, <1>7, <1>8, <1>9 DEF ClientStep, Shake, SendReturns

-----------------------------------------------------------------------------
(* The steps of the server.                                                *)

\* A client is dropped: nothing it sent is received any more.
LEMMA DropMoves ==
    ASSUME IInv, IInv', NEW c \in Tunnels, Drop(c), UNCHANGED <<client, backlog, s2c>>,
           \/ srv.at = "loop" /\ node[c] # NoNode
           \/ AtServer(c, "first") \/ AtServer(c, "third")
           \/ AtServer(c, "reply"),
           NEW t \in Tunnels
    PROVE  UpMove(t) /\ DownMove(t)
<1>1. TypeOK /\ TypeOK' /\ LifeInv(c) /\ LifeInv(c)'
  BY DEF IInv
<1>2. /\ node' = [node EXCEPT ![c] = NoNode] /\ cut' = [cut EXCEPT ![c] = TRUE]
      /\ c2s' = [c2s EXCEPT ![c] = <<>>] /\ srv' = Idle /\ srv'.at = "loop"
  BY IdleType DEF Drop, Cut, Flushed
<1>3. DownMove(t)
  <2>1. cut[t] => cut'[t]
    BY <1>1, <1>2 DEF TypeOK
  <2>2. QED
    BY <1>1, <2>1, DownStays
<1>4. CASE t # c
  <2>1. node'[t] = node[t] /\ c2s'[t] = c2s[t] /\ cut'[t] = cut[t]
    BY <1>1, <1>2, <1>4 DEF TypeOK
  <2>2. UpMove(t)
    BY <1>1, <1>2, <1>4, <2>1, UpElsewhere DEF AtServer
  <2>3. QED
    BY <1>3, <2>2
<1>5. CASE t = c
  <2>1. node'[c] = NoNode /\ cut'[c]
    BY <1>1, <1>2 DEF TypeOK
  <2>2. UNCHANGED <<at, n>>
    BY DEF client
  <2>3. Begun(c) /\ c \notin backlog
    BY <1>1 DEF LifeInv, FreshInv, UnreadInv, Unread, AnswerInv, Answering, AtServer
  <2>4. UpEnd(c)' = "over"
    BY <1>2, <2>1, <2>2, <2>3 DEF UpEnd, Unread, AtServer, Begun
  <2>5. QED
    BY <1>3, <1>5, <2>1, <2>4, UpEnds
<1>6. QED
  BY <1>4, <1>5

LEMMA AcceptMoves ==
    ASSUME IInv, IInv', NEW c \in Tunnels, Accept(c), NEW t \in Tunnels
    PROVE  UpMove(t) /\ DownMove(t)
<1>1. TypeOK /\ TypeOK' /\ LifeInv(c) /\ srv.at = "loop" /\ c \in backlog
  BY DEF IInv, Accept
<1>2. /\ UNCHANGED client /\ backlog' = backlog \ {c} /\ UNCHANGED <<node, cut, c2s, s2c>>
      /\ srv'.at = "first" /\ srv'.t = c
  BY DEF Accept, Busy
<1>3. DownMove(t)
  BY <1>1, <1>2, DownStays
<1>4. CASE t # c
  BY <1>1, <1>2, <1>3, <1>4, UpElsewhere
<1>5. CASE t = c
  <2>1. /\ Unread(t) /\ Unread(t)' /\ ~AtServer(t, "third") /\ ~AtServer(t, "third")'
        /\ node[t] = NoNode /\ node'[t] = NoNode
    BY <1>1, <1>2, <1>5 DEF LifeInv, UnreadInv, Unread, AtServer
  <2>2. UpEnd(t) = "new" /\ UpEnd(t)' = "new" /\ UpGot(t) = 0 /\ UpGot(t)' = 0
    BY <2>1 DEF UpEnd, UpGot
  <2>3. UpMove(t)
    BY <1>1, <1>2, <2>2, UpQuiet
  <2>4. QED
    BY <1>3, <2>3
<1>6. QED
  BY <1>4, <1>5

\* The first packet is received and the second sent; or the handshake is over.
LEMMA SendSecondMoves ==
    ASSUME IInv, IInv', NEW c \in Tunnels, SendSecond(c), NEW t \in Tunnels
    PROVE  UpMove(t) /\ DownMove(t)
<1>1. /\ TypeOK /\ TypeOK' /\ LifeInv(c) /\ srv.at = "first" /\ srv.t = c /\ AtServer(c, "first")
      /\ c2s[c] # <<>>
  BY DEF IInv, SendSecond, AtServer
<1>2. PICK m \in Packets : m = Head(c2s[c])
  BY <1>1, TailQueue DEF TypeOK
<1>3. CASE m.type # "first"
  <2>1. Drop(c) /\ UNCHANGED <<client, backlog, s2c>>
    BY <1>2, <1>3 DEF SendSecond
  <2>2. QED
    BY <1>1, <2>1, DropMoves
<1>4. CASE m.type = "first"
  <2>1. /\ c2s' = [c2s EXCEPT ![c] = Tail(c2s[c])]
        /\ s2c' = Put(s2c, c, Packet("second", m.cSeq, srv.sSeq))
        /\ srv' = [at |-> "third", t |-> c, cSeq |-> m.cSeq, sSeq |-> srv.sSeq]
        /\ UNCHANGED <<client, node, backlog, cut>>
    BY <1>1, <1>2, <1>4 DEF SendSecond, Get, Busy, TypeOK
  <2>2. srv'.at = "third" /\ srv'.t = c /\ srv'.cSeq = m.cSeq
    BY <2>1
  <2>3. DownEnd(t)' = DownEnd(t) /\ DownGot(t)' = DownGot(t) /\ (s2c'[t] = s2c[t] => DownMove(t))
    BY <1>1, <2>1, DownStays
  <2>4. CASE t # c
    <3>1. c2s'[t] = c2s[t] /\ s2c'[t] = s2c[t]
      BY <1>1, <2>1, <2>4 DEF Put, TypeOK
    <3>2. UpMove(t)
      BY <1>1, <2>1, <2>2, <2>4, <3>1, UpElsewhere
    <3>3. QED
      BY <2>3, <3>1, <3>2
  <2>5. CASE t = c
    <3>1. /\ Unread(c) /\ node[c] = NoNode /\ ~AtServer(c, "third") /\ s2c[c] = <<>> /\ ~InSession(c)
          /\ srv.sSeq \in ServerStart
      BY <1>1 DEF LifeInv, UnreadInv, Unread
    <3>2. AtServer(c, "third")' /\ node'[c] = NoNode
      BY <2>1, <2>2, <3>1 DEF AtServer
    <3>3. UpMove(c)
      <4>1. UpEnd(c) = "new" /\ UpEnd(c)' = "open" /\ UpGot(c)' = m.cSeq
        BY <2>2, <3>1, <3>2 DEF UpEnd, UpGot
      <4>2. c2s'[c] = Tail(c2s[c])
        BY <1>1, <2>1 DEF TypeOK
      <4>3. QED
        BY <1>1, <1>2, <2>1, <4>1, <4>2, UpReceives
    <3>4. DownMove(c)
      <4>1. CASE cut[c]
        BY <1>1, <2>1, <2>3, <2>5, <4>1 DEF Put
      <4>2. CASE ~cut[c]
        <5>1. Greeting(c)
          BY <1>1, <3>1, <4>2 DEF LifeInv, CutInv, FreshInv
        <5>2. DownEnd(c) = "new" /\ DownEnd(c)' = "new"
          BY <2>3, <2>5, <5>1 DEF DownEnd
        <5>3. PICK k \in Packets : k = Packet("second", m.cSeq, srv.sSeq) /\ k.sSeq = srv.sSeq
          <6>1. m.cSeq \in Nat /\ srv.sSeq \in Nat
            BY <1>1 DEF Packets, TypeOK
          <6>2. Packet("second", m.cSeq, srv.sSeq) \in Packets
            BY <6>1, PacketType
          <6>3. QED
            BY <6>2 DEF Packet
        <5>4. s2c'[c] = <<k>>
          BY <1>1, <2>1, <3>1, <4>2, <5>3 DEF Put, TypeOK
        <5>5. QED
          BY <2>1, <2>3, <2>5, <3>1, <4>2, <5>2, <5>3, <5>4, DownFirst
      <4>3. QED
        BY <4>1, <4>2
    <3>5. QED
      BY <2>5, <3>3, <3>4
  <2>6. QED
    BY <2>4, <2>5
<1>5. QED
  BY <1>3, <1>4

\* The third packet is received, or a message, and what is sent for it is still to come.
LEMMA TakeMoves ==
    ASSUME IInv, IInv', NEW c \in Tunnels, UNCHANGED <<client, backlog, cut, s2c>>,
           node[c] # NoNode \/ AtServer(c, "third"), node'[c] # NoNode,
           c2s[c] # <<>>, c2s' = Get(c2s, c), node'[c].cSeq = Head(c2s[c]).cSeq,
           srv.at = "loop" \/ srv.t = c, srv'.at = "loop" \/ srv'.t = c,
           \A u \in Tunnels : u # c => node'[u] = node[u],
           NEW t \in Tunnels
    PROVE  UpMove(t) /\ DownMove(t)
<1>1. TypeOK /\ TypeOK'
  BY DEF IInv
<1>2. DownMove(t)
  BY <1>1, DownStays
<1>3. CASE t # c
  <2>1. c2s'[t] = c2s[t]
    BY <1>1, <1>3 DEF Get, TypeOK
  <2>2. UpMove(t)
    BY <1>1, <1>3, <2>1, UpElsewhere
  <2>3. QED
    BY <1>2, <2>2
<1>4. CASE t = c
  <2>1. UpEnd(c) = "open" /\ UpEnd(c)' = "open" /\ UpGot(c)' = Head(c2s[c]).cSeq
    BY DEF UpEnd, UpGot
  <2>2. c2s'[c] = Tail(c2s[c])
    BY <1>1 DEF Get, TypeOK
  <2>3. UpMove(c)
    BY <1>1, <2>1, <2>2, UpReceives
  <2>4. QED
    BY <1>2, <1>4, <2>3
<1>5. QED
  BY <1>3, <1>4

LEMMA RegisterMoves ==
    ASSUME IInv, IInv', NEW c \in Tunnels, Register(c), NEW t \in Tunnels
    PROVE  UpMove(t) /\ DownMove(t)
<1>1. TypeOK /\ AtServer(c, "third") /\ srv.t = c /\ c2s[c] # <<>>
  BY DEF IInv, Register, AtServer
<1>2. PICK m \in Packets : m = Head(c2s[c])
  BY <1>1, TailQueue DEF TypeOK
<1>3. CASE ~(m.sSeq = srv.sSeq /\ m.cSeq = srv.cSeq + 1 /\ m.type = "third")
  <2>1. Drop(c) /\ UNCHANGED <<client, backlog, s2c>>
    BY <1>2, <1>3 DEF Register
  <2>2. QED
    BY <1>1, <2>1, DropMoves
<1>4. CASE m.sSeq = srv.sSeq /\ m.cSeq = srv.cSeq + 1 /\ m.type = "third"
  <2>1. /\ c2s' = Get(c2s, c) /\ node' = [node EXCEPT ![c] = [cSeq |-> m.cSeq, sSeq |-> m.sSeq]]
        /\ srv' = Idle /\ srv'.at = "loop" /\ UNCHANGED <<client, backlog, cut, s2c>>
    BY <1>2, <1>4, IdleType DEF Register
  <2>2. [cSeq |-> m.cSeq, sSeq |-> m.sSeq] # NoNode
    BY NoNodeAssumption DEF Packets
  <2>3. /\ node'[c] # NoNode /\ node'[c].cSeq = m.cSeq
        /\ \A u \in Tunnels : u # c => node'[u] = node[u]
    BY <1>1, <2>1, <2>2 DEF TypeOK
  <2>4. QED
    BY <1>1, <1>2, <2>1, <2>3, TakeMoves
<1>5. QED
  BY <1>3, <1>4

LEMMA ReceiveMoves ==
    ASSUME IInv, IInv', NEW c \in Tunnels, Receive(c), NEW t \in Tunnels
    PROVE  UpMove(t) /\ DownMove(t)
<1>1. TypeOK /\ TypeOK' /\ srv.at = "loop" /\ node[c] # NoNode /\ c2s[c] # <<>> /\ LifeInv(c)'
  BY DEF IInv, Receive
<1>2. PICK m \in Packets : m = Head(c2s[c])
  BY <1>1, TailQueue DEF TypeOK
<1>3. CASE ~(m.cSeq = node[c].cSeq + 1 /\ m.type = "message")
  <2>1. Drop(c) /\ UNCHANGED <<client, backlog, s2c>>
    BY <1>2, <1>3 DEF Receive
  <2>2. QED
    BY <1>1, <2>1, DropMoves
<1>4. CASE m.cSeq = node[c].cSeq + 1 /\ m.type = "message"
  <2>1. c2s' = Get(c2s, c) /\ UNCHANGED <<client, backlog, cut, s2c>>
    BY <1>2, <1>4 DEF Receive
  <2>2. /\ srv'.at = "loop" \/ srv'.t = c
        /\ \A u \in Tunnels : u # c => node'[u] = node[u]
        /\ node'[c] # NoNode /\ node'[c].cSeq = m.cSeq
    <3>1. node[c] \in Numbers /\ m.cSeq \in Nat /\ node[c].sSeq \in Nat
      BY <1>1, TunnelTypes DEF TypeOK, Packets
    <3>2. CASE node' = [node EXCEPT ![c].cSeq = m.cSeq] /\ srv' = srv
      <4>1. node' = [node EXCEPT ![c] = [cSeq |-> m.cSeq, sSeq |-> node[c].sSeq]]
        BY <1>1, <3>1, <3>2, NumbersExcept DEF TypeOK
      <4>2. [cSeq |-> m.cSeq, sSeq |-> node[c].sSeq] # NoNode
        BY <3>1, NoNodeAssumption
      <4>3. QED
        BY <1>1, <3>2, <4>1, <4>2 DEF TypeOK
    <3>3. CASE /\ node' = [node EXCEPT ![c] = [cSeq |-> m.cSeq, sSeq |-> NextAnswer(c)]]
               /\ srv' = [at |-> "reply", t |-> c, cSeq |-> 0, sSeq |-> 0]
      <4>1. [cSeq |-> m.cSeq, sSeq |-> NextAnswer(c)] # NoNode
        BY <3>1, NoNodeAssumption DEF NextAnswer
      <4>2. QED
        BY <1>1, <3>3, <4>1 DEF TypeOK
    <3>4. QED
      BY <1>2, <1>4, <3>2, <3>3 DEF Receive, Busy
  <2>3. QED
    BY <1>1, <1>2, <2>1, <2>2, TakeMoves
<1>5. QED
  BY <1>3, <1>4

LEMMA HostDataMoves ==
    ASSUME IInv, IInv', NEW c \in Tunnels, HostData(c), NEW t \in Tunnels
    PROVE  UpMove(t) /\ DownMove(t)
<1>1. TypeOK /\ TypeOK' /\ srv.at = "loop" /\ node[c] # NoNode
  BY DEF IInv, HostData
<1>2. /\ srv'.at = "traffic" /\ srv'.t = c /\ UNCHANGED <<client, backlog, cut, c2s, s2c>>
      /\ node' = [node EXCEPT ![c].sSeq = NextAnswer(c)]
  BY DEF HostData, Busy
<1>3. DownMove(t)
  BY <1>1, <1>2, DownStays
<1>4. CASE t # c
  <2>1. node'[t] = node[t]
    BY <1>1, <1>2, <1>4 DEF TypeOK
  <2>2. QED
    BY <1>1, <1>2, <1>3, <1>4, <2>1, UpElsewhere
<1>5. CASE t = c
  <2>1. node[c] \in Numbers /\ node[c].cSeq \in Nat /\ NextAnswer(c) \in Nat
    <3>1. node[c] \in Numbers /\ node[c].cSeq \in Nat /\ node[c].sSeq \in Nat
      BY <1>1, TunnelTypes DEF TypeOK
    <3>2. QED
      BY <3>1 DEF NextAnswer
  <2>2. node'[c] = [cSeq |-> node[c].cSeq, sSeq |-> NextAnswer(c)]
    BY <1>1, <1>2, <2>1, NumbersExcept DEF TypeOK
  <2>3. node'[c] # NoNode /\ node'[c].cSeq = node[c].cSeq
    BY <2>1, <2>2, NoNodeAssumption
  <2>4. UpEnd(c) = "open" /\ UpEnd(c)' = "open" /\ UpGot(c)' = UpGot(c)
    BY <1>1, <2>3 DEF UpEnd, UpGot
  <2>5. UpMove(c)
    BY <1>1, <1>2, <2>4, UpQuiet
  <2>6. QED
    BY <1>3, <1>5, <2>5
<1>6. QED
  BY <1>4, <1>5

\* An answer is sent, unless the client has closed the tunnel.
LEMMA EndAnswerMoves ==
    ASSUME IInv, IInv', NEW c \in Tunnels, EndAnswer(c), NEW t \in Tunnels
    PROVE  UpMove(t) /\ DownMove(t)
<1>1. /\ TypeOK /\ TypeOK' /\ LifeInv(c) /\ srv.at \in {"reply", "traffic"} /\ srv.t = c
      /\ Answering(c) = 1
  BY DEF IInv, EndAnswer, Answering
<1>2. node[c] # NoNode
  BY <1>1 DEF LifeInv, AnswerInv
<1>3. /\ s2c' = Put(s2c, c, Packet("message", node[c].cSeq, node[c].sSeq))
      /\ srv' = Idle /\ srv'.at = "loop" /\ UNCHANGED <<client, node, backlog, cut, c2s>>
  BY IdleType DEF EndAnswer
<1>4. UpMove(t)
  <2>1. CASE t # c
    BY <1>1, <1>3, <2>1, UpElsewhere
  <2>2. CASE t = c
    <3>1. UpEnd(c)' = UpEnd(c) /\ UpGot(c)' = UpGot(c)
      BY <1>2, <1>3 DEF UpEnd, UpGot
    <3>2. QED
      BY <1>1, <1>3, <2>2, <3>1, UpQuiet
  <2>3. QED
    BY <2>1, <2>2
<1>5. DownEnd(t)' = DownEnd(t) /\ DownGot(t)' = DownGot(t) /\ (s2c'[t] = s2c[t] => DownMove(t))
  BY <1>1, <1>3, DownStays
<1>6. CASE t # c \/ cut[t]
  BY <1>1, <1>3, <1>4, <1>5, <1>6 DEF Put, TypeOK
<1>7. CASE t = c /\ ~cut[t]
  <2>1. PICK m \in Packets :
          m = Packet("message", node[c].cSeq, node[c].sSeq) /\ m.sSeq = node[c].sSeq
    <3>1. Packet("message", node[c].cSeq, node[c].sSeq) \in Packets
      BY <1>1, <1>2, TunnelTypes, PacketType
    <3>2. QED
      BY <3>1 DEF Packet
  <2>2. InSession(c) /\ ~Greeting(c) /\ Begun(c)
    BY <1>1, <1>2, <1>7 DEF LifeInv, HelloInv, FreshInv, CutInv
  <2>3. DownEnd(c) = "open" /\ DownGot(c) = ctx[c[1]].sSeq
    BY <2>2 DEF DownEnd, DownGot
  <2>4. /\ FromTheServer(s2c[c], ctx[c[1]].sSeq)
        /\ node[c].sSeq = ctx[c[1]].sSeq + Len(s2c[c]) + 1
    BY <1>1, <1>2, <1>7, <2>2 DEF LifeInv, InStep, Complete
  <2>5. s2c[c] \in Seq(Packets) /\ s2c'[c] = Append(s2c[c], m) /\ ctx[c[1]].sSeq \in Nat
    BY <1>1, <1>3, <1>7, <2>1, TunnelTypes DEF Put, TypeOK
  <2>6. /\ DownGot(c) \in Nat /\ m.sSeq = DownGot(c) + Len(s2c[c]) + 1
        /\ \A i \in 1 .. Len(s2c[c]) : s2c[c][i].sSeq = DownGot(c) + i
    BY <2>1, <2>3, <2>4, <2>5 DEF FromTheServer
  <2>7. DownMove(c)
    BY <1>3, <1>5, <1>7, <2>1, <2>3, <2>5, <2>6, DownSends
  <2>8. QED
    BY <1>4, <1>7, <2>7
<1>8. QED
  BY <1>6, <1>7

\* The death of launch_server ends every channel to it.
LEMMA TrafficFailsMoves ==
    ASSUME IInv, IInv', NEW c \in Tunnels, TrafficFails(c), NEW t \in Tunnels
    PROVE  UpMove(t) /\ DownMove(t)
<1>1. TypeOK /\ TypeOK' /\ LifeInv(t)
  BY DEF IInv
<1>2. /\ srv'.at = "crashed" /\ node'[t] = NoNode /\ backlog' = {} /\ cut'[t] /\ c2s'[t] = <<>>
      /\ UNCHANGED <<client, s2c>>
  BY DEF TrafficFails, Idle
<1>3. DownMove(t)
  BY <1>1, <1>2, DownStays
<1>4. ~Unread(t)' /\ ~AtServer(t, "third")' /\ (Begun(t)' <=> Begun(t))
  BY <1>2 DEF Unread, AtServer, Begun, client
<1>5. CASE Begun(t)
  <2>1. UpEnd(t)' = "over"
    BY <1>2, <1>4, <1>5 DEF UpEnd
  <2>2. QED
    BY <1>2, <1>3, <2>1, UpEnds
<1>6. CASE ~Begun(t)
  <2>1. node[t] = NoNode /\ ~AtServer(t, "third") /\ c2s[t] = <<>>
    BY <1>1, <1>6 DEF LifeInv, FreshInv
  <2>2. UpEnd(t) = "new" /\ UpEnd(t)' = "new" /\ UpGot(t) = 0 /\ UpGot(t)' = 0
    BY <1>2, <1>4, <1>6, <2>1 DEF UpEnd, UpGot
  <2>3. UpMove(t)
    BY <1>1, <1>2, <2>1, <2>2, UpQuiet
  <2>4. QED
    BY <1>3, <2>3
<1>7. QED
  BY <1>5, <1>6

LEMMA ServerMoves ==
    ASSUME IInv, IInv', NEW c \in Tunnels, ServerStep(c), NEW t \in Tunnels
    PROVE  UpMove(t) /\ DownMove(t)
<1>1. CASE Accept(c)
  BY <1>1, AcceptMoves
<1>2. CASE SendSecond(c)
  BY <1>2, SendSecondMoves
<1>3. CASE Register(c)
  BY <1>3, RegisterMoves
<1>4. CASE HandshakeFails(c) \/ Eof(c) \/ ReplyFails(c) \/ Expire(c)
  BY <1>4, DropMoves DEF HandshakeFails, Eof, ReplyFails, Expire, AtServer
<1>5. CASE Receive(c)
  BY <1>5, ReceiveMoves
<1>6. CASE HostData(c)
  BY <1>6, HostDataMoves
<1>7. CASE EndAnswer(c)
  BY <1>7, EndAnswerMoves
<1>8. CASE TrafficFails(c)
  BY <1>8, TrafficFailsMoves
<1>9. QED
  BY <1>1, <1>2, <1>3, <1>4, <1>5, <1>6, <1>7, <1>8 DEF ServerStep, ServerShake, Serve,
     AnswerReturns

-----------------------------------------------------------------------------
(* The network, and the theorem.                                           *)

LEMMA NetworkMoves ==
    ASSUME IInv, IInv', NEW c \in Tunnels, Break(c) \/ Lose(c), NEW t \in Tunnels
    PROVE  UpMove(t) /\ DownMove(t)
<1>1. TypeOK /\ TypeOK' /\ UNCHANGED <<client, server, backlog>>
  BY DEF IInv, Break, Lose
<1>2. /\ UpEnd(t)' = UpEnd(t) /\ UpGot(t)' = UpGot(t) /\ DownEnd(t)' = DownEnd(t) /\ DownGot(t)' = DownGot(t)
      /\ c2s'[t] = c2s[t] /\ (cut[t] => cut'[t]) => UpMove(t)
      /\ s2c'[t] = s2c[t] /\ (cut[t] => cut'[t]) => DownMove(t)
  <2>1. UNCHANGED n
    BY <1>1 DEF client
  <2>2. QED
    BY <1>1, <2>1, UpStays, DownStays
<1>3. CASE Break(c)
  <2>1. c2s' = c2s /\ s2c' = s2c /\ (cut[t] => cut'[t])
    BY <1>1, <1>3 DEF Break, Cut, TypeOK
  <2>2. QED
    BY <1>2, <2>1
<1>4. CASE cut[c] /\ c2s[c] # <<>> /\ c2s' = [c2s EXCEPT ![c] = SubSeq(@, 1, Len(@) - 1)] /\ UNCHANGED <<cut, s2c>>
  <2>1. CASE t # c
    <3>1. c2s'[t] = c2s[t]
      BY <1>1, <1>4, <2>1 DEF TypeOK
    <3>2. QED
      BY <1>2, <1>4, <3>1
  <2>2. CASE t = c
    <3>1. c2s'[t] = SubSeq(c2s[t], 1, Len(c2s[t]) - 1)
      BY <1>1, <1>4, <2>2 DEF TypeOK
    <3>2. UpMove(t)
      BY <1>1, <1>2, <1>4, <2>2, <3>1, UpLoses
    <3>3. QED
      BY <1>2, <1>4, <3>2
  <2>3. QED
    BY <2>1, <2>2
<1>5. CASE cut[c] /\ s2c[c] # <<>> /\ s2c' = [s2c EXCEPT ![c] = SubSeq(@, 1, Len(@) - 1)] /\ UNCHANGED <<cut, c2s>>
  <2>1. CASE t # c
    <3>1. s2c'[t] = s2c[t]
      BY <1>1, <1>5, <2>1 DEF TypeOK
    <3>2. QED
      BY <1>2, <1>5, <3>1
  <2>2. CASE t = c
    <3>1. s2c'[t] = SubSeq(s2c[t], 1, Len(s2c[t]) - 1)
      BY <1>1, <1>5, <2>2 DEF TypeOK
    <3>2. DownMove(t)
      BY <1>1, <1>2, <1>5, <2>2, <3>1, DownLoses
    <3>3. QED
      BY <1>2, <1>5, <3>2
  <2>3. QED
    BY <2>1, <2>2
<1>6. QED
  BY <1>3, <1>4, <1>5 DEF Lose

LEMMA NextMoves ==
    ASSUME IInv, IInv', Next, NEW t \in Tunnels
    PROVE  UpMove(t) /\ DownMove(t)
BY ClientMoves, ServerMoves, NetworkMoves DEF Next

LEMMA InitNew == Init => Up!Init /\ Down!Init
<1>1. SUFFICES ASSUME Init  PROVE Up!Init /\ Down!Init
  OBVIOUS
<1>2. ASSUME NEW t \in Tunnels
      PROVE  /\ UpWay(t) = <<>> /\ UpEnd(t) = "new" /\ UpGot(t) = 0
             /\ DownWay(t) = <<>> /\ DownEnd(t) = "new" /\ DownGot(t) = 0
  <2>1. node[t] = NoNode /\ c2s[t] = <<>> /\ s2c[t] = <<>> /\ srv.at = "loop"
    BY <1>1 DEF Init, Idle
  <2>2. ~Begun(t) /\ ~AtServer(t, "third")
    BY <1>1, <2>1, TunnelShape DEF Init, Begun, AtServer
  <2>3. UpEnd(t) = "new" /\ DownEnd(t) = "new"
    BY <2>1, <2>2 DEF UpEnd, DownEnd
  <2>4. QED
    BY <2>1, <2>2, <2>3, NumbersOfNone DEF UpGot, UpWay, DownGot, DownWay
<1>3. cut = [t \in Tunnels |-> FALSE]
  BY <1>1 DEF Init
<1>4. QED
  BY <1>2, <1>3 DEF Up!Init, Down!Init

\* In both directions every tunnel does what Channel promises, for any number of clients
\* and tunnels: what recvData and recvMessage accept are the numbers sent, each once, in
\* their order and without a gap, until the tunnel is cut.
THEOREM EveryTunnelDelivers == Spec => TunnelsDeliver
<1>1. IInv /\ IInv' /\ [Next]_vars => [Up!Next]_(Up!vars)
  <2>1. ASSUME IInv, IInv', Next  PROVE Up!Next
    BY <2>1, NextMoves DEF UpMove, Up!Next
  <2>2. ASSUME UNCHANGED vars  PROVE UNCHANGED Up!vars
    BY <2>2 DEF vars, client, server, Up!vars, UpWay, UpEnd, UpGot, Unread, AtServer, Begun
  <2>3. QED
    BY <2>1, <2>2
<1>2. IInv /\ IInv' /\ [Next]_vars => [Down!Next]_(Down!vars)
  <2>1. ASSUME IInv, IInv', Next  PROVE Down!Next
    BY <2>1, NextMoves DEF DownMove, Down!Next
  <2>2. ASSUME UNCHANGED vars  PROVE UNCHANGED Down!vars
    BY <2>2 DEF vars, client, server, Down!vars, DownWay, DownEnd, DownGot, Greeting, InSession,
       Begun, Cur
  <2>3. QED
    BY <2>1, <2>2
<1>3. QED
  BY <1>1, <1>2, InitNew, TunnelLives, PTL DEF Spec, TunnelsDeliver, Up!Spec, Down!Spec
=============================================================================
