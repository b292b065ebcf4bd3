------------------------------- MODULE Relay -------------------------------
(***************************************************************************)
(* The two programs together, in one session: a client with its users, a   *)
(* server with the hosts it connects them to, and the tunnel between.  All  *)
(* that tells one user's data from another's on the way is the localFd, the *)
(* number of the user's descriptor at the client; the client gives it to    *)
(* the next user as soon as this one is gone, and does not tell the server. *)
(*                                                                         *)
(* The loops are those of ServerLoop and ClientLoop, without the sockets'   *)
(* bookkeeping; the tunnel stands.  A user asks for one host, and so the    *)
(* host's connection has the user's name; a piece of data has the name of   *)
(* the connection it was read from and its place there.                     *)
(***************************************************************************)
EXTENDS Integers, SequencesExt

CONSTANTS
    User,       \* users that connect, each once, and the hosts they ask for
    LocalFd,    \* the descriptor numbers the client gives to them
    NoUser,     \* a number nobody has, a table without such a key
    NoFd,       \* no number: localFd in the reply to a refused request, or of no host
    Garbage,    \* bytes that no host has sent
    Capacity,   \* messages the tunnel takes in one direction
    MaxData     \* bound: pieces of data a user sends, and a host

\* One number per byte: the three bytes of a short reply leave the fourth open.
ASSUME LocalFdAssumption == LocalFd \subseteq 2 .. 255

ASSUME AbsentAssumption == NoUser \notin User /\ NoFd \notin LocalFd

ASSUME GarbageAssumption == Garbage \notin User \X Nat

ASSUME BoundAssumption == Capacity \in Nat \ {0} /\ MaxData \in Nat

VARIABLES
    user,       \* whose connection a descriptor of the client is
    localFdMap, \* localFd -> LocalFdWaiting, LocalFdPrepared or no such key
    fourth,     \* the localFd that byte 3 of readBuf would end
    c2s, s2c,   \* messages in the tunnel
    sMap,       \* the client's SocketMap: localFd -> host
    h2lMap,     \* host -> HostNode.localFd
    writeBuf,   \* host -> HostNode.writeBuf
    sent,       \* history: how many pieces were read from a user, and
    hostSent,   \* from a host
    got,        \* history: what was written to a user, and
    hostGot,    \* to a host
    number,     \* history: the localFd a user was given when it connected
    refused,    \* history: users whose request the server could not read
    reused      \* history: a localFd was given on while it was still in use

clientVars == <<user, localFdMap, fourth, got, number, reused>>
serverVars == <<sMap, h2lMap, writeBuf, hostSent, hostGot, refused>>
vars == <<clientVars, sent, c2s, s2c, serverVars>>

Request(l, u) == [type |-> "request", localFd |-> l, of |-> u]
Reply(l, u)   == [type |-> "reply", localFd |-> l, of |-> u]
Data(l, u, i) == [type |-> "data", localFd |-> l, of |-> u, data |-> <<u, i>>]
Short         == [type |-> "short", localFd |-> NoFd]

Room(queue) == Len(queue) < Capacity

\* The server has a host under the number l, or has yet to answer for it, or its
\* answer has not arrived.
InUse(l) ==
    \/ \E u \in User : h2lMap[u] = l
    \/ \E i \in 1 .. Len(c2s) : c2s[i].type = "request" /\ c2s[i].localFd = l
    \/ \E i \in 1 .. Len(s2c) : s2c[i].type = "reply" /\ s2c[i].localFd = l

-----------------------------------------------------------------------------
(* The client.                                                             *)

\* accept gives u the lowest number nobody has.
Accepted(u, l) ==
    /\ number[u] = NoFd
    /\ user[l] = NoUser
    /\ \A k \in LocalFd : user[k] = NoUser => l <= k
    /\ user' = [user EXCEPT ![l] = u]
    /\ number' = [number EXCEPT ![u] = l]
    /\ reused' = (reused \/ InUse(l))
    /\ UNCHANGED <<fourth, got, sent, s2c, serverVars>>

\* socksHandShake reads the request and sends it to the server.
AcceptUser(u, l) ==
    /\ Accepted(u, l)
    /\ Room(c2s)
    /\ c2s' = Append(c2s, Request(l, u))
    /\ localFdMap' = [localFdMap EXCEPT ![l] = "waiting"]

\* socksHandShake gives up, and the connection stays without a key.
AcceptHalf(u, l) ==
    /\ Accepted(u, l)
    /\ UNCHANGED <<c2s, localFdMap>>

\* Data of a user goes to the server, whatever the state of the user is.
UserData(l) ==
    LET u == user[l] IN
    /\ u # NoUser
    /\ sent[u] < MaxData
    /\ Room(c2s)
    /\ sent' = [sent EXCEPT ![u] = @ + 1]
    /\ c2s' = Append(c2s, Data(l, u, sent[u] + 1))
    /\ UNCHANGED <<clientVars, s2c, serverVars>>

\* The descriptor is closed and the key erased; the server is not told.
Forget(l) ==
    /\ user' = [user EXCEPT ![l] = NoUser]
    /\ localFdMap' = [localFdMap EXCEPT ![l] = "none"]

UserGone(l) ==
    /\ user[l] # NoUser
    /\ Forget(l)
    /\ UNCHANGED <<fourth, got, number, reused, sent, c2s, s2c, serverVars>>

Arrives(type) ==
    /\ s2c # <<>>
    /\ Head(s2c).type = type
    /\ s2c' = Tail(s2c)
    /\ UNCHANGED <<number, reused, sent, c2s, serverVars>>

\* A reply makes the user who waits under its number a prepared one; byte 3 of
\* readBuf is then one of the reply's, which is no user's number.
ReplyArrives ==
    /\ Arrives("reply")
    /\ LET l == Head(s2c).localFd IN
       localFdMap' = [k \in LocalFd |->
                         IF k = l /\ localFdMap[k] = "waiting" THEN "prepared" ELSE localFdMap[k]]
    /\ fourth' = NoFd
    /\ UNCHANGED <<user, got>>

\* A slip: the state of the user is not looked at.
HasKey(l) == localFdMap[l] # "none"

\* The number is in localFdMap, with the state data has to find.
Prepared(l) == localFdMap[l] = "prepared"

Write(l, data) == got' = [got EXCEPT ![user[l]] = Append(@, data)]

\* Data is written to the user who has its number.
DataArrives ==
    /\ Arrives("data")
    /\ LET m == Head(s2c) IN
       /\ fourth' = m.localFd
       /\ IF Prepared(m.localFd)
          THEN \/ Write(m.localFd, m.data) /\ UNCHANGED <<user, localFdMap>>
               \/ Forget(m.localFd) /\ UNCHANGED got
          ELSE UNCHANGED <<user, localFdMap, got>>

\* Three bytes arrive: the fourth of the localFd is what readBuf had there, and the
\* size of what is written, 3 - 4, the largest there is.  The write takes what it
\* finds behind the buffer until it fails.
ShortArrives ==
    /\ Arrives("short")
    /\ IF fourth # NoFd /\ Prepared(fourth)
       THEN (Write(fourth, Garbage) \/ UNCHANGED got) /\ Forget(fourth)
       ELSE UNCHANGED <<user, localFdMap, got>>
    /\ UNCHANGED fourth

-----------------------------------------------------------------------------
(* The server.                                                             *)

Read(type) ==
    /\ c2s # <<>>
    /\ Head(c2s).type = type
    /\ c2s' = Tail(c2s)
    /\ UNCHANGED <<clientVars, sent, hostSent, hostGot>>

Send(m) == Room(s2c) /\ s2c' = Append(s2c, m)

\* A request that does not parse, or is not CONNECT: the reply names no localFd.
Refuse ==
    /\ Read("request")
    /\ LET m == Head(c2s) IN
       /\ Send(Reply(NoFd, m.of))
       /\ refused' = refused \cup {m.of}
    /\ UNCHANGED <<sMap, h2lMap, writeBuf>>

\* A slip: the reply does not name the user.
FailsUnnamed ==
    /\ Read("request")
    /\ Send(Reply(NoFd, Head(c2s).of))
    /\ UNCHANGED <<sMap, h2lMap, writeBuf, refused>>

\* The reply has another code than a success; what the number named before stays.
ConnectFails ==
    /\ Read("request")
    /\ Send(Reply(Head(c2s).localFd, Head(c2s).of))
    /\ UNCHANGED <<sMap, h2lMap, writeBuf, refused>>

\* The entry of the number is replaced if there is one.
Connect ==
    /\ Read("request")
    /\ LET m == Head(c2s) IN
       /\ sMap' = [sMap EXCEPT ![m.localFd] = m.of]
       /\ h2lMap' = [h2lMap EXCEPT ![m.of] = m.localFd]
       /\ Send(Reply(m.localFd, m.of))
    /\ UNCHANGED <<writeBuf, refused>>

\* Data for the host that has the number, if there is one.
Upload ==
    /\ Read("data")
    /\ LET m == Head(c2s)
           h == sMap[m.localFd]
       IN  writeBuf' = IF h = NoUser THEN writeBuf
                       ELSE [writeBuf EXCEPT ![h] = Append(@, m.data)]
    /\ UNCHANGED <<s2c, sMap, h2lMap, refused>>

Connected(h) == h2lMap[h] # NoFd

\* A slip: the entry of the number stays.
EraseHost(h) ==
    /\ h2lMap' = [h2lMap EXCEPT ![h] = NoFd]
    /\ writeBuf' = [writeBuf EXCEPT ![h] = <<>>]
    /\ UNCHANGED sMap

\* h2lMap.erase, and sMap.erase of its number, whatever host that names by now.
Erase(h) ==
    /\ h2lMap' = [h2lMap EXCEPT ![h] = NoFd]
    /\ writeBuf' = [writeBuf EXCEPT ![h] = <<>>]
    /\ sMap' = [sMap EXCEPT ![h2lMap[h]] = NoUser]

HostData(h) ==
    /\ Connected(h)
    /\ hostSent[h] < MaxData
    /\ Send(Data(h2lMap[h], h, hostSent[h] + 1))
    /\ hostSent' = [hostSent EXCEPT ![h] = @ + 1]
    /\ UNCHANGED <<clientVars, sent, c2s, sMap, h2lMap, writeBuf, hostGot, refused>>

\* EAGAIN: three bytes are sent for the data that is not there.
HostAgain(h) ==
    /\ Connected(h)
    /\ Send(Short)
    /\ UNCHANGED <<clientVars, sent, c2s, serverVars>>

\* Another error of recv: three bytes are sent, and the host is closed.
HostFails(h) ==
    /\ Connected(h)
    /\ Send(Short)
    /\ Erase(h)
    /\ UNCHANGED <<clientVars, sent, c2s, hostSent, hostGot, refused>>

\* The host has closed, cannot be written to, or was idle too long; nothing is
\* sent to the client.
HostCloses(h) ==
    /\ Connected(h)
    /\ Erase(h)
    /\ UNCHANGED <<clientVars, sent, c2s, s2c, hostSent, hostGot, refused>>

Flush(h) ==
    /\ Connected(h)
    /\ writeBuf[h] # <<>>
    /\ hostGot' = [hostGot EXCEPT ![h] = Append(@, Head(writeBuf[h]))]
    /\ writeBuf' = [writeBuf EXCEPT ![h] = Tail(@)]
    /\ UNCHANGED <<clientVars, sent, c2s, s2c, sMap, h2lMap, hostSent, refused>>

-----------------------------------------------------------------------------
Init ==
    /\ user = [l \in LocalFd |-> NoUser]
    /\ localFdMap = [l \in LocalFd |-> "none"]
    /\ fourth = NoFd
    /\ c2s = <<>>
    /\ s2c = <<>>
    /\ sMap = [l \in LocalFd |-> NoUser]
    /\ h2lMap = [h \in User |-> NoFd]
    /\ writeBuf = [h \in User |-> <<>>]
    /\ sent = [u \in User |-> 0]
    /\ hostSent = [h \in User |-> 0]
    /\ got = [u \in User |-> <<>>]
    /\ hostGot = [h \in User |-> <<>>]
    /\ number = [u \in User |-> NoFd]
    /\ refused = {}
    /\ reused = FALSE

ClientStep ==
    \/ \E l \in LocalFd : (\E u \in User : AcceptUser(u, l) \/ AcceptHalf(u, l))
                             \/ UserData(l) \/ UserGone(l)
    \/ ReplyArrives \/ DataArrives \/ ShortArrives

ServerStep ==
    \/ Refuse \/ ConnectFails \/ Connect \/ Upload
    \/ \E h \in User :
          HostData(h) \/ HostAgain(h) \/ HostFails(h) \/ HostCloses(h) \/ Flush(h)

Next == ClientStep \/ ServerStep

Spec == Init /\ [][Next]_vars

-----------------------------------------------------------------------------
(* Properties.                                                             *)

Item == User \X Nat

\* The first n pieces of u's connection, in order and without a gap.
Stream(u, n) == [i \in 1 .. n |-> <<u, i>>]

\* What arrived, but for the last thing before the connection was closed.
Clean(s) == IF s # <<>> /\ Last(s) = Garbage THEN Front(s) ELSE s

\* As long as no number is given on while the server has a host under it, or a
\* request or reply for it is on its way, a user gets what its own host has sent,
\* from the first piece on and in order; a short reply can end the stream with
\* garbage, and then the connection is closed.  (Data of an earlier user's
\* host that is still on its way does no harm: it finds the user waiting.)
UsersGetTheirHost ==
    ~reused => \A u \in User :
        /\ Clean(got[u]) = Stream(u, Len(Clean(got[u])))
        /\ got[u] # Clean(got[u]) => \A l \in LocalFd : user[l] # u

\* On the same condition a host gets what its own user has sent, in order and
\* without a gap.
HostsGetTheirUser ==
    ~reused => \A h \in User :
        LET all == hostGot[h] \o writeBuf[h] IN all = Stream(h, Len(all))

\* On the same condition a user who waits is owed an answer that is on its way, in a
\* request or a reply that names it, unless the server could not read its request
\* (the reply then names nobody, and the user waits for ever).
AnswersAreComing ==
    ~reused => \A l \in LocalFd : localFdMap[l] = "waiting" =>
        \/ user[l] \in refused
        \/ Contains(c2s, Request(l, user[l]))
        \/ Contains(s2c, Reply(l, user[l]))

-----------------------------------------------------------------------------
(* The invariant behind them.                                              *)

Requests == {Request(l, u) : l \in LocalFd, u \in User}
Replies  == {Reply(l, u) : l \in LocalFd \cup {NoFd}, u \in User}
Pieces   == {Data(l, u, i) : l \in LocalFd, u \in User, i \in 1 .. MaxData}

TypeOK ==
    /\ user \in [LocalFd -> User \cup {NoUser}]
    /\ localFdMap \in [LocalFd -> {"none", "waiting", "prepared"}]
    /\ fourth \in LocalFd \cup {NoFd}
    /\ c2s \in Seq(Requests \cup Pieces)
    /\ s2c \in Seq(Replies \cup Pieces \cup {Short})
    /\ sMap \in [LocalFd -> User \cup {NoUser}]
    /\ h2lMap \in [User -> LocalFd \cup {NoFd}]
    /\ writeBuf \in [User -> Seq(Item)]
    /\ sent \in [User -> Nat] /\ hostSent \in [User -> Nat]
    /\ got \in [User -> Seq(Item \cup {Garbage})]
    /\ hostGot \in [User -> Seq(Item)]
    /\ number \in [User -> LocalFd \cup {NoFd}]
    /\ refused \subseteq User
    /\ reused \in BOOLEAN

IsData(m, u) == m.type = "data" /\ m.of = u
Names(m, type, u) == m.type = type /\ m.of = u /\ m.localFd # NoFd

\* A message of this type that names u is in the queue.
Has(queue, type, u) == \E i \in 1 .. Len(queue) : Names(queue[i], type, u)

\* The pieces of u's connection in the queue are those from the k-th to the n-th, in order.
Numbered(queue, u, k, n) ==
    /\ k <= n + 1
    /\ \A i \in 1 .. Len(queue) : IsData(queue[i], u) => queue[i].data[2] \in k .. n
    /\ \A place \in k .. n : \E i \in 1 .. Len(queue) :
          IsData(queue[i], u) /\ queue[i].data[2] = place
    /\ \A i, j \in 1 .. Len(queue) :
          i < j /\ IsData(queue[i], u) /\ IsData(queue[j], u) =>
              queue[i].data[2] < queue[j].data[2]

\* Data in the queue from the i-th message on has l only if it is u's.
OnlyOf(queue, l, u, i) ==
    \A j \in i .. Len(queue) : queue[j].type = "data" /\ queue[j].localFd = l => queue[j].of = u

\* There is one message of this type that names u, u's data is behind it, and behind it
\* only u's data has the number l.
Leads(queue, type, l, u) ==
    \A i \in 1 .. Len(queue) : Names(queue[i], type, u) =>
        /\ \A j \in 1 .. Len(queue) : IsData(queue[j], u) => i < j
        /\ \A j \in 1 .. Len(queue) : Names(queue[j], type, u) => i = j
        /\ OnlyOf(queue, l, u, i)

\* What is still of use under u's number: its connection, its request, the host's
\* entry, the reply.
Holds(u) == \E l \in LocalFd : user[l] = u
Asked(u) == Has(c2s, "request", u)
Served(u) == h2lMap[u] # NoFd
Answered(u) == Has(s2c, "reply", u)
Claims(u) == Holds(u) \/ Asked(u) \/ Served(u) \/ Answered(u)

\* Every connection, every message and every entry has the number the user was given.
UserNumbers ==
    \A l \in LocalFd : /\ user[l] # NoUser => number[user[l]] = l
                       /\ localFdMap[l] # "none" => user[l] # NoUser

RightNumber(m) == m.type # "short" /\ m.localFd # NoFd => m.localFd = number[m.of]

MessageNumbers ==
    /\ \A i \in 1 .. Len(c2s) : RightNumber(c2s[i])
    /\ \A i \in 1 .. Len(s2c) : RightNumber(s2c[i])

HostNumbers ==
    /\ \A h \in User : Served(h) => h2lMap[h] = number[h] /\ sMap[number[h]] = h
    /\ \A l \in LocalFd : sMap[l] # NoUser => h2lMap[sMap[l]] = l

\* No two users have a claim to one number.
OneClaim == \A u, w \in User : Claims(u) /\ Claims(w) /\ number[u] = number[w] => u = w

NumberInv == UserNumbers /\ MessageNumbers /\ HostNumbers /\ OneClaim

\* Nothing has happened for a user that has not connected.
FreshInv(u) ==
    number[u] = NoFd =>
        sent[u] = 0 /\ hostSent[u] = 0 /\ got[u] = <<>> /\ hostGot[u] = <<>> /\ writeBuf[u] = <<>>

\* What a host was given, or is to be.
Given(u) == hostGot[u] \o writeBuf[u]

\* Until the server has read the request nothing has come of it, and nothing of the
\* user's data has overtaken it.
AskedInv(u) ==
    Asked(u) =>
        /\ ~Served(u) /\ ~Answered(u)
        /\ Leads(c2s, "request", number[u], u)
        /\ Numbered(c2s, u, 1, sent[u])
        /\ Given(u) = <<>>
        /\ Numbered(s2c, u, 1, hostSent[u]) /\ hostSent[u] = 0

\* Data under the number of a host that is connected is its user's, and goes on where
\* the host's buffer ends.
ServedInv(u) ==
    Served(u) =>
        /\ OnlyOf(c2s, number[u], u, 1)
        /\ Numbered(c2s, u, Len(Given(u)) + 1, sent[u])

\* Until the client has read the reply none of the host's data has overtaken it.
AnsweredInv(u) ==
    Answered(u) =>
        /\ Leads(s2c, "reply", number[u], u)
        /\ Numbered(s2c, u, 1, hostSent[u])

\* A user who has no reply yet.
WaitingInv(l) ==
    user[l] # NoUser /\ localFdMap[l] # "prepared" =>
        /\ got[user[l]] = <<>>
        /\ localFdMap[l] = "waiting" =>
              user[l] \in refused \/ Asked(user[l]) \/ Answered(user[l])

\* A user whose host can write to it.
PreparedInv(l) ==
    localFdMap[l] = "prepared" =>
        /\ OnlyOf(s2c, l, user[l], 1)
        /\ Numbered(s2c, user[l], Len(got[user[l]]) + 1, hostSent[user[l]])

\* What was written to a user; after garbage it is closed.
GotInv(u) ==
    \/ got[u] = Stream(u, Len(got[u]))
    \/ /\ ~Holds(u)
       /\ got[u] # <<>> /\ got[u] = Append(Stream(u, Len(got[u]) - 1), Garbage)

GivenInv(u) == Given(u) = Stream(u, Len(Given(u)))

UserInv(u) ==
    /\ FreshInv(u) /\ AskedInv(u) /\ ServedInv(u) /\ AnsweredInv(u) /\ GotInv(u) /\ GivenInv(u)

FdInv(l) == WaitingInv(l) /\ PreparedInv(l)

\* What holds as long as no number is given on while it is in use.
KeptApart ==
    /\ NumberInv
    /\ \A u \in User : UserInv(u)
    /\ \A l \in LocalFd : FdInv(l)

IInv == TypeOK /\ (~reused => KeptApart)
=============================================================================
