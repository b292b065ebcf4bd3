# TSProxy in TLA+

TSProxy is a pair of programs: a SOCKS5 proxy *client* that local users connect
to, and a *server* that connects to the hosts they ask for. Between the two there
is one encrypted TCP connection per session of the client, the *tunnel*, through
which all users' data goes, each message with the descriptor number of its user
at the client (the *localFd*). This directory specifies both programs' event
loops, the tunnel's protocol and the sizes and padding of its packets, checks
them with TLC on small instances and proves their invariants with TLAPS.

## The system

| part | source | state | operations |
|---|---|---|---|
| server loop | `proxyserver.cpp` | `clientMap` (a `ClientNode` with a `SocketMap` per client), `h2lMap` (a `HostNode` per host), `master_set`, `write_src_set`, three maxima, the two working sets, `end_server` | accept and handshake, a packet of a client (connect a host, queue data), data or end of a host, a host writable, cleaning of what is idle, the end |
| client loop | `proxyclient.cpp` | `localFdMap` (waiting, prepared), `master_set`, `max_sd`, `working_set`, the listening socket | connect and handshake, listen, accept a user and its SOCKS handshake, a packet of the server, a user's data or end, return and start again |
| tunnel protocol | both, `SocketPlugin.cpp` | `ClientContext`, `ClientNode.cSeq/sSeq`, TCP's queues | three packets of handshake, `sendMessage`/`recvData`, `sendData`/`recvMessage` |
| packets | `utils.cpp`, `utils.h` | static buffers | `sendTSPacket`, `recvTSPacket`, (dis)assembling |
| padding, cipher | `aes.cpp` | none | `encrypt`, `decrypt`, AES in counter mode with a GHASH mac |
| sockets | `utils.cpp`, `SocketPlugin.cpp` | `m_sockfd` | `make_socket`, `tryConnectSocket`, `readNBytes`, `writeNBytes` |

Each program is one thread around `select`. The two share nothing but the tunnel,
and each shares descriptor numbers with its own kernel: a closed number is the
next to be given out. What is hard about the code follows from that:

* a pass of the loop goes on with the bits of the last `select` while its handlers
  close and open descriptors, which may reuse the numbers of those bits;
* the same connection is in two tables, two sets and three maxima, written by
  handlers that each clean up by hand;
* the client reuses localFds without telling the server that the user is gone;
* sequence numbers are taken before a send is known to succeed, a session of the
  client ends and the next begins while the server still has the old one;
* `readNBytes` and `writeNBytes` hold up the whole program.

## The modules

| module | models | properties, beyond its types |
|---|---|---|
| `FdSets` | the walk of a maximum down to the next bit | lemmas only |
| `ServerLoop` | `launch_server` and all it calls | tables in step, no leak, maxima, isolation of tunnels, clean end |
| `ClientLoop` | `launch_client`, `startListen`, `socksHandShake`, `readAndHandleFromServer` | users' states, no leak, maximum |
| `Tunnel` | handshakes, numbers, blocking calls, several clients, cuts and crashes | numbers never disagree, what returns |
| `Channel` | what a tunnel promises in one direction (abstract) | implemented by `Tunnel`, both ways |
| `Relay` | the client, the server and the tunnel in one session, with users and hosts | users get their own host's data, hosts their own user's, no answer is forgotten |
| `Packet`, `Blocks` | sizes of a message and of its forms | every message passes every size check |
| `Padding`, `Blocks` | `encrypt`'s padding, `decrypt`'s scan | round trip, scan in bounds, it ends |
| `SelectTimer` | the server's `timeout` | a claim of the code that fails |

`MC*.tla` give the constants that are not literals; `*Proofs.tla` hold the theorems.

**ServerLoop.** A table is a function over the descriptor numbers with a value for
"no such key". The program counter has the places where the thread can be when
something else matters: in `select`, in the scan, in the accept loop, in `sendData`
(`out` is the message), in the clean-up at the end. One action is one turn of the
scan: the branch of a descriptor with everything it calls up to the next of these
places. `sendData` is a place of its own because what it returns decides how the
caller cleans up. `EraseFromFdSets` and `EraseFromTables` are the functions
`eraseHostFromFdSets`, `eraseClientFromFdSet` and the `erase`s around them; `CloseHost`
and `DropClient` the two clean-ups. `CleanDeadClients`, then `cleanDeadHosts` are
the action `Clean` at the end of each pass. A `select` that times out is an action that
changes nothing (`SelectTimesOut`): its `continue` skips the clean-ups. Following a null
`ClientNode` is a step to `noclient` (the client of a host is gone) or `badindex`
(`clientMap[i]` with a host's number): the process dies, its tables are gone and all its
sockets are closed (`Dies`). Ages are the seconds since `lastTime`;
they stop one past their timeout, where all comparisons stay as they are. `reused`
and `fresh` are history variables: they are written and only properties read them.

**ClientLoop.** As the server's loop, with `launch_client` around it: a session
returns with its sockets open (`kept`), and a later one cannot bind. An action of
the tunnel is what `readAndHandleFromServer` makes of any packet.

**Tunnel.** A tunnel is two queues of packets that keep their order and have room for
`Capacity` packets; a send waits for room. A tunnel may be cut at any time, by either
end or by the network; then what is on its way may be lost from the end of each queue
and a waiting call fails. The number is taken when the send begins. A process may be
killed at any time, and the server dies where `TrafficFails` says so. The server's
thread is at one tunnel at a time, so `srv` has its place and the locals of
`serverHandShake`; a client's place is `at[p]`. A client's users are not modelled but for
holding it up, since its sockets block: in `user` it waits for a new one to speak
(`socksHandShake`), in `held` for one to read what `FromServer` writes to it, or for one
whom only a stale bit calls ready (`ReadSilentUser`, the finding of ClientReady).

**Channel.** A sender, a queue and a receiver without any check: packets are numbered on
by one, whatever is first is received, and only a channel that is cut loses any, the
last first. `Tunnel` implements it once for each direction. To the server, the receiver's
number is the `cSeq` of `clientHello` while `serverHandShake` waits for the third packet
and the one in `clientMap` afterwards; to the client it is `ClientContext.sSeq`, once the
second packet has come. The receiver is `new` until then, and `over` when its end has let
go of the tunnel; what still lies in the queue of an end that is over is forgotten. In
`Tunnel` both ends compare types and numbers and turn down what does not fit: that
`Channel` has no such step is the statement that they never have to. When a number is
taken but not sent, the tunnel is cut, so there is no gap.

**Relay.** The two loops composed, for what only their composition can show: who gets
whose data. Both keep the guards and the tables that decide it (`localFdMap`,
`SocketMap`, `h2lMap`, `writeBuf`) and leave out descriptor sets, packets' numbers
and the clock, which the other modules have; the tunnel is two queues that stand. A
piece of data carries the connection it was read from and its place there, and
`got`, `hostGot` are what came out. `fourth` is the byte a three-byte traffic reply
leaves to chance: `readBuf` is static, and so it is the last byte of the localFd
before it. A localFd can be given on while the server has a host under it, or a
request or reply for it is on its way (`reused`); then one user may well get
another's data, and the properties are about all behaviours before that. `number` is
the localFd a user was given, also when it is gone: a history variable, for the
invariant.

**Packet, Padding.** One message through all functions that look at its size, with the
real constants; and the bytes of a plaintext through padding and scan, with any
block size.

## What is checked

All runs are exhaustive for their constants.

| run | bounds | shows |
|---|---|---|
| Still | four descriptors, one localFd, no clock | `TypeOK`, `ForwardConsistent`, `DescriptorsAccounted`, `MaxCovers`, `OnlyReadyClientsAreRead`, `EverythingClosed`, `TunnelsIsolated` |
| Timed | three descriptors, two localFds, timeouts 0 and 1 | `IInv` (what the proofs use), `TablesAgree`, `ClientFound`, `TunnelsIsolated` with idle clients and hosts |
| Live | three descriptors, one localFd | `ExpiredHostsAreCut`, `AcceptFailureEnds` |
| Send | three descriptors, no clock | `FailedSendClosesOneClient` fails |
| Padding | plaintexts up to 7 bytes over 3 values, blocks of 4 | `ScanStaysInPadding`, `RoundTrip`, `Returns` |
| Packet | all sizes, real constants | `EveryMessageArrives`, `LengthIsTrue` |
| ClientLoop | the listening socket and three users or leftovers | `KeysAreWatched`, `SocketsAccounted`, `MaxCovers`, `StatusSteps` |
| ClientReady | the same | `ReadyUsersOnly` fails |
| Tunnel | two processes, a second tunnel for one of them, one packet of room, two messages and one answer for that one | `IInv` (what the proofs use), `NumbersInStep`, `NothingMissing`, `TunnelsDeliver` (the refinement) |
| TunnelLive | two processes, a tunnel each, one packet of room, two messages each way for one of them | `AnswersEnd`, `HandshakesEnd`, `MessagesEnd` |
| Relay | two users with a host each, two localFds, two messages of room, two pieces of data each way | `IInv` (what the proofs use), `UsersGetTheirHost`, `HostsGetTheirUser`, `AnswersAreComing` |
| SelectTimer | the real 180 seconds | `WaitsThreeMinutes` fails |

The bounds: with four descriptors there are two clients with a host each, a client
with three hosts, or four clients, so that numbers are reused between clients and
hosts and between tunnels; two localFds tell a wrong localFd from a wrong client; the
timeouts differ, so that a client can expire before its host and the other way
round. For the clients three users are one closed, one accepted under its
number and one that is neither. In a tunnel with room for one packet two
messages are a full buffer and a send that waits (for answers that is in `TunnelLive`); the process with a second tunnel
opens it while the server may still have the first, and the other process is one the
server may be busy with in the meantime. First numbers are one value for each end,
different ones, so that a number taken from the wrong end is seen; in the
code first numbers have 63 bits and the counters 64, so that no session wraps one. In `Relay` two
users are both side by side under two numbers and one after the other under one, and
two pieces of data each way tell a gap from an end. Plaintexts of seven bytes
in blocks of four reach every position of the mark in a block and one size
that no longer fits. Symmetry is used in the runs without liveness properties, of
localFds only: descriptors are ordered.

### What the failing runs show

* **Send** — when host data cannot be sent to a client, the host branch logs "Close
  client: %d" with the client's number (`proxyserver.cpp:823`) and then looks `clientMap`
  up under `i`, the host's number (line 824). There is no such client; the null pointer is
  dereferenced and the process dies, with the tunnels of all the other clients.
  `TunnelsIsolated` says that this and the null `ClientNode` after a localFd opened twice
  are the only ways in which one client's trouble becomes another's.
* **ClientReady** — a user's branch logs "Fd %d is ready" of a user accepted after the
  `select`: the data of a packet could not be written, the user's number was closed and
  given to the next user in the same pass. The `recv` is on a blocking socket.
* **SelectTimer** — "wait 3 minutes for it to complete" (`proxyserver.cpp:555`) holds for
  the first call only, the timeout being what Linux left of it; after three minutes of
  waiting altogether `select` returns at once. (The comment at line 533, "If no activity
  after 3 minutes this program will end", does not hold either: the `break` is commented
  out.)

One more divergence needs no run: `utils.h:63` lays out a traffic reply as localFd and
payload, but after a `recv` that failed the host branch sends `rc + 4 = 3` bytes
(`proxyserver.cpp:807`). `ServerLoop` and `Relay` have that message (`HostRead`,
`ShortArrives`); `UsersGetTheirHost` says what can come of it for a user: garbage, and then
the end of its connection.

### Fairness

All sockets but the listening one block, so each program can be held up by others, for
ever if they like. Nothing in the code prevents that; the models therefore assume
fairness only where nobody else has a say, and the liveness properties name as a premise
what they need of others.

`ServerLoop`: the thread runs on where it is not `Waiting`. It waits in `select`, in
`accept` and the handshake that follows it, in `sendData`, in the turn of a client, whose
packet may come in part, and in the turn of a host that is sent data or whose bit may be
stale. `ExpiredHostsAreCut` and `AcceptFailureEnds` hold if none of these lasts for ever
(`WaitsEnd`). It may in the code: with silent tunnels and hosts whose buffers are full,
`select` only times out, and its `continue` passes both clean-ups by; a client that does
not read blocks `sendData`; a new client that does not speak blocks the handshake.

`Tunnel`: a call that can return does; a process goes on with its handshake; a client
whose scan goes on comes to its tunnel when that is ready again and again (strong
fairness), since a scan comes to every ready descriptor before the next `select`.
Accepting, users, hosts, the network and the clock are under no fairness. `AnswersEnd`
has the premise that the users the client waits for move in the end (`UsersMove`): one who
does not read, or does not speak, holds up its client, the client then reads nothing,
and the server's send stands. Even so a tunnel in which both ends send into full
buffers is stuck (`Wedged`). `MessagesEnd` has the premise that the server's thread comes
round to a tunnel that is ready (`ServerComesRound`), which a host that does not read what
it is sent can prevent. `HandshakesEnd` counts on a client that lives to send its packet.
`Padding`: `decrypt` runs to its end.

## What is proved

For all sets of descriptors, localFds and timeouts (the assumptions are those in the
modules: `listen_sd` is below every later descriptor, and so is the tunnel's socket
at the client; descriptors are below `FD_SETSIZE`; `FdSetSize`, timeouts and so on are
numbers):

* `ServerLoopProofs` — all safety properties of `ServerLoop`. The invariant `IInv` adds
  to the properties what a step needs: while `sendData` runs, the client and the host
  it is about are in the tables (`SendInStep`), and the scan comes to `listen_sd`
  before it has closed anything (`ListenComesFirst`), which is why no accepted client
  takes over a bit. `ForwardConsistent` needs no other fact than itself;
  `TablesAgree` only holds until a client opens a localFd twice, and so does
  `ClientFound`. One lemma per group of actions shows each conjunct kept; the clean-ups
  have lemmas of their own. `TunnelsIsolated` is a property of steps and follows from
  the invariant in the first state; it covers the steps in which the process dies, which
  come only of traffic that cannot be sent or of a localFd opened twice.
* `ClientLoopProofs` — the same for `ClientLoop`. Here `IInv` adds `ScanInv`: the scan
  never comes to a socket of an earlier session.
* `FdSetsProofs` — the walk down ends at the highest bit (used by both).
* `BlocksProofs`, `PaddingProofs` — `ValidSize` and the round trip for plaintexts of any
  length and blocks of any size; the scan moves only over zeros after the mark.
* `PacketProofs` — every message arrives, from arithmetic on `ValidSize`.
* `TunnelProofs` — `NumbersInStep` and `NothingMissing` for any number of processes,
  tunnels and messages, any room and any first numbers (natural numbers). The two
  are not inductive: a number in step after the handshake comes from one given in it, and
  a new entry of `clientMap` meets packets that were sent before the entry was made. `IInv`
  therefore says where each tunnel is in its life: not opened (`FreshInv`); accepted or
  not, with at most the first packet on its way (`UnreadInv`); the client waiting for the
  second (`HelloInv`); the server waiting for the third, with messages already behind it
  (`ThirdInv`); let go by an end, and cut (`CutInv`). Every action is at one tunnel, and
  the others keep what is said of them (`Frame`, `OneTunnel`).
  Its second half is `TunnelsDeliver`: each direction of each tunnel implements `Channel`.
  For each action and direction a lemma says which step of `Channel` it is, with `IInv`
  for what that step asks.
* `RelayProofs` — the three properties of `Relay`, for any number of users, any set of
  localFds from 2 to 255, any room in the tunnel and any amount of data (garbage is no piece
  of a connection). They speak of what has come out at the ends; what
  makes them true is what lies between. `IInv` says, until a number is given on while it
  is in use (`KeptApart`): every number in a table or message is the one its user was given,
  and no two users have a *claim* to one — a connection, a request, an entry of the server or
  a reply (`NumberInv`, `OneClaim`). The data of a connection that is in a queue are the
  pieces from the one after the last that came out to the last that was read, in order
  (`Numbered`); it is behind the request, or the reply, that precedes it (`Leads`); and behind
  that message, or once it is received, only this user's data has the number (`OnlyOf`).
  That is what excludes data of an earlier user's host after the reply, on which the
  client's state "prepared" rests. An action is one user's: it is shown to change
  nothing the invariant says of another (`Quiet`, `FdFrame`), because the other has
  no claim to the number in the message, and then each part is shown for the user
  itself. When a number is given on that nobody uses, no claim to it is
  left (`Unused`), though data under it may be.

Only model-checked: all liveness properties (fairness and ENABLED are beyond the
prover). `TunnelLive` checks a tunnel for each of two processes and no second
one: a process that has come to its bound stays away, as any user may.

## Not modelled

* AES, GF(2^128) and the counter: functions without state on tables of constants; a
  bounded check would compare them with a copy of themselves.
* Bytes: a message is its kind and its localFd, a host's buffer is empty or not. The
  byte order of the fields, addresses and SOCKS replies have no effect on control
  other than the failures the actions have.
* The end of a stream is a failure of the call that finds it. In the code
  `readNBytes` returns 0 and `recvTSPacket` goes on with what its static buffer holds;
  type, version, mac or sequence number make the call fail a little later.
* `HostNode.writeBuf` and the number of descriptors have no limit in the code; the models
  have no more descriptors than `FD_SETSIZE`.
* `loopSend`, `loopRead`, `recvReplyMsg`, `HostNodeStatus`: not called. Logging, the
  makefile and the two `main` functions.
