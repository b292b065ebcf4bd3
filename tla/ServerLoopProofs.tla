-------------------------- MODULE ServerLoopProofs --------------------------
(* Proofs about the server's select loop, for all sets of descriptors.     *)
EXTENDS ServerLoop, FdSetsProofs

-----------------------------------------------------------------------------
\* Descriptors are naturals an fd_set can hold; listen_sd is the lowest.
LEMMA FdFacts ==
    /\ ListenSd \in Nat /\ ListenSd > 0 /\ ListenSd \notin Fd
    /\ \A fd \in Fd : fd \in Nat /\ ListenSd < fd
    /\ Fd \cup {0, ListenSd} \subseteq 0 .. FdSetSize
    /\ NoFd \notin Fd
  BY ListenSdAssumption, FdSetSizeAssumption, FdAssumption DEF NoFd

-----------------------------------------------------------------------------
(* What eraseHostFromFdSets and eraseClientFromFdSet preserve.             *)

LEMMA EraseKeepsMaxima ==
    ASSUME FdSetsTypeOK, MaxCovers, ListenSd \in readSet,
           NEW H \in SUBSET Fd, NEW C \in SUBSET Fd, EraseFromFdSets(H, C)
    PROVE  FdSetsTypeOK' /\ MaxCovers'
<1> USE FdFacts
<1>1. /\ open' \subseteq Fd \cup {ListenSd}
      /\ readSet' \subseteq readSet /\ readSet' \subseteq Fd \cup {ListenSd}
      /\ writeSet' \subseteq writeSet /\ writeSet' \subseteq Fd
      /\ ListenSd \in readSet'
  BY DEF EraseFromFdSets, FdSetsTypeOK
<1>2. maxRead' \in readSet' /\ \A fd \in readSet' : fd <= maxRead'
  <2>1. CASE maxRead \in H \cup C
    <3>1. maxRead' = Lowered(maxRead, readSet')
      BY <2>1 DEF EraseFromFdSets
    <3>2. \E fd \in readSet' : fd <= maxRead
      BY <1>1 DEF MaxCovers, FdSetsTypeOK
    <3>3. readSet' \subseteq 0 .. FdSetSize /\ maxRead \in Nat
      BY <1>1 DEF FdSetsTypeOK
    <3>4. \A fd \in readSet' : fd <= maxRead
      BY <1>1 DEF MaxCovers
    <3> QED BY <3>1, <3>2, <3>3, <3>4, LoweredIsHighest
  <2>2. CASE maxRead \notin H \cup C
    BY <2>2 DEF EraseFromFdSets, MaxCovers, FdSetsTypeOK
  <2> QED BY <2>1, <2>2
<1>3. maxWrite' \in writeSet' \cup {0} /\ \A fd \in writeSet' : fd <= maxWrite'
  <2>1. CASE maxWrite \in H \cap writeSet
    <3>1. maxWrite' = Lowered(maxWrite, writeSet' \cup {0})
      BY <2>1 DEF EraseFromFdSets
    <3>2. maxWrite \in Nat /\ \E fd \in writeSet' \cup {0} : fd <= maxWrite
      BY DEF FdSetsTypeOK
    <3>3. writeSet' \cup {0} \subseteq 0 .. FdSetSize
      BY <1>1
    <3>4. \A fd \in writeSet' : fd <= maxWrite
      BY <1>1 DEF MaxCovers
    <3> QED BY <3>1, <3>2, <3>3, <3>4, LoweredIsHighest
  <2>2. CASE maxWrite \notin H \cap writeSet
    BY <2>2 DEF EraseFromFdSets, MaxCovers, FdSetsTypeOK
  <2> QED BY <2>1, <2>2
<1>4. maxAll' = Larger(maxRead', maxWrite')
  BY DEF EraseFromFdSets
<1>5. maxRead' \in Fd \cup {ListenSd} /\ maxWrite' \in Fd \cup {0}
  BY <1>1, <1>2, <1>3
<1>6. maxAll' \in Fd \cup {ListenSd}
  BY <1>4, <1>5 DEF Larger
<1> QED BY <1>1, <1>2, <1>3, <1>4, <1>5, <1>6 DEF FdSetsTypeOK, MaxCovers

-----------------------------------------------------------------------------
(* What erasing keys from the tables preserves.                            *)

\* EraseFromTables, key by key.
LEMMA ErasedKeys ==
    ASSUME TablesTypeOK, NEW H, NEW S, NEW C, EraseFromTables(H, S, C)
    PROVE  /\ clientMap' = clientMap \ C
           /\ Hosts' = Hosts \ H
           /\ \A h \in Hosts' : h2lMap'[h] = h2lMap[h]
           /\ \A c \in Fd, l \in LocalFd :
                 sMap'[c][l] = IF c \in C \/ <<c, l>> \in S THEN NoFd ELSE sMap[c][l]
  BY DEF EraseFromTables, Hosts, TablesTypeOK

LEMMA EraseKeepsTypes ==
    ASSUME TablesTypeOK, NEW H, NEW S, NEW C, EraseFromTables(H, S, C),
           clientAge' \in [Fd -> 0 .. ClientTimeOut + 1]
    PROVE  TablesTypeOK'
<1>1. clientMap' \subseteq Fd /\ pending' \subseteq Fd
  BY DEF EraseFromTables, TablesTypeOK
<1>2. sMap' \in [Fd -> [LocalFd -> Fd \cup {NoFd}]]
  BY DEF EraseFromTables, TablesTypeOK
<1>3. sockAge' \in [Fd -> [LocalFd -> 0 .. SocketTimeOut + 1]]
  BY TimeOutAssumption DEF EraseFromTables, TablesTypeOK
<1>4. h2lMap' \in [Fd -> HostEntry \cup {NoHost}]
  BY DEF EraseFromTables, TablesTypeOK
<1>5. hostAge' \in [Fd -> 0 .. SocketTimeOut + 1]
  BY TimeOutAssumption DEF EraseFromTables, TablesTypeOK
<1> QED BY <1>1, <1>2, <1>3, <1>4, <1>5 DEF TablesTypeOK

\* Erasing hosts H, map entries S and clients C keeps the tables consistent if
\* with a host goes every entry that names it, and, while the tables are each
\* other's inverse, no client or entry goes that a remaining host needs.
LEMMA EraseKeepsTables ==
    ASSUME TablesTypeOK, FdSetsTypeOK, TablesInv,
           NEW H \in SUBSET Hosts, NEW S, NEW C \in SUBSET clientMap,
           \A c \in clientMap, l \in LocalFd :
              sMap[c][l] \in H => c \in C \/ <<c, l>> \in S,
           ~reused => \A h \in Hosts \ H : EntryOf(h)[1] \notin C /\ EntryOf(h) \notin S,
           EraseFromTables(H, S, C), EraseFromFdSets(H, C),
           reused' = reused, Running
    PROVE  FdSetsTypeOK' /\ TablesInv'
<1>0. H \subseteq Fd /\ C \subseteq Fd /\ ListenSd \in readSet
  BY DEF Hosts, TablesTypeOK, TablesInv, DescriptorsAccounted
<1>1. FdSetsTypeOK' /\ MaxCovers'
  BY <1>0, EraseKeepsMaxima DEF TablesInv
<1>keys. /\ clientMap' = clientMap \ C
         /\ Hosts' = Hosts \ H
         /\ \A h \in Hosts' : h2lMap'[h] = h2lMap[h]
         /\ \A c \in Fd, l \in LocalFd :
               sMap'[c][l] = IF c \in C \/ <<c, l>> \in S THEN NoFd ELSE sMap[c][l]
  BY ErasedKeys
<1> USE <1>keys
<1>2. ForwardConsistent'
  <2>1. ASSUME NEW c \in clientMap', NEW l \in LocalFd, sMap'[c][l] # NoFd
        PROVE  /\ sMap'[c][l] \in Hosts'
               /\ h2lMap'[sMap'[c][l]].clientFd = c
               /\ h2lMap'[sMap'[c][l]].localFd = l
    <3>1. c \in clientMap /\ c \in Fd
      BY DEF TablesTypeOK
    <3>2. sMap'[c][l] = sMap[c][l] /\ ~(c \in C \/ <<c, l>> \in S)
      BY <2>1, <3>1
    <3>3. sMap[c][l] \notin H
      BY <3>1, <3>2
    <3>4. sMap[c][l] \in Hosts /\ EntryOf(sMap[c][l]) = <<c, l>>
      BY <2>1, <3>1, <3>2 DEF TablesInv, ForwardConsistent
    <3>5. sMap[c][l] \in Hosts' /\ h2lMap'[sMap[c][l]] = h2lMap[sMap[c][l]]
      BY <3>3, <3>4
    <3>6. h2lMap[sMap[c][l]].clientFd = c /\ h2lMap[sMap[c][l]].localFd = l
      BY <3>4 DEF EntryOf
    <3> QED BY <3>2, <3>5, <3>6
  <2>2. ASSUME NEW c \in Fd \ clientMap', NEW l \in LocalFd
        PROVE  sMap'[c][l] = NoFd
    <3>1. CASE c \in clientMap
      BY <3>1, <2>2
    <3>2. CASE c \notin clientMap
      BY <3>2 DEF TablesInv, ForwardConsistent
    <3> QED BY <3>1, <3>2
  <2> QED BY <2>1, <2>2 DEF ForwardConsistent, EntryOf
<1>3. DescriptorsAccounted'
  <2>1. open' = readSet' /\ readSet' = {ListenSd} \cup clientMap' \cup Hosts'
    BY <1>0, FdFacts DEF EraseFromFdSets, TablesInv, DescriptorsAccounted
  <2>2. writeSet' = Hosts' /\ clientMap' \cap Hosts' = {} /\ pending' \subseteq Hosts'
    BY DEF EraseFromFdSets, EraseFromTables, TablesInv, DescriptorsAccounted
  <2> QED BY <2>1, <2>2 DEF DescriptorsAccounted
<1>4. TablesAgree'
  <2> SUFFICES ASSUME ~reused, NEW h \in Hosts'
               PROVE  /\ EntryOf(h)' \in Socks'
                      /\ sMap'[EntryOf(h)'[1]][EntryOf(h)'[2]] = h
    BY DEF TablesAgree
  <2>1. h \in Hosts /\ h \notin H /\ EntryOf(h)' = EntryOf(h)
    BY DEF EntryOf
  <2> DEFINE c == h2lMap[h].clientFd
             l == h2lMap[h].localFd
  <2>2. EntryOf(h) = <<c, l>> /\ EntryOf(h) \in Socks /\ sMap[c][l] = h
    BY <2>1 DEF EntryOf, TablesInv, TablesAgree
  <2>3. c \in clientMap /\ l \in LocalFd /\ c \in Fd
    BY <2>2 DEF Socks, TablesTypeOK
  <2>4. c \notin C /\ <<c, l>> \notin S
    BY <2>1, <2>2
  <2>5. sMap'[c][l] = h /\ c \in clientMap' /\ h # NoFd
    BY <2>2, <2>3, <2>4, <2>1, FdFacts DEF Hosts
  <2> QED BY <2>1, <2>2, <2>3, <2>5 DEF Socks
<1> QED BY <1>1, <1>2, <1>3, <1>4 DEF TablesInv

-----------------------------------------------------------------------------
(* The tables, one operation at a time.                                    *)

\* Socks and HostsAt, without tuples.
LEMMA SockFacts ==
    /\ \A s : s \in Socks <=> \E c \in clientMap, l \in LocalFd :
                                  s = <<c, l>> /\ sMap[c][l] # NoFd
    /\ \A S \in SUBSET Socks : \A h :
          h \in HostsAt(S) <=> \E c \in clientMap, l \in LocalFd :
                                 <<c, l>> \in S /\ sMap[c][l] = h
<1>1. \A s : s \in Socks <=> \E c \in clientMap, l \in LocalFd :
                                s = <<c, l>> /\ sMap[c][l] # NoFd
  BY DEF Socks
<1>2. ASSUME NEW S \in SUBSET Socks, NEW h
      PROVE  h \in HostsAt(S) <=> \E c \in clientMap, l \in LocalFd :
                                    <<c, l>> \in S /\ sMap[c][l] = h
  <2>1. ASSUME h \in HostsAt(S)
        PROVE  \E c \in clientMap, l \in LocalFd : <<c, l>> \in S /\ sMap[c][l] = h
    <3>1. PICK s \in S : h = sMap[s[1]][s[2]]
      BY <2>1 DEF HostsAt
    <3>2. PICK c \in clientMap, l \in LocalFd : s = <<c, l>>
      BY <1>1
    <3> QED BY <3>1, <3>2
  <2>2. ASSUME NEW c \in clientMap, NEW l \in LocalFd, <<c, l>> \in S, sMap[c][l] = h
        PROVE  h \in HostsAt(S)
    BY <2>2 DEF HostsAt
  <2> QED BY <2>1, <2>2
<1> QED BY <1>1, <1>2

\* An entry of a SocketMap and the host it names determine each other.
LEMMA EntriesAreOwn ==
    ASSUME TypeOK, TablesInv, NEW c \in clientMap, NEW l \in LocalFd, sMap[c][l] # NoFd
    PROVE  /\ sMap[c][l] \in Hosts
           /\ EntryOf(sMap[c][l]) = <<c, l>>
           /\ <<c, l>> \in Socks
  BY DEF TablesInv, ForwardConsistent, Socks

\* While no entry has been replaced, every host is named by its client's map.
LEMMA HostsAreReached ==
    ASSUME TypeOK, TablesInv, ~reused, NEW h \in Hosts
    PROVE  /\ EntryOf(h) \in Socks
           /\ EntryOf(h) = <<h2lMap[h].clientFd, h2lMap[h].localFd>>
           /\ sMap[EntryOf(h)[1]][EntryOf(h)[2]] = h
           /\ EntryOf(h)[1] \in clientMap
  BY DEF TablesInv, TablesAgree, Socks, EntryOf

\* Steps that touch neither the tables' keys nor the descriptor sets.
LEMMA SameTables ==
    ASSUME FdSetsTypeOK, TablesInv, Running,
           UNCHANGED <<clientMap, sMap, h2lMap, pending, fdSets, reused>>
    PROVE  FdSetsTypeOK' /\ TablesInv'
<1>1. FdSetsTypeOK' /\ MaxCovers'
  BY DEF FdSetsTypeOK, MaxCovers, fdSets, TablesInv
<1>2. Hosts' = Hosts /\ Socks' = Socks
  BY DEF Hosts, Socks
<1>3. ForwardConsistent'
  BY <1>2 DEF TablesInv, ForwardConsistent, EntryOf
<1>4. DescriptorsAccounted'
  BY <1>2 DEF TablesInv, DescriptorsAccounted, fdSets
<1>5. TablesAgree'
  BY <1>2 DEF TablesInv, TablesAgree, EntryOf
<1> QED BY <1>1, <1>3, <1>4, <1>5 DEF TablesInv

\* What is left when the process has died is as good as what was there at first.
LEMMA DiesKeeps ==
    ASSUME NEW place \in Crashed, Dies(place)
    PROVE  TablesTypeOK' /\ FdSetsTypeOK' /\ TablesInv'
<1>1. TablesTypeOK' /\ FdSetsTypeOK'
  BY TimeOutAssumption DEF Dies, TablesTypeOK, FdSetsTypeOK
<1>2. Hosts' = {} /\ Socks' = {}
  BY DEF Dies, Hosts, Socks
<1>3. MaxCovers'
  BY FdFacts DEF Dies, MaxCovers, Larger
<1>4. ForwardConsistent' /\ DescriptorsAccounted' /\ TablesAgree'
  BY <1>2 DEF Dies, ForwardConsistent, DescriptorsAccounted, TablesAgree, Running
<1> QED BY <1>1, <1>3, <1>4 DEF TablesInv

\* The thread can miss a host's client only after an entry was replaced.
LEMMA CloseHostKeeps ==
    ASSUME TypeOK, TablesInv, NEW h \in Hosts, CloseHost(h), reused' = reused, pc = "scan"
    PROVE  /\ TablesTypeOK' /\ FdSetsTypeOK' /\ TablesInv'
           /\ pc' \in {"scan", "noclient"}
           /\ pc' = "noclient" => reused
<1> USE DEF TypeOK
<1>1. CASE EntryOf(h)[1] \in clientMap
  <2>1. /\ EraseFromTables({h}, {EntryOf(h)}, {}) /\ EraseFromFdSets({h}, {})
        /\ clientAge' = clientAge /\ pc' = "scan"
    BY <1>1 DEF CloseHost
  <2>2. TablesTypeOK'
    BY <2>1, EraseKeepsTypes DEF TablesTypeOK
  <2>3. \A c \in clientMap, l \in LocalFd :
           sMap[c][l] \in {h} => c \in {} \/ <<c, l>> \in {EntryOf(h)}
    BY EntriesAreOwn, FdFacts DEF Hosts
  <2>4. ~reused => \A g \in Hosts \ {h} : EntryOf(g)[1] \notin {} /\ EntryOf(g) \notin {EntryOf(h)}
    BY HostsAreReached
  <2>5. FdSetsTypeOK' /\ TablesInv'
    BY <2>1, <2>3, <2>4, EraseKeepsTables DEF Running, Crashed
  <2> QED BY <2>1, <2>2, <2>5
<1>2. CASE EntryOf(h)[1] \notin clientMap
  <2>1. Dies("noclient") /\ pc' = "noclient"
    BY <1>2 DEF CloseHost, Dies
  <2>2. TablesTypeOK' /\ FdSetsTypeOK' /\ TablesInv'
    BY <2>1, DiesKeeps DEF Crashed
  <2> QED BY <1>2, <2>1, <2>2, HostsAreReached
<1> QED BY <1>1, <1>2

LEMMA DropClientKeeps ==
    ASSUME TypeOK, TablesInv, NEW c \in clientMap, DropClient(c), reused' = reused,
           Running
    PROVE  TablesTypeOK' /\ FdSetsTypeOK' /\ TablesInv'
<1> USE DEF TypeOK
<1> DEFINE H == HostsAt(SocksOf(c))
<1>0. /\ SocksOf(c) \subseteq Socks
      /\ \A d \in clientMap, l \in LocalFd :
            <<d, l>> \in SocksOf(c) <=> d = c /\ sMap[d][l] # NoFd
  BY SockFacts DEF SocksOf
<1>1. \A h : h \in H <=> \E l \in LocalFd : sMap[c][l] = h /\ h # NoFd
  <2>1. \A h : h \in H <=> \E d \in clientMap, l \in LocalFd :
                              <<d, l>> \in SocksOf(c) /\ sMap[d][l] = h
    BY <1>0, SockFacts
  <2> HIDE DEF H
  <2> QED BY <1>0, <2>1
<1>2. EraseFromTables(H, SocksOf(c), {c}) /\ EraseFromFdSets(H, {c})
  BY DEF DropClient
<1>3. TablesTypeOK'
  <2>1. clientAge' \in [Fd -> 0 .. ClientTimeOut + 1]
    BY TimeOutAssumption DEF DropClient, TablesTypeOK
  <2> QED BY <1>2, <2>1, EraseKeepsTypes
<1>4. H \subseteq Hosts
  BY <1>1, EntriesAreOwn
<1>5. \A d \in clientMap, l \in LocalFd :
         sMap[d][l] \in H => d \in {c} \/ <<d, l>> \in SocksOf(c)
  <2> SUFFICES ASSUME NEW d \in clientMap, NEW l \in LocalFd, sMap[d][l] \in H
               PROVE  d = c
    OBVIOUS
  <2>1. PICK k \in LocalFd : sMap[c][k] = sMap[d][l] /\ sMap[d][l] # NoFd
    BY <1>1
  <2>2. EntryOf(sMap[c][k]) = <<c, k>> /\ EntryOf(sMap[d][l]) = <<d, l>>
    BY <2>1, EntriesAreOwn
  <2> QED BY <2>1, <2>2
<1>6. ~reused => \A h \in Hosts \ H : EntryOf(h)[1] \notin {c} /\ EntryOf(h) \notin SocksOf(c)
  <2> SUFFICES ASSUME ~reused, NEW h \in Hosts \ H
               PROVE  EntryOf(h)[1] # c
    BY DEF SocksOf
  <2>1. EntryOf(h) \in Socks /\ sMap[EntryOf(h)[1]][EntryOf(h)[2]] = h
    BY HostsAreReached
  <2>2. EntryOf(h)[2] \in LocalFd /\ h # NoFd
    BY <2>1 DEF Socks
  <2> QED BY <1>1, <2>1, <2>2
<1> HIDE DEF H
<1>7. FdSetsTypeOK' /\ TablesInv'
  BY <1>2, <1>4, <1>5, <1>6, EraseKeepsTables
<1> QED BY <1>3, <1>7

LEMMA CleanKeeps ==
    ASSUME TypeOK, TablesInv, Clean
    PROVE  TablesTypeOK' /\ FdSetsTypeOK' /\ TablesInv'
<1> USE DEF TypeOK
<1> DEFINE G == HostsAt(DeadSocks)
           H == G \cup DeadHosts
           S == DeadSocks \cup {EntryOf(h) : h \in DeadHosts}
<1>1. DeadSocks \in SUBSET Socks /\ DeadClients \in SUBSET clientMap
  BY DEF DeadSocks, DeadClients
<1>2. \A h : h \in G <=> \E c \in clientMap, l \in LocalFd :
                             <<c, l>> \in DeadSocks /\ sMap[c][l] = h
  BY <1>1, SockFacts
<1>3. \A c \in clientMap, l \in LocalFd :
         sMap[c][l] # NoFd /\ c \in DeadClients => <<c, l>> \in DeadSocks
  BY SockFacts DEF DeadSocks
<1>4. EraseFromTables(H, S, DeadClients) /\ EraseFromFdSets(H, DeadClients)
  BY DEF Clean
<1>5. Running /\ reused' = reused
  BY DEF Clean, PassDone, Running, Crashed
<1>6. TablesTypeOK'
  <2>1. clientAge' \in [Fd -> 0 .. ClientTimeOut + 1]
    BY TimeOutAssumption DEF Clean, TablesTypeOK
  <2> QED BY <1>4, <2>1, EraseKeepsTypes
<1>7. \A c \in clientMap, l \in LocalFd : <<c, l>> \in Socks <=> sMap[c][l] # NoFd
  BY DEF Socks
<1>8. H \subseteq Hosts
  <2>1. G \subseteq Hosts
    <3> SUFFICES ASSUME NEW h \in G
                 PROVE  h \in Hosts
      OBVIOUS
    <3>1. PICK c \in clientMap, l \in LocalFd : <<c, l>> \in DeadSocks /\ sMap[c][l] = h
      BY <1>2
    <3>2. sMap[c][l] # NoFd
      BY <1>1, <1>7, <3>1
    <3> QED BY <3>1, <3>2, EntriesAreOwn
  <2> QED BY <2>1 DEF DeadHosts
<1>9. \A c \in clientMap, l \in LocalFd :
         sMap[c][l] \in H => c \in DeadClients \/ <<c, l>> \in S
  <2> SUFFICES ASSUME NEW c \in clientMap, NEW l \in LocalFd, sMap[c][l] \in H
               PROVE  <<c, l>> \in S
    OBVIOUS
  <2>1. sMap[c][l] # NoFd
    BY <1>8, FdFacts DEF Hosts
  <2>2. EntryOf(sMap[c][l]) = <<c, l>>
    BY <2>1, EntriesAreOwn
  <2>3. CASE sMap[c][l] \in G
    <3>1. PICK d \in clientMap, k \in LocalFd :
             <<d, k>> \in DeadSocks /\ sMap[d][k] = sMap[c][l]
      BY <1>2, <2>3
    <3>2. EntryOf(sMap[d][k]) = <<d, k>>
      BY <2>1, <3>1, EntriesAreOwn
    <3> QED BY <2>2, <3>1, <3>2
  <2>4. CASE sMap[c][l] \in DeadHosts
    BY <2>2, <2>4
  <2> QED BY <2>3, <2>4
<1>10. ~reused => \A h \in Hosts \ H : EntryOf(h)[1] \notin DeadClients /\ EntryOf(h) \notin S
  <2> SUFFICES ASSUME ~reused, NEW h \in Hosts \ H
               PROVE  EntryOf(h)[1] \notin DeadClients /\ EntryOf(h) \notin S
    OBVIOUS
  <2> DEFINE c == EntryOf(h)[1]
             l == EntryOf(h)[2]
  <2>1. c \in clientMap /\ l \in LocalFd /\ EntryOf(h) = <<c, l>> /\ sMap[c][l] = h /\ h # NoFd
    BY HostsAreReached, SockFacts
  <2>2. EntryOf(h) \notin DeadSocks
    BY <1>2, <2>1
  <2>3. c \notin DeadClients
    BY <1>3, <2>1, <2>2
  <2>4. \A g \in DeadHosts : EntryOf(g) # EntryOf(h)
    BY <2>1, HostsAreReached DEF DeadHosts
  <2> QED BY <2>2, <2>3, <2>4
<1> HIDE DEF H, S
<1>11. FdSetsTypeOK' /\ TablesInv'
  BY <1>1, <1>4, <1>5, <1>8, <1>9, <1>10, EraseKeepsTables
<1> QED BY <1>6, <1>11

\* The three handshake messages went through: a client without connections.
LEMMA AcceptKeeps ==
    ASSUME TypeOK, TablesInv, AcceptClient
    PROVE  TablesTypeOK' /\ FdSetsTypeOK' /\ TablesInv'
<1> USE DEF TypeOK
<1> USE FdFacts
<1>1. PICK new \in Fd :
        /\ LowestFree(new)
        /\ open' = open \cup {new}
        /\ readSet' = readSet \cup {new}
        /\ maxRead' = Larger(maxRead, new)
        /\ maxAll' = Larger(maxAll, new)
        /\ clientMap' = clientMap \cup {new}
        /\ clientAge' = [clientAge EXCEPT ![new] = 0]
        /\ sMap' = [sMap EXCEPT ![new] = [l \in LocalFd |-> NoFd]]
        /\ sockAge' = [sockAge EXCEPT ![new] = [l \in LocalFd |-> 0]]
  BY DEF AcceptClient
<1>2. UNCHANGED <<h2lMap, hostAge, pending, writeSet, maxWrite, pc, reused>> /\ pc = "accept"
  BY DEF AcceptClient
<1>3. new \notin open
  BY <1>1 DEF LowestFree
<1>4. new \notin clientMap \cup Hosts /\ new \notin readSet
  BY <1>2, <1>3 DEF TablesInv, DescriptorsAccounted, Running, Crashed
<1>5. TablesTypeOK'
  BY <1>1, <1>2, TimeOutAssumption DEF TablesTypeOK
<1>6. FdSetsTypeOK' /\ MaxCovers'
  BY <1>1, <1>2 DEF FdSetsTypeOK, TablesInv, MaxCovers, Larger
<1>7. Hosts' = Hosts
  BY <1>2 DEF Hosts
<1>8. \A c \in clientMap, l \in LocalFd : sMap'[c][l] = sMap[c][l]
  BY <1>1, <1>4 DEF TablesTypeOK
<1>9. ForwardConsistent'
  <2>1. \A c \in clientMap', l \in LocalFd :
           sMap'[c][l] # NoFd => c \in clientMap /\ sMap'[c][l] = sMap[c][l]
    BY <1>1, <1>8 DEF TablesTypeOK
  <2>2. \A c \in Fd \ clientMap', l \in LocalFd : sMap'[c][l] = NoFd
    BY <1>1 DEF TablesTypeOK, TablesInv, ForwardConsistent
  <2> QED BY <1>2, <1>7, <2>1, <2>2 DEF TablesInv, ForwardConsistent, EntryOf
<1>10. DescriptorsAccounted'
  BY <1>1, <1>2, <1>4, <1>7 DEF TablesInv, DescriptorsAccounted, Running, Crashed
<1>11. TablesAgree'
  <2> SUFFICES ASSUME ~reused, NEW h \in Hosts
               PROVE  /\ EntryOf(h)' \in Socks'
                      /\ sMap'[EntryOf(h)'[1]][EntryOf(h)'[2]] = h
    BY <1>2, <1>7 DEF TablesAgree
  <2> DEFINE c == EntryOf(h)[1]
             l == EntryOf(h)[2]
  <2>1. c \in clientMap /\ l \in LocalFd /\ EntryOf(h) = <<c, l>> /\ sMap[c][l] = h /\ h # NoFd
    BY HostsAreReached, SockFacts
  <2>2. EntryOf(h)' = <<c, l>>
    BY <1>2, <2>1 DEF EntryOf
  <2>3. c \in clientMap' /\ sMap'[c][l] # NoFd
    BY <1>1, <1>8, <2>1
  <2> QED BY <1>8, <2>1, <2>2, <2>3 DEF Socks
<1> QED BY <1>5, <1>6, <1>9, <1>10, <1>11 DEF TablesInv

\* A descriptor that comes and goes leaves the sets and maxima as they were.
LEMMA HandshakeFailsKeeps ==
    ASSUME TypeOK, TablesInv, AcceptHandshakeFails
    PROVE  TablesTypeOK' /\ FdSetsTypeOK' /\ TablesInv'
<1> USE FdFacts DEF TypeOK
<1>1. PICK new \in Fd :
        /\ LowestFree(new)
        /\ maxRead' = IF new = Larger(maxRead, new)
                      THEN Lowered(Larger(maxRead, new), readSet) ELSE Larger(maxRead, new)
        /\ maxAll' = Larger(maxRead', maxWrite)
  BY DEF AcceptHandshakeFails
<1>2. UNCHANGED <<tables, open, readSet, writeSet, maxWrite, reused, pc>> /\ pc = "accept"
  BY DEF AcceptHandshakeFails
<1>3. new \notin readSet /\ new # maxRead
  BY <1>1, <1>2 DEF LowestFree, TablesInv, DescriptorsAccounted, MaxCovers, Running, Crashed
<1>4. maxRead' = maxRead
  <2>1. CASE new < maxRead
    BY <1>1, <2>1 DEF Larger, FdSetsTypeOK
  <2>2. CASE maxRead < new
    <3>1. maxRead' = Lowered(new, readSet)
      BY <1>1, <2>2 DEF Larger
    <3>2. readSet \subseteq 0 .. FdSetSize /\ maxRead \in readSet /\ maxRead <= new
      BY <2>2 DEF FdSetsTypeOK, TablesInv, MaxCovers
    <3>3. maxRead' \in readSet /\ maxRead <= maxRead'
      BY <3>1, <3>2, LoweredIsHighest
    <3>4. maxRead' <= maxRead
      BY <3>3 DEF TablesInv, MaxCovers
    <3> QED BY <3>2, <3>3, <3>4
  <2> QED BY <1>3, <2>1, <2>2 DEF FdSetsTypeOK
<1>5. maxAll' = maxAll
  BY <1>1, <1>4 DEF TablesInv, MaxCovers
<1>6. UNCHANGED fdSets
  BY <1>2, <1>4, <1>5 DEF fdSets
<1>7. FdSetsTypeOK' /\ TablesInv'
  BY <1>2, <1>6, SameTables DEF tables, Running, Crashed
<1> QED BY <1>2, <1>7 DEF tables, TablesTypeOK

\* A request whose host was reached: one more host, perhaps under a localFd that
\* named another one until now.
LEMMA ConnectKeeps ==
    ASSUME TypeOK, TablesInv, NEW c \in Fd, NEW l \in LocalFd, Connect(c, l)
    PROVE  TablesTypeOK' /\ FdSetsTypeOK' /\ TablesInv'
<1> USE FdFacts DEF TypeOK
<1>1. PICK new \in Fd :
        /\ LowestFree(new)
        /\ sMap' = [sMap EXCEPT ![c][l] = new]
        /\ h2lMap' = [h2lMap EXCEPT ![new] = [clientFd |-> c, localFd |-> l]]
        /\ open' = open \cup {new}
        /\ readSet' = readSet \cup {new}
        /\ writeSet' = writeSet \cup {new}
        /\ maxRead' = Larger(maxRead, new)
        /\ maxWrite' = Larger(maxWrite, new)
        /\ hostAge' = [hostAge EXCEPT ![new] = 0]
        /\ pending' = pending \ {new}
  BY DEF Connect
<1>2. /\ c \in clientMap /\ clientAge' = [clientAge EXCEPT ![c] = 0]
      /\ sockAge' = [sockAge EXCEPT ![c][l] = 0]
      /\ maxAll' = Larger(maxRead', maxWrite')
      /\ reused' = (reused \/ sMap[c][l] # NoFd)
      /\ clientMap' = clientMap
      /\ pc = "scan" /\ pc' = "send"
  BY DEF Connect, Received, ClientTurn, ReadTurn, Here
<1>3. new \notin open
  BY <1>1 DEF LowestFree
<1>4. new \notin clientMap \cup Hosts /\ new \notin readSet
  BY <1>2, <1>3 DEF TablesInv, DescriptorsAccounted, Running, Crashed
<1>5. /\ sMap' \in [Fd -> [LocalFd -> Fd \cup {NoFd}]]
      /\ sMap'[c][l] = new
      /\ \A d \in Fd, k \in LocalFd : d # c \/ k # l => sMap'[d][k] = sMap[d][k]
  BY <1>1 DEF TablesTypeOK
<1>6. /\ h2lMap' \in [Fd -> HostEntry \cup {NoHost}]
      /\ h2lMap'[new] = [clientFd |-> c, localFd |-> l]
      /\ \A h \in Fd : h # new => h2lMap'[h] = h2lMap[h]
  BY <1>1 DEF TablesTypeOK, HostEntry
<1>7. TablesTypeOK'
  <2>1. clientAge' \in [Fd -> 0 .. ClientTimeOut + 1]
    BY <1>2, TimeOutAssumption DEF TablesTypeOK
  <2>2. sockAge' \in [Fd -> [LocalFd -> 0 .. SocketTimeOut + 1]]
    BY <1>2, TimeOutAssumption DEF TablesTypeOK
  <2>3. hostAge' \in [Fd -> 0 .. SocketTimeOut + 1]
    BY <1>1, TimeOutAssumption DEF TablesTypeOK
  <2> QED BY <1>1, <1>2, <1>5, <1>6, <2>1, <2>2, <2>3 DEF TablesTypeOK
<1>8. FdSetsTypeOK' /\ MaxCovers'
  BY <1>1, <1>2 DEF FdSetsTypeOK, TablesInv, MaxCovers, Larger
<1>9. Hosts' = Hosts \cup {new}
  BY <1>6, AbsentAssumption DEF Hosts, HostEntry
<1>10. ForwardConsistent'
  <2>1. ASSUME NEW d \in clientMap, NEW k \in LocalFd, sMap'[d][k] # NoFd
        PROVE  /\ sMap'[d][k] \in Hosts'
               /\ h2lMap'[sMap'[d][k]].clientFd = d
               /\ h2lMap'[sMap'[d][k]].localFd = k
    <3>1. CASE d = c /\ k = l
      BY <1>5, <1>6, <1>9, <3>1
    <3>2. CASE d # c \/ k # l
      <4>1. sMap'[d][k] = sMap[d][k]
        BY <1>5, <3>2 DEF TablesTypeOK
      <4>2. sMap[d][k] \in Hosts /\ EntryOf(sMap[d][k]) = <<d, k>>
        BY <2>1, <4>1, EntriesAreOwn
      <4>3. sMap[d][k] # new /\ sMap[d][k] \in Fd
        BY <1>4, <4>2 DEF Hosts
      <4> QED BY <1>6, <1>9, <4>1, <4>2, <4>3 DEF EntryOf
    <3> QED BY <3>1, <3>2
  <2>2. \A d \in Fd \ clientMap, k \in LocalFd : sMap'[d][k] = NoFd
    BY <1>2, <1>5 DEF TablesInv, ForwardConsistent
  <2> QED BY <1>2, <2>1, <2>2 DEF ForwardConsistent, EntryOf
<1>11. DescriptorsAccounted'
  BY <1>1, <1>2, <1>4, <1>9 DEF TablesInv, DescriptorsAccounted, Running, Crashed
<1>12. TablesAgree'
  <2> SUFFICES ASSUME ~reused, sMap[c][l] = NoFd, NEW h \in Hosts'
               PROVE  \E d \in clientMap, k \in LocalFd :
                         /\ h2lMap'[h].clientFd = d /\ h2lMap'[h].localFd = k
                         /\ sMap'[d][k] = h /\ h # NoFd
    BY <1>2 DEF TablesAgree, EntryOf, Socks
  <2>1. CASE h = new
    BY <1>2, <1>5, <1>6, <2>1
  <2>2. CASE h # new
    <3>1. h \in Hosts
      BY <1>9, <2>2
    <3> DEFINE d == h2lMap[h].clientFd
               k == h2lMap[h].localFd
    <3>2. d \in clientMap /\ k \in LocalFd /\ sMap[d][k] = h /\ h # NoFd /\ h \in Fd
      BY <3>1, HostsAreReached DEF Socks, Hosts
    <3>3. d # c \/ k # l
      BY <3>2
    <3>4. sMap'[d][k] = h
      BY <1>5, <3>2, <3>3 DEF TablesTypeOK
    <3> QED BY <1>6, <2>2, <3>2, <3>4
  <2> QED BY <2>1, <2>2
<1> QED BY <1>7, <1>8, <1>10, <1>11, <1>12 DEF TablesInv

\* A traffic message starts from a host that is still there when it has been
\* sent, so the host branch closes the host it read from.
LEMMA SendKeeps ==
    ASSUME IInv, SendSucceeds
    PROVE  TablesTypeOK' /\ FdSetsTypeOK' /\ TablesInv'
<1> USE DEF IInv, TypeOK
<1>1. /\ pc = "send" /\ pc' = "scan" /\ out.to \in clientMap /\ reused' = reused
      /\ clientAge' = [clientAge EXCEPT ![out.to] = 0]
  BY DEF SendSucceeds
<1>2. clientAge' \in [Fd -> 0 .. ClientTimeOut + 1]
  BY <1>1, TimeOutAssumption DEF TablesTypeOK
<1>3. CASE out.kind = "traffic" /\ out.closing
  <2>1. /\ EraseFromTables({out.host}, {EntryOf(out.host)}, {})
        /\ EraseFromFdSets({out.host}, {})
    BY <1>3 DEF SendSucceeds
  <2>2. out.host \in Hosts
    BY <1>1, <1>3 DEF LoopInv, SendInStep
  <2>3. \A c \in clientMap, l \in LocalFd :
           sMap[c][l] \in {out.host} => c \in {} \/ <<c, l>> \in {EntryOf(out.host)}
    BY <2>2, EntriesAreOwn, FdFacts DEF Hosts
  <2>4. ~reused => \A g \in Hosts \ {out.host} :
                      EntryOf(g)[1] \notin {} /\ EntryOf(g) \notin {EntryOf(out.host)}
    BY <2>2, HostsAreReached
  <2>5. FdSetsTypeOK' /\ TablesInv'
    BY <1>1, <2>1, <2>2, <2>3, <2>4, EraseKeepsTables DEF Running, Crashed
  <2> QED BY <1>2, <2>1, <2>5, EraseKeepsTypes
<1>4. CASE ~(out.kind = "traffic" /\ out.closing)
  <2>1. UNCHANGED <<clientMap, sMap, sockAge, h2lMap, hostAge, pending, fdSets>>
    BY <1>4 DEF SendSucceeds
  <2>2. FdSetsTypeOK' /\ TablesInv'
    BY <1>1, <2>1, SameTables DEF Running, Crashed
  <2> QED BY <1>2, <2>1, <2>2 DEF TablesTypeOK
<1> QED BY <1>3, <1>4

-----------------------------------------------------------------------------
(* Every step keeps the tables and the descriptor sets.                    *)

LEMMA TablesStep ==
    ASSUME IInv, [Next]_vars
    PROVE  TablesTypeOK' /\ FdSetsTypeOK' /\ TablesInv'
<1> DEFINE Goal == TablesTypeOK' /\ FdSetsTypeOK' /\ TablesInv'
<1> USE DEF IInv, TypeOK
\* Steps that leave every table and set alone.
<1>1. ASSUME UNCHANGED <<tables, fdSets, reused>>, Running
      PROVE  Goal
  BY <1>1, SameTables DEF tables, TablesTypeOK
\* Steps that touch only the times.
<1>2. ASSUME NEW c \in clientMap, clientAge' = [clientAge EXCEPT ![c] = 0],
             UNCHANGED <<clientMap, sMap, sockAge, h2lMap, hostAge, pending, fdSets, reused>>,
             Running
      PROVE  Goal
  <2>1. TablesTypeOK'
    BY <1>2, TimeOutAssumption DEF TablesTypeOK
  <2> QED BY <1>2, <2>1, SameTables
<1>3. CASE Select \/ SelectFails \/ Listen \/ AcceptAgain \/ AcceptFails
  BY <1>1, <1>3 DEF Select, SelectFails, Listen, AcceptAgain, AcceptFails,
                    ReadTurn, Here, Running, Crashed
<1>4. CASE AcceptClient
  BY <1>4, AcceptKeeps
<1>5. CASE AcceptHandshakeFails
  BY <1>5, HandshakeFailsKeeps
<1>6. ASSUME NEW c \in Fd, ClientStep(c)
      PROVE  Goal
  <2>1. c \in clientMap /\ pc = "scan" /\ Running
    BY <1>6 DEF Running, Crashed, ClientStep, ReceiveFails, Refuse, Ignore, ConnectFails, Connect, Upload,
                Received, ClientTurn, ReadTurn, Here
  <2>2. CASE ReceiveFails(c)
    BY <2>1, <2>2, DropClientKeeps DEF ReceiveFails
  <2>3. CASE Refuse(c) \/ Ignore(c)
    BY <1>2, <2>1, <2>3 DEF Refuse, Ignore, Received
  <2>4. ASSUME NEW l \in LocalFd, ConnectFails(c, l)
        PROVE  Goal
    BY <1>2, <2>1, <2>4 DEF ConnectFails, Received
  <2>5. ASSUME NEW l \in LocalFd, Connect(c, l)
        PROVE  Goal
    BY <2>5, ConnectKeeps
  <2>6. ASSUME NEW l \in LocalFd, Upload(c, l)
        PROVE  Goal
    <3>1. /\ clientAge' = [clientAge EXCEPT ![c] = 0]
          /\ sockAge' = [sockAge EXCEPT ![c][l] = 0]
          /\ sMap[c][l] # NoFd
          /\ pending' \in {pending, pending \cup {sMap[c][l]}}
          /\ UNCHANGED <<clientMap, sMap, h2lMap, hostAge, fdSets, pc, reused>>
      BY <2>6 DEF Upload, Received
    <3>2. sMap[c][l] \in Hosts
      BY <2>1, <3>1, EntriesAreOwn
    <3>3. TablesTypeOK'
      <4>1. clientAge' \in [Fd -> 0 .. ClientTimeOut + 1]
        BY <3>1, TimeOutAssumption DEF TablesTypeOK
      <4>2. sockAge' \in [Fd -> [LocalFd -> 0 .. SocketTimeOut + 1]]
        BY <3>1, TimeOutAssumption DEF TablesTypeOK
      <4>3. pending' \subseteq Fd
        BY <3>1, <3>2 DEF Hosts, TablesTypeOK
      <4> QED BY <3>1, <4>1, <4>2, <4>3 DEF TablesTypeOK
    <3>4. FdSetsTypeOK' /\ MaxCovers'
      BY <3>1 DEF FdSetsTypeOK, MaxCovers, fdSets, TablesInv
    <3>5. Hosts' = Hosts /\ Socks' = Socks
      BY <3>1 DEF Hosts, Socks
    <3>6. ForwardConsistent' /\ TablesAgree'
      BY <3>1, <3>5 DEF TablesInv, ForwardConsistent, TablesAgree, EntryOf
    <3>7. DescriptorsAccounted'
      BY <3>1, <3>2, <3>5 DEF TablesInv, DescriptorsAccounted, fdSets, Running
    <3> QED BY <3>3, <3>4, <3>6, <3>7 DEF TablesInv
  <2> QED BY <1>6, <2>2, <2>3, <2>4, <2>5, <2>6 DEF ClientStep
<1>7. ASSUME NEW h \in Fd, HostStep(h)
      PROVE  Goal
  <2>1. pc = "scan" /\ Running
    BY <1>7 DEF HostStep, HostEof, HostRead, Flush, WriteFails, HostTurn, ReadTurn, WriteTurn,
                Here, Running, Crashed
  <2>2. CASE HostEof(h)
    BY <2>1, <2>2, CloseHostKeeps DEF HostEof, HostTurn
  <2>3. CASE HostRead(h)
    BY <1>1, <2>1, <2>3 DEF HostRead
  <2>4. CASE Flush(h)
    <3>1. /\ pending' = pending \ {h}
          /\ UNCHANGED <<clientMap, clientAge, sMap, sockAge, h2lMap, hostAge, fdSets, pc, reused>>
      BY <2>4 DEF Flush
    <3>2. TablesTypeOK' /\ FdSetsTypeOK' /\ MaxCovers'
      BY <3>1 DEF TablesTypeOK, FdSetsTypeOK, MaxCovers, fdSets, TablesInv
    <3>3. Hosts' = Hosts /\ Socks' = Socks
      BY <3>1 DEF Hosts, Socks
    <3>4. ForwardConsistent' /\ TablesAgree'
      BY <3>1, <3>3 DEF TablesInv, ForwardConsistent, TablesAgree, EntryOf
    <3>5. DescriptorsAccounted'
      BY <3>1, <3>3 DEF TablesInv, DescriptorsAccounted, fdSets, Running
    <3> QED BY <3>2, <3>4, <3>5 DEF TablesInv
  <2>5. CASE WriteFails(h)
    <3>1. h \in Hosts
      BY <2>5 DEF WriteFails, TablesInv, DescriptorsAccounted
    <3> QED BY <2>1, <2>5, <3>1, CloseHostKeeps DEF WriteFails
  <2> QED BY <1>7, <2>2, <2>3, <2>4, <2>5 DEF HostStep
<1>8. ASSUME NEW fd \in Fd, ReadUnknown(fd) \/ WriteSkip(fd)
      PROVE  Goal
  BY <1>1, <1>8 DEF ReadUnknown, WriteSkip, ReadTurn, WriteTurn, Here, Running, Crashed
<1>9. CASE SendSucceeds
  BY <1>9, SendKeeps
<1>10. CASE ReplyFails
  <2>1. out.to \in clientMap /\ Running
    BY <1>10 DEF ReplyFails, LoopInv, SendInStep, Running, Crashed
  <2> QED BY <1>10, <2>1, DropClientKeeps DEF ReplyFails
<1>11. CASE TrafficFails \/ SendToNobody \/ CleanFindsNobody
  BY <1>11, DiesKeeps DEF TrafficFails, SendToNobody, CleanFindsNobody, Crashed
<1>12. CASE Clean
  BY <1>12, CleanKeeps
<1>13. CASE Exit
  <2>1. pc = "exit" /\ pc' = "done" /\ open' = open \ ClosedAtExit
        /\ UNCHANGED <<tables, readSet, writeSet, maxRead, maxWrite, maxAll, reused>>
    BY <1>13 DEF Exit
  <2>2. TablesTypeOK' /\ FdSetsTypeOK' /\ MaxCovers'
    BY <2>1 DEF tables, TablesTypeOK, FdSetsTypeOK, MaxCovers, TablesInv
  <2>3. Hosts' = Hosts /\ Socks' = Socks
    BY <2>1 DEF tables, Hosts, Socks
  <2>4. ForwardConsistent' /\ TablesAgree' /\ DescriptorsAccounted'
    BY <2>1, <2>3 DEF TablesInv, ForwardConsistent, TablesAgree, EntryOf, tables,
                      DescriptorsAccounted, Running
  <2> QED BY <2>2, <2>4 DEF TablesInv
<1>14. CASE Tick
  <2>1. UNCHANGED <<clientMap, sMap, h2lMap, pending, fdSets, pc, reused>> /\ Running
    BY <1>14 DEF Tick
  <2>2. clientAge' \in [Fd -> 0 .. ClientTimeOut + 1]
    BY <1>14, TimeOutAssumption DEF Tick, Older, TablesTypeOK
  <2>3. hostAge' \in [Fd -> 0 .. SocketTimeOut + 1]
    BY <1>14, TimeOutAssumption DEF Tick, Older, TablesTypeOK
  <2>4. sockAge' \in [Fd -> [LocalFd -> 0 .. SocketTimeOut + 1]]
    BY <1>14, TimeOutAssumption DEF Tick, Older, TablesTypeOK
  <2>5. TablesTypeOK'
    BY <2>1, <2>2, <2>3, <2>4 DEF TablesTypeOK
  <2> QED BY <2>1, <2>5, SameTables
<1>15. CASE UNCHANGED vars
  <2>1. UNCHANGED <<clientMap, clientAge, sMap, sockAge, h2lMap, hostAge, pending, open, readSet,
                    writeSet, maxRead, maxWrite, maxAll, pc, reused>>
    BY <1>15 DEF vars, tables, fdSets
  <2>2. Hosts' = Hosts /\ Socks' = Socks
    BY <2>1 DEF Hosts, Socks
  <2> QED BY <2>1, <2>2 DEF TablesTypeOK, FdSetsTypeOK, TablesInv, ForwardConsistent,
                            DescriptorsAccounted, MaxCovers, TablesAgree, EntryOf, Running
<1>16. CASE Stopped \/ SelectTimesOut
  BY <1>15, <1>16 DEF Stopped, SelectTimesOut
<1> HIDE DEF Goal
<1> QED BY <1>3, <1>4, <1>5, <1>6, <1>7, <1>8, <1>9, <1>10, <1>11, <1>12, <1>13, <1>14,
           <1>15, <1>16
        DEF Next, Loop, AcceptStep, PassStep, ScanStep, SendStep, Goal

-----------------------------------------------------------------------------
(* Every step keeps what holds at the thread's place in the loop.          *)

\* At the turn of another descriptor, and when the scan is over, listen_sd has
\* had its turn: it is the lowest.
LEMMA ListenHadItsTurn ==
    ASSUME IInv
    PROVE  /\ \A fd \in Fd : Here(fd) => pc = "scan" /\ ListenSd \notin working
           /\ PassDone => pc = "scan" /\ ListenSd \notin working
<1>1. ListenSd \in working => ListenSd \in Remaining
  BY FdFacts DEF IInv, TypeOK, FdSetsTypeOK, Remaining
<1>2. ASSUME NEW fd \in Fd, Here(fd)
      PROVE  ListenSd \notin working
  BY <1>1, <1>2, FdFacts DEF Here
<1> QED BY <1>1, <1>2 DEF Here, PassDone

LEMMA MessageTypes ==
    /\ NoMsg \in Message
    /\ \A c \in Fd, l \in LocalFd \cup {NoLocal}, ok \in BOOLEAN :
          Reply(c, l, ok) \in Message /\ Reply(c, l, ok) # NoMsg
    /\ \A c \in Fd, l \in LocalFd \cup {NoLocal}, h \in Fd, closing \in BOOLEAN :
          Traffic(c, l, h, closing) \in Message /\ Traffic(c, l, h, closing) # NoMsg
  BY DEF Message, NoMsg, Reply, Traffic

\* Steps of the scan that send nothing: they close or keep, and go on or crash.
LEMMA QuietStep ==
    ASSUME IInv, pc = "scan", ListenSd \notin working,
           pc' \in {"scan", "noclient"}, pc' = "noclient" => reused',
           working' \subseteq working, tempWrite' \subseteq tempWrite,
           clientMap' \subseteq clientMap,
           UNCHANGED <<endServer, out, reused, fresh>>
    PROVE  LoopTypeOK' /\ LoopInv'
<1> USE DEF IInv, TypeOK
<1>1. LoopTypeOK'
  BY DEF LoopTypeOK, Locations, Crashed
<1>2. ClientFound' /\ SendInStep'
  BY DEF ClientFound, SendInStep
<1>3. OnlyReadyClientsAreRead' /\ ListenComesFirst'
  BY DEF LoopInv, OnlyReadyClientsAreRead, ListenComesFirst
<1> QED BY <1>1, <1>2, <1>3 DEF LoopInv

\* Steps of the scan that call sendData.
LEMMA CallStep ==
    ASSUME IInv, pc = "scan", ListenSd \notin working, pc' = "send",
           working' \subseteq working, tempWrite' = tempWrite, clientMap' = clientMap,
           out' \in Message, out' # NoMsg, SendInStep', reused' \in BOOLEAN, endServer' = endServer,
           fresh' \subseteq Fd, fresh' \cap clientMap \subseteq fresh
    PROVE  LoopTypeOK' /\ LoopInv'
<1> USE DEF IInv, TypeOK
<1>1. LoopTypeOK'
  BY DEF LoopTypeOK, Locations
<1>2. ClientFound'
  BY DEF ClientFound
<1>3. OnlyReadyClientsAreRead' /\ ListenComesFirst'
  BY DEF LoopInv, OnlyReadyClientsAreRead, ListenComesFirst
<1> QED BY <1>1, <1>2, <1>3 DEF LoopInv

LEMMA LoopStep ==
    ASSUME IInv, [Next]_vars
    PROVE  LoopTypeOK' /\ LoopInv'
<1> DEFINE Goal == LoopTypeOK' /\ LoopInv'
<1> USE DEF IInv, TypeOK
<1>1. CASE Select
  <2>1. PICK r \in SUBSET readSet, w \in SUBSET writeSet : working' = r /\ tempWrite' = w
    BY <1>1 DEF Select
  <2>2. pc = "select" /\ pc' = "scan" /\ fresh = {}
        /\ UNCHANGED <<readSet, endServer, out, reused, fresh>>
    BY <1>1 DEF Select, LoopInv, ListenComesFirst, fdSets
  <2>3. LoopTypeOK'
    BY <2>1, <2>2 DEF LoopTypeOK, Locations, FdSetsTypeOK
  <2>4. LoopInv'
    BY <2>1, <2>2 DEF LoopInv, ClientFound, SendInStep, OnlyReadyClientsAreRead, ListenComesFirst
  <2> QED BY <2>3, <2>4
<1>2. CASE SelectFails
  BY <1>2 DEF SelectFails, scan, LoopTypeOK, Locations, LoopInv, ClientFound, SendInStep,
              OnlyReadyClientsAreRead, ListenComesFirst
<1>3. CASE Listen
  <2>1. /\ pc = "scan" /\ pc' = "accept" /\ ListenSd \in working
        /\ working' = working \ {ListenSd} /\ tempWrite' = tempWrite
        /\ UNCHANGED <<clientMap, readSet, endServer, out, reused, fresh>>
    BY <1>3 DEF Listen, ReadTurn, Here, ReadDone, tables, fdSets
  <2>2. LoopTypeOK'
    BY <2>1 DEF LoopTypeOK, Locations
  <2>3. LoopInv'
    BY <2>1 DEF LoopInv, ClientFound, SendInStep, OnlyReadyClientsAreRead, ListenComesFirst
  <2> QED BY <2>2, <2>3
<1>4. CASE AcceptClient
  <2>1. PICK new \in Fd :
          /\ LowestFree(new)
          /\ readSet' = readSet \cup {new}
          /\ clientMap' = clientMap \cup {new}
          /\ fresh' = fresh \cup {new}
    BY <1>4 DEF AcceptClient
  <2>2. pc = "accept" /\ UNCHANGED <<working, tempWrite, endServer, out, pc, reused>>
    BY <1>4 DEF AcceptClient, scan
  <2>3. new \notin working
    BY <2>1, <2>2 DEF LowestFree, LoopInv, ListenComesFirst, TablesInv, DescriptorsAccounted,
                      Running, Crashed
  <2>4. LoopTypeOK'
    BY <2>1, <2>2 DEF LoopTypeOK
  <2>5. LoopInv'
    BY <2>1, <2>2, <2>3 DEF LoopInv, ClientFound, SendInStep, OnlyReadyClientsAreRead,
                            ListenComesFirst
  <2> QED BY <2>4, <2>5
<1>5. CASE AcceptHandshakeFails \/ AcceptAgain \/ AcceptFails
  <2>1. /\ pc = "accept" /\ pc' \in {"accept", "scan"} /\ endServer' \in {endServer, TRUE}
        /\ UNCHANGED <<clientMap, readSet, working, tempWrite, out, reused, fresh>>
    BY <1>5 DEF AcceptHandshakeFails, AcceptAgain, AcceptFails, tables, fdSets, scan
  <2>2. LoopTypeOK'
    BY <2>1 DEF LoopTypeOK, Locations
  <2>3. LoopInv'
    BY <2>1 DEF LoopInv, ClientFound, SendInStep, OnlyReadyClientsAreRead, ListenComesFirst
  <2> QED BY <2>2, <2>3
<1>6. ASSUME NEW c \in Fd, ClientStep(c)
      PROVE  Goal
  <2>1. /\ Here(c) /\ c \in clientMap /\ pc = "scan"
        /\ working' \subseteq working /\ tempWrite' = tempWrite
    BY <1>6 DEF ClientStep, ReceiveFails, Refuse, Ignore, ConnectFails, Connect, Upload,
                Received, ClientTurn, ReadTurn, ReadDone, Here
  <2>2. ListenSd \notin working
    BY <2>1, ListenHadItsTurn
  <2>3. CASE ReceiveFails(c)
    <3>1. /\ clientMap' \subseteq clientMap /\ pc' = pc
          /\ UNCHANGED <<endServer, out, reused, fresh>>
      BY <2>3 DEF ReceiveFails, DropClient, EraseFromTables
    <3> QED BY <2>1, <2>2, <3>1, QuietStep
  <2>4. CASE Ignore(c) \/ \E l \in LocalFd : Upload(c, l)
    <3>1. UNCHANGED <<clientMap, pc, endServer, out, reused, fresh>>
      BY <2>4 DEF Ignore, Upload
    <3> QED BY <2>1, <2>2, <3>1, QuietStep
  <2>5. ASSUME NEW l \in LocalFd \cup {NoLocal}, NEW ok \in BOOLEAN, out' = Reply(c, l, ok),
               pc' = "send", UNCHANGED <<clientMap, endServer>>, reused' \in BOOLEAN,
               fresh' \subseteq Fd, fresh' \cap clientMap \subseteq fresh
        PROVE  Goal
    <3>1. out' \in Message /\ out' # NoMsg
      BY <2>5, MessageTypes
    <3>2. SendInStep'
      BY <2>1, <2>5 DEF SendInStep, Reply
    <3> QED BY <2>1, <2>2, <2>5, <3>1, <3>2, CallStep
  <2>6. CASE Refuse(c)
    <3>1. /\ out' = Reply(c, NoLocal, FALSE) /\ pc' = "send"
          /\ UNCHANGED <<clientMap, endServer, reused, fresh>>
      BY <2>6 DEF Refuse
    <3> QED BY <2>5, <3>1 DEF LoopTypeOK
  <2>7. ASSUME NEW l \in LocalFd, ConnectFails(c, l)
        PROVE  Goal
    <3>1. /\ out' = Reply(c, l, FALSE) /\ pc' = "send"
          /\ UNCHANGED <<clientMap, endServer, reused, fresh>>
      BY <2>7 DEF ConnectFails
    <3> QED BY <2>5, <3>1 DEF LoopTypeOK
  <2>8. ASSUME NEW l \in LocalFd, Connect(c, l)
        PROVE  Goal
    <3>1. /\ out' = Reply(c, l, TRUE) /\ pc' = "send"
          /\ UNCHANGED <<clientMap, endServer>>
          /\ reused' = (reused \/ sMap[c][l] # NoFd)
      BY <2>8 DEF Connect
    <3>2. PICK new \in Fd : LowestFree(new) /\ fresh' = fresh \cup {new}
      BY <2>8 DEF Connect
    <3>3. new \notin clientMap
      BY <2>1, <3>2 DEF LowestFree, TablesInv, DescriptorsAccounted, Running, Crashed
    <3>4. reused' \in BOOLEAN /\ fresh' \subseteq Fd /\ fresh' \cap clientMap \subseteq fresh
      BY <3>1, <3>2, <3>3 DEF LoopTypeOK
    <3> QED BY <2>5, <3>1, <3>4
  <2> HIDE DEF Goal
  <2> QED BY <1>6, <2>3, <2>4, <2>6, <2>7, <2>8 DEF ClientStep, Goal
<1>7. ASSUME NEW h \in Fd, HostStep(h)
      PROVE  Goal
  <2>1. /\ Here(h) /\ pc = "scan"
        /\ working' \subseteq working /\ tempWrite' \subseteq tempWrite
    BY <1>7 DEF HostStep, HostEof, HostRead, Flush, WriteFails, HostTurn, ReadTurn, WriteTurn,
                ReadDone, WriteDone, Here
  <2>2. ListenSd \notin working
    BY <2>1, ListenHadItsTurn
  <2>3. CASE HostEof(h) \/ WriteFails(h)
    <3>1. h \in Hosts /\ CloseHost(h) /\ UNCHANGED <<endServer, out, reused, fresh>>
      BY <2>3 DEF HostEof, WriteFails, HostTurn, TablesInv, DescriptorsAccounted
    <3>2. pc' \in {"scan", "noclient"} /\ (pc' = "noclient" => reused)
      BY <2>1, <3>1, CloseHostKeeps
    <3>3. clientMap' \subseteq clientMap
      BY <3>1 DEF CloseHost, EraseFromTables, Dies
    <3> QED BY <2>1, <2>2, <3>1, <3>2, <3>3, QuietStep
  <2>4. CASE Flush(h)
    <3>1. UNCHANGED <<clientMap, pc, endServer, out, reused, fresh>>
      BY <2>4 DEF Flush
    <3> QED BY <2>1, <2>2, <3>1, QuietStep
  <2>5. CASE HostRead(h)
    <3> DEFINE c == EntryOf(h)[1]
               l == EntryOf(h)[2]
    <3>1. /\ h \in Hosts /\ pc' = "send" /\ tempWrite' = tempWrite
          /\ out' \in {Traffic(c, l, h, FALSE), Traffic(c, NoLocal, h, FALSE),
                       Traffic(c, NoLocal, h, TRUE)}
          /\ UNCHANGED <<clientMap, h2lMap, endServer, reused, fresh>>
      BY <2>5 DEF HostRead, HostTurn, ReadDone, tables
    <3>2. c \in Fd /\ l \in LocalFd /\ c = h2lMap[h].clientFd
      BY <3>1 DEF Hosts, TablesTypeOK, HostEntry, EntryOf
    <3> HIDE DEF c, l
    <3>3. out' \in Message /\ out' # NoMsg
      BY <3>1, <3>2, MessageTypes
    <3>4. out'.kind = "traffic" /\ out'.host = h /\ out'.to = c
      BY <3>1 DEF Traffic
    <3>5. SendInStep'
      BY <3>1, <3>2, <3>4 DEF SendInStep, Hosts, EntryOf
    <3>6. reused' \in BOOLEAN /\ fresh' \subseteq Fd /\ fresh' \cap clientMap \subseteq fresh
      BY <3>1 DEF LoopTypeOK
    <3> QED BY <2>1, <2>2, <3>1, <3>3, <3>5, <3>6, CallStep
  <2> QED BY <1>7, <2>3, <2>4, <2>5 DEF HostStep
<1>8. ASSUME NEW fd \in Fd, ReadUnknown(fd) \/ WriteSkip(fd)
      PROVE  Goal
  <2>1. /\ Here(fd) /\ pc = "scan"
        /\ working' \subseteq working /\ tempWrite' \subseteq tempWrite
        /\ UNCHANGED <<clientMap, pc, endServer, out, reused, fresh>>
    BY <1>8 DEF ReadUnknown, WriteSkip, ReadTurn, WriteTurn, ReadDone, WriteDone, Here, tables
  <2> QED BY <2>1, ListenHadItsTurn, QuietStep
<1>9. CASE SendStep
  <2>1. /\ pc = "send" /\ out' = NoMsg /\ pc' \in {"scan", "badindex", "noclient"}
        /\ clientMap' \subseteq clientMap
        /\ UNCHANGED <<working, tempWrite, endServer, reused, fresh>>
    BY <1>9 DEF SendStep, SendSucceeds, ReplyFails, TrafficFails, SendToNobody, DropClient,
                EraseFromTables, scan, tables, Dies
  <2>2. pc' = "noclient" => reused
    <3> SUFFICES ASSUME pc' = "noclient", ~reused
                 PROVE  FALSE
      OBVIOUS
    <3>1. out.to \notin clientMap
      BY <1>9 DEF SendStep, SendSucceeds, ReplyFails, TrafficFails, SendToNobody, Dies
    <3>2. out # NoMsg /\ out \in Message
      BY <2>1 DEF LoopTypeOK
    <3>3. out.kind \in {"reply", "traffic"}
      BY <3>2 DEF Message, NoMsg
    <3>4. out.host \in Hosts /\ out.to = EntryOf(out.host)[1]
      BY <2>1, <3>1, <3>3 DEF LoopInv, SendInStep
    <3> QED BY <3>1, <3>4, HostsAreReached
  <2>3. ListenSd \notin working
    BY <2>1 DEF LoopInv, ListenComesFirst
  <2>4. LoopTypeOK'
    BY <2>1, MessageTypes DEF LoopTypeOK, Locations, Crashed
  <2>5. LoopInv'
    BY <2>1, <2>2, <2>3 DEF LoopInv, ClientFound, SendInStep, OnlyReadyClientsAreRead,
                            ListenComesFirst
  <2> QED BY <2>4, <2>5
<1>10. CASE Clean
  <2>1. /\ pc = "scan" /\ pc' \in {"select", "exit"}
        /\ working' = {} /\ tempWrite' = {} /\ fresh' = {}
        /\ UNCHANGED <<endServer, out, reused>>
    BY <1>10 DEF Clean, PassDone, AfterPass
  <2>2. LoopTypeOK'
    BY <2>1 DEF LoopTypeOK, Locations
  <2>3. LoopInv'
    BY <2>1 DEF LoopInv, ClientFound, SendInStep, OnlyReadyClientsAreRead, ListenComesFirst
  <2> QED BY <2>2, <2>3
<1>11. CASE CleanFindsNobody
  <2>1. /\ PassDone /\ pc' = "noclient" /\ clientMap' = {}
        /\ UNCHANGED <<working, tempWrite, endServer, out, reused, fresh>>
    BY <1>11 DEF CleanFindsNobody, scan, Dies
  <2>2. reused
    <3> SUFFICES ASSUME ~reused
                 PROVE  FALSE
      OBVIOUS
    <3>1. PICK h \in DeadHosts : EntryOf(h)[1] \notin clientMap \ DeadClients
      BY <1>11 DEF CleanFindsNobody
    <3> DEFINE c == EntryOf(h)[1]
               l == EntryOf(h)[2]
    <3>2. h \in Hosts /\ h \notin HostsAt(DeadSocks)
      BY <3>1 DEF DeadHosts
    <3>3. c \in clientMap /\ <<c, l>> \in Socks /\ l \in LocalFd /\ sMap[c][l] = h
      BY <3>2, HostsAreReached, SockFacts
    <3>4. c \in DeadClients
      BY <3>1, <3>3
    <3>5. <<c, l>> \in DeadSocks /\ DeadSocks \in SUBSET Socks
      BY <3>3, <3>4 DEF DeadSocks
    <3> QED BY <3>2, <3>3, <3>5, SockFacts
  <2> QED BY <2>1, <2>2, ListenHadItsTurn, QuietStep
<1>12. CASE Exit
  BY <1>12 DEF Exit, scan, LoopTypeOK, Locations, LoopInv, ClientFound, SendInStep,
               OnlyReadyClientsAreRead, ListenComesFirst, tables
<1>13. CASE Tick
  <2>1. UNCHANGED <<clientMap, h2lMap, readSet, working, tempWrite, endServer, out, pc, reused, fresh>>
    BY <1>13 DEF Tick, fdSets, scan
  <2>2. LoopTypeOK'
    BY <2>1 DEF LoopTypeOK
  <2>3. LoopInv'
    BY <2>1 DEF LoopInv, ClientFound, SendInStep, OnlyReadyClientsAreRead, ListenComesFirst,
                Hosts, EntryOf
  <2> QED BY <2>2, <2>3
<1>14. CASE UNCHANGED vars
  <2>1. UNCHANGED <<clientMap, h2lMap, readSet, working, tempWrite, endServer, out, pc, reused, fresh>>
    BY <1>14 DEF vars, tables, fdSets, scan
  <2>2. LoopTypeOK'
    BY <2>1 DEF LoopTypeOK
  <2>3. LoopInv'
    BY <2>1 DEF LoopInv, ClientFound, SendInStep, OnlyReadyClientsAreRead, ListenComesFirst,
                Hosts, EntryOf
  <2> QED BY <2>2, <2>3
<1>15. CASE Stopped \/ SelectTimesOut
  BY <1>14, <1>15 DEF Stopped, SelectTimesOut
<1> HIDE DEF Goal
<1> QED BY <1>1, <1>2, <1>3, <1>4, <1>5, <1>6, <1>7, <1>8, <1>9, <1>10, <1>11, <1>12, <1>13,
           <1>14, <1>15
        DEF Next, Loop, AcceptStep, PassStep, ScanStep, Goal

-----------------------------------------------------------------------------
(* The theorems.                                                           *)

LEMMA InitInv == Init => IInv
<1> SUFFICES ASSUME Init PROVE IInv
  OBVIOUS
<1> USE FdFacts DEF Init
<1>1. TablesTypeOK
  BY TimeOutAssumption DEF TablesTypeOK
<1>2. FdSetsTypeOK
  BY DEF FdSetsTypeOK
<1>3. LoopTypeOK
  BY MessageTypes DEF LoopTypeOK, Locations
<1>4. Hosts = {}
  BY DEF Hosts
<1>5. TablesInv
  BY <1>4 DEF TablesInv, ForwardConsistent, DescriptorsAccounted, MaxCovers, TablesAgree, Larger,
              Running
<1>6. LoopInv
  BY DEF LoopInv, ClientFound, SendInStep, OnlyReadyClientsAreRead, ListenComesFirst, NoMsg
<1> QED BY <1>1, <1>2, <1>3, <1>5, <1>6 DEF IInv, TypeOK

\* The invariant that carries all the others, for every set of descriptors,
\* number of clients and timeout.
THEOREM Inductive == Spec => []IInv
<1>1. IInv /\ [Next]_vars => IInv'
  BY TablesStep, LoopStep DEF IInv, TypeOK
<1> QED BY InitInv, <1>1, PTL DEF Spec

\* The variables keep the types launch_server's locals and maps have.
THEOREM TypeCorrect == Spec => []TypeOK
<1>1. IInv => TypeOK
  BY DEF IInv
<1> QED BY <1>1, Inductive, PTL

\* A SocketMap entry leads to a host of the same client and localFd, for ever.
THEOREM ForwardAlwaysConsistent == Spec => []ForwardConsistent
<1>1. IInv => ForwardConsistent
  BY DEF IInv, TablesInv
<1> QED BY <1>1, Inductive, PTL

\* No socket leaks, none is closed under a table, none is left out of the sets.
THEOREM DescriptorsAlwaysAccounted == Spec => []DescriptorsAccounted
<1>1. IInv => DescriptorsAccounted
  BY DEF IInv, TablesInv
<1> QED BY <1>1, Inductive, PTL

\* select and the scan reach every socket.
THEOREM MaximaAlwaysCover == Spec => []MaxCovers
<1>1. IInv => MaxCovers
  BY DEF IInv, TablesInv
<1> QED BY <1>1, Inductive, PTL

\* Without a replaced entry every host is reached through its own client.
THEOREM TablesAlwaysAgree == Spec => []TablesAgree
<1>1. IInv => TablesAgree
  BY DEF IInv, TablesInv
<1> QED BY <1>1, Inductive, PTL

\* Without a replaced entry no look-up of a host's client comes back empty.
THEOREM ClientAlwaysFound == Spec => []ClientFound
<1>1. IInv => ClientFound
  BY DEF IInv, LoopInv
<1> QED BY <1>1, Inductive, PTL

\* The scan reads no client that select did not report.
THEOREM OnlyReadyClientsAreEverRead == Spec => []OnlyReadyClientsAreRead
<1>1. IInv => OnlyReadyClientsAreRead
  BY DEF IInv, LoopInv
<1> QED BY <1>1, Inductive, PTL

-----------------------------------------------------------------------------
(* Who is dropped, and that all is closed in the end.                      *)

\* Only a client's own turn, its own reply, or its age drops it; only its own
\* turn, its client, or its age closes a host.
LEMMA IsolationStep ==
    ASSUME IInv, [Next]_vars
    PROVE  \/ pc' \in Crashed
           \/ /\ \A c \in clientMap \ clientMap' : DroppedForCause(c)
              /\ \A h \in Hosts \ Hosts' : CutForCause(h)
<1> DEFINE Goal == \/ pc' \in Crashed
                   \/ /\ \A c \in clientMap \ clientMap' : DroppedForCause(c)
                      /\ \A h \in Hosts \ Hosts' : CutForCause(h)
<1> USE DEF IInv, TypeOK
<1>1. ASSUME clientMap \subseteq clientMap', Hosts \subseteq Hosts'
      PROVE  Goal
  BY <1>1
<1>2. ASSUME UNCHANGED <<clientMap, h2lMap>>
      PROVE  Goal
  BY <1>2 DEF Hosts
\* Closing one host.
<1>3. ASSUME NEW h \in Hosts, EraseFromTables({h}, {EntryOf(h)}, {}), CutForCause(h)
      PROVE  Goal
  <2>1. clientMap' = clientMap \ {} /\ Hosts' = Hosts \ {h}
    BY <1>3, ErasedKeys
  <2> QED BY <1>3, <2>1
<1>close. ASSUME NEW h \in Hosts, CloseHost(h),
             h \in (working \ working') \cup (tempWrite \ tempWrite')
      PROVE  Goal
  <2>1. CutForCause(h)
    BY <1>close DEF CutForCause
  <2>2. CASE EraseFromTables({h}, {EntryOf(h)}, {})
    BY <1>3, <2>1, <2>2
  <2>3. CASE Dies("noclient")
    BY <2>3 DEF Dies, Crashed
  <2> QED BY <1>close, <2>2, <2>3 DEF CloseHost
\* Dropping one client.
<1>4. ASSUME NEW c \in clientMap, DropClient(c), DroppedForCause(c)
      PROVE  Goal
  <2>1. clientMap' = clientMap \ {c} /\ Hosts' = Hosts \ HostsAt(SocksOf(c))
    BY <1>4, ErasedKeys DEF DropClient
  <2>2. ASSUME NEW h \in HostsAt(SocksOf(c))
        PROVE  EntryOf(h)[1] = c
    <3>1. PICK d \in clientMap, l \in LocalFd : <<d, l>> \in SocksOf(c) /\ sMap[d][l] = h
      BY SockFacts DEF SocksOf
    <3>2. d = c /\ sMap[d][l] # NoFd
      BY <3>1 DEF SocksOf, Socks
    <3> QED BY <3>1, <3>2, EntriesAreOwn
  <2> QED BY <1>4, <2>1, <2>2 DEF CutForCause
<1>5. CASE Select \/ SelectFails \/ Listen \/ AcceptHandshakeFails \/ AcceptAgain \/ AcceptFails
           \/ Exit \/ Tick \/ UNCHANGED vars
  <2>1. UNCHANGED <<clientMap, h2lMap>>
    BY <1>5 DEF Select, SelectFails, Listen, AcceptHandshakeFails, AcceptAgain, AcceptFails,
                Exit, Tick, vars, tables
  <2> QED BY <1>2, <2>1
\* The process dies.
<1>dies. CASE TrafficFails \/ SendToNobody \/ CleanFindsNobody
  BY <1>dies DEF TrafficFails, SendToNobody, CleanFindsNobody, Dies, Crashed
<1>6. CASE AcceptClient
  <2>1. clientMap \subseteq clientMap' /\ h2lMap' = h2lMap
    BY <1>6 DEF AcceptClient
  <2> QED BY <1>1, <2>1 DEF Hosts
<1>7. ASSUME NEW c \in Fd, ClientStep(c)
      PROVE  Goal
  <2>1. CASE ReceiveFails(c)
    <3>1. c \in clientMap /\ DropClient(c) /\ c \in working \ working'
      BY <2>1 DEF ReceiveFails, ClientTurn, ReadTurn, ReadDone
    <3> QED BY <1>4, <3>1 DEF DroppedForCause
  <2>2. CASE Refuse(c) \/ Ignore(c) \/ \E l \in LocalFd : ConnectFails(c, l) \/ Upload(c, l)
    <3>1. UNCHANGED <<clientMap, h2lMap>>
      BY <2>2 DEF Refuse, Ignore, ConnectFails, Upload
    <3> QED BY <1>2, <3>1
  <2>3. ASSUME NEW l \in LocalFd, Connect(c, l)
        PROVE  Goal
    <3>1. PICK new \in Fd : h2lMap' = [h2lMap EXCEPT ![new] = [clientFd |-> c, localFd |-> l]]
      BY <2>3 DEF Connect
    <3>2. [clientFd |-> c, localFd |-> l] # NoHost
      BY AbsentAssumption DEF HostEntry
    <3>3. Hosts \subseteq Hosts'
      BY <3>1, <3>2 DEF Hosts, TablesTypeOK
    <3>4. clientMap' = clientMap
      BY <2>3 DEF Connect
    <3> QED BY <1>1, <3>3, <3>4
  <2> HIDE DEF Goal
  <2> QED BY <1>7, <2>1, <2>2, <2>3 DEF ClientStep
<1>8. ASSUME NEW h \in Fd, HostStep(h)
      PROVE  Goal
  <2>1. CASE HostEof(h)
    <3>1. h \in Hosts /\ CloseHost(h) /\ h \in working \ working'
      BY <2>1 DEF HostEof, HostTurn, ReadTurn, ReadDone
    <3> QED BY <1>close, <3>1
  <2>2. CASE WriteFails(h)
    <3>1. h \in Hosts /\ CloseHost(h)
      BY <2>2 DEF WriteFails, TablesInv, DescriptorsAccounted
    <3>2. h \in tempWrite \ tempWrite'
      BY <2>2 DEF WriteFails, WriteTurn, WriteDone, Here, Remaining
    <3> QED BY <1>close, <3>1, <3>2
  <2>3. CASE HostRead(h) \/ Flush(h)
    <3>1. UNCHANGED <<clientMap, h2lMap>>
      BY <2>3 DEF HostRead, Flush, tables
    <3> QED BY <1>2, <3>1
  <2> HIDE DEF Goal
  <2> QED BY <1>8, <2>1, <2>2, <2>3 DEF HostStep
<1>9. ASSUME NEW fd \in Fd, ReadUnknown(fd) \/ WriteSkip(fd)
      PROVE  Goal
  BY <1>2, <1>9 DEF ReadUnknown, WriteSkip, tables
<1>10. CASE SendSucceeds
  <2>1. CASE out.kind = "traffic" /\ out.closing
    <3>1. EraseFromTables({out.host}, {EntryOf(out.host)}, {}) /\ pc = "send"
      BY <1>10, <2>1 DEF SendSucceeds
    <3>2. out.host \in Hosts /\ CutForCause(out.host)
      BY <2>1, <3>1 DEF LoopInv, SendInStep, CutForCause
    <3> QED BY <1>3, <3>1, <3>2
  <2>2. CASE ~(out.kind = "traffic" /\ out.closing)
    BY <1>2, <1>10, <2>2 DEF SendSucceeds
  <2> QED BY <2>1, <2>2
<1>11. CASE ReplyFails
  <2>1. out.to \in clientMap /\ DropClient(out.to) /\ pc = "send"
    BY <1>11 DEF ReplyFails, LoopInv, SendInStep
  <2> QED BY <1>4, <2>1 DEF DroppedForCause
<1>12. CASE Clean
  <2>1. /\ clientMap' = clientMap \ DeadClients
        /\ Hosts' = Hosts \ (HostsAt(DeadSocks) \cup DeadHosts)
    BY <1>12, ErasedKeys DEF Clean
  <2>2. \A c \in DeadClients : DroppedForCause(c)
    BY DEF DeadClients, DroppedForCause
  <2>3. \A h \in DeadHosts : CutForCause(h)
    BY DEF DeadHosts, CutForCause
  <2>4. ASSUME NEW h \in HostsAt(DeadSocks)
        PROVE  CutForCause(h)
    <3>1. DeadSocks \in SUBSET Socks
      BY DEF DeadSocks
    <3>2. PICK c \in clientMap, l \in LocalFd : <<c, l>> \in DeadSocks /\ sMap[c][l] = h
      BY <3>1, SockFacts
    <3>3. sMap[c][l] # NoFd /\ (c \in DeadClients \/ sockAge[c][l] > SocketTimeOut)
      BY <3>2 DEF DeadSocks, Socks
    <3>4. EntryOf(h) = <<c, l>>
      BY <3>2, <3>3, EntriesAreOwn
    <3> QED BY <2>1, <3>3, <3>4 DEF CutForCause
  <2> QED BY <2>1, <2>2, <2>3, <2>4
<1>13. CASE Stopped \/ SelectTimesOut
  BY <1>5, <1>13 DEF Stopped, SelectTimesOut
<1> HIDE DEF Goal
<1> QED BY <1>5, <1>dies, <1>6, <1>7, <1>8, <1>9, <1>10, <1>11, <1>12, <1>13
        DEF Next, Loop, AcceptStep, PassStep, ScanStep, SendStep, Goal

\* A step that comes to a null pointer is a failed send of traffic, or one of those
\* that look up a host's client, which is there unless an entry was replaced.
LEMMA DeathStep ==
    ASSUME IInv, [Next]_vars, pc' \in Crashed
    PROVE  DiesForCause \/ UNCHANGED vars
<1>1. CASE TrafficFails
  BY <1>1 DEF TrafficFails, DiesForCause
<1>2. ASSUME pc' = "noclient", reused' = reused
      PROVE  DiesForCause
  BY <1>2, LoopStep DEF LoopInv, ClientFound, DiesForCause
<1>3. CASE SendToNobody \/ CleanFindsNobody
  BY <1>2, <1>3 DEF SendToNobody, CleanFindsNobody, Dies
<1>4. ASSUME NEW h \in Fd, HostEof(h) \/ WriteFails(h)
      PROVE  DiesForCause
  <2>1. CloseHost(h) /\ reused' = reused
    BY <1>4 DEF HostEof, WriteFails
  <2>2. pc' = "noclient"
    BY <2>1 DEF CloseHost, Dies, Crashed
  <2> QED BY <1>2, <2>1, <2>2
<1>5. ~(Select \/ SelectFails \/ AcceptStep \/ Exit \/ Listen \/ SendSucceeds \/ ReplyFails \/ Clean)
  BY DEF Select, SelectFails, AcceptStep, AcceptClient, AcceptHandshakeFails, AcceptAgain,
         AcceptFails, Exit, Listen, SendSucceeds, ReplyFails, Clean, AfterPass, Crashed
<1>6. ASSUME NEW c \in Fd, ClientStep(c)
      PROVE  FALSE
  BY <1>6 DEF ClientStep, ReceiveFails, Refuse, Ignore, ConnectFails, Connect, Upload,
              Received, ClientTurn, ReadTurn, Here, Crashed
<1>7. ASSUME NEW h \in Fd, HostRead(h) \/ Flush(h) \/ ReadUnknown(h) \/ WriteSkip(h)
      PROVE  FALSE
  BY <1>7 DEF HostRead, Flush, ReadUnknown, WriteSkip, HostTurn, ReadTurn, WriteTurn, Here, Crashed
<1>8. CASE SelectTimesOut \/ Stopped
  BY <1>8 DEF SelectTimesOut, Stopped
<1>9. CASE Tick
  BY <1>9 DEF Tick, Running
<1> QED BY <1>1, <1>3, <1>4, <1>5, <1>6, <1>7, <1>8, <1>9
        DEF Next, Loop, PassStep, ScanStep, SendStep, HostStep

\* While the process lives nobody's connection ends through another's error, and the
\* process, which takes every tunnel with it, dies only of a failed send of traffic
\* to one client or after a client opened a localFd twice.
THEOREM TunnelsAlwaysIsolated == Spec => TunnelsIsolated
<1> DEFINE Step ==
             /\ pc' \in Crashed => DiesForCause
             /\ pc' \notin Crashed =>
                   /\ \A c \in clientMap \ clientMap' : DroppedForCause(c)
                   /\ \A h \in Hosts \ Hosts' : CutForCause(h)
<1>1. IInv /\ [Next]_vars => [Step]_vars
  BY IsolationStep, DeathStep
<1> QED BY <1>1, Inductive, PTL DEF Spec, TunnelsIsolated

\* launch_server returns only after closing every socket it had.
THEOREM EverythingIsClosed == Spec => []EverythingClosed
<1>1. Init => EverythingClosed
  BY DEF Init, EverythingClosed
<1>2. IInv /\ EverythingClosed /\ [Next]_vars => EverythingClosed'
  <2> SUFFICES ASSUME IInv, EverythingClosed, [Next]_vars, pc' = "done"
               PROVE  open' = {}
    BY DEF EverythingClosed
  <2>1. CASE Exit
    <3>1. open = readSet /\ \A fd \in readSet : fd <= maxRead
      BY <2>1 DEF Exit, IInv, TablesInv, DescriptorsAccounted, MaxCovers, Running, Crashed
    <3> QED BY <2>1, <3>1 DEF Exit, ClosedAtExit
  <2>2. CASE pc = "done" /\ UNCHANGED vars
    BY <2>2 DEF vars, fdSets, EverythingClosed
  <2>3. Exit \/ (pc = "done" /\ UNCHANGED vars)
    <3>1. CASE Loop
      <4>1. CASE Select \/ SelectFails \/ AcceptStep
        BY <4>1 DEF Select, SelectFails, AcceptStep, AcceptClient, AcceptHandshakeFails,
                    AcceptAgain, AcceptFails
      <4>2. CASE Listen \/ SendStep \/ Clean \/ CleanFindsNobody
        BY <4>2 DEF Listen, SendStep, SendSucceeds, ReplyFails, TrafficFails, SendToNobody, Clean,
                    AfterPass, CleanFindsNobody, Dies
      <4>3. ASSUME NEW fd \in Fd, ClientStep(fd)
            PROVE  pc' # "done"
        BY <4>3 DEF ClientStep, ReceiveFails, Refuse, Ignore, ConnectFails, Connect, Upload,
                    Received, ClientTurn, ReadTurn, Here
      <4>4. ASSUME NEW fd \in Fd, HostStep(fd) \/ ReadUnknown(fd) \/ WriteSkip(fd)
            PROVE  pc' # "done"
        BY <4>4 DEF HostStep, HostEof, HostRead, Flush, WriteFails, CloseHost, ReadUnknown,
                    WriteSkip, HostTurn, ReadTurn, WriteTurn, Here, Dies
      <4>5. CASE Stopped \/ SelectTimesOut
        BY <4>5 DEF Stopped, SelectTimesOut, vars
      <4> QED BY <3>1, <4>1, <4>2, <4>3, <4>4, <4>5 DEF Loop, PassStep, ScanStep
    <3>2. CASE Tick
      BY <3>2 DEF Tick, Running
    <3>3. CASE UNCHANGED vars
      BY <3>3 DEF vars
    <3> QED BY <3>1, <3>2, <3>3 DEF Next
  <2> QED BY <2>1, <2>2, <2>3
<1> QED BY <1>1, <1>2, Inductive, PTL DEF Spec
=============================================================================
