---------------------------- MODULE RelayProofs ----------------------------
(***************************************************************************)
(* Proofs about a session as a whole: for any number of users, any set of  *)
(* localFds from 2 to 255 and tunnels of any size, no user gets another's  *)
(* data and no answer is lost as long as no localFd is given on while it   *)
(* is in use.                                                              *)
(*                                                                         *)
(* Which data a queue may hold is said by Numbered, OnlyOf and Leads; how  *)
(* they pass an Append and a Tail comes first.  A step then is one user's: *)
(* for the others nothing the invariant looks at changes (Quiet, FdFrame), *)
(* because nobody else has a claim to the number in the message.           *)
(***************************************************************************)
EXTENDS Relay, SequenceTheorems, TLAPS

-----------------------------------------------------------------------------
(* Sequences as queues.                                                    *)

\* A queue and one message more.
LEMMA AppendQueue ==
    ASSUME NEW S, NEW q \in Seq(S), NEW m \in S
    PROVE  /\ Append(q, m) \in Seq(S)
           /\ Len(q) \in Nat
           /\ Len(Append(q, m)) = Len(q) + 1
           /\ \A i \in 1 .. Len(q) : Append(q, m)[i] = q[i]
           /\ Append(q, m)[Len(q) + 1] = m
OBVIOUS

\* A queue whose first message is taken.
LEMMA TailQueue ==
    ASSUME NEW S, NEW q \in Seq(S), q # <<>>
    PROVE  /\ Head(q) \in S
           /\ Head(q) = q[1]
           /\ Len(q) \in Nat \ {0}
           /\ Tail(q) \in Seq(S)
           /\ Len(Tail(q)) = Len(q) - 1
           /\ \A i \in 1 .. Len(q) - 1 : Tail(q)[i] = q[i + 1]
OBVIOUS

-----------------------------------------------------------------------------
(* Queues that grow.                                                       *)

\* u's next piece is sent.
LEMMA NumberedAppendOwn ==
    ASSUME NEW S, NEW q \in Seq(S), NEW m \in S, NEW u, NEW k \in Nat, NEW n \in Nat,
           Numbered(q, u, k, n), IsData(m, u), m.data[2] = n + 1
    PROVE  Numbered(Append(q, m), u, k, n + 1)
<1> DEFINE r == Append(q, m)
<1>1. /\ Len(q) \in Nat /\ Len(r) = Len(q) + 1
      /\ \A i \in 1 .. Len(q) : r[i] = q[i]
      /\ r[Len(q) + 1] = m
  BY AppendQueue
<1> HIDE DEF r
<1>2. \A i \in 1 .. Len(r) : i \in 1 .. Len(q) \/ i = Len(q) + 1
  BY <1>1
<1>3. \A i \in 1 .. Len(r) : IsData(r[i], u) => r[i].data[2] \in k .. n + 1
  BY <1>1, <1>2 DEF Numbered
<1>4. ASSUME NEW place \in k .. n + 1
      PROVE  \E i \in 1 .. Len(r) : IsData(r[i], u) /\ r[i].data[2] = place
  <2>1. CASE place = n + 1
    <3>1. Len(q) + 1 \in 1 .. Len(r)
      BY <1>1
    <3>2. QED
      BY <1>1, <2>1, <3>1
  <2>2. CASE place \in k .. n
    <3>1. PICK i \in 1 .. Len(q) : IsData(q[i], u) /\ q[i].data[2] = place
      BY <2>2 DEF Numbered
    <3>2. i \in 1 .. Len(r)
      BY <1>1
    <3>3. QED
      BY <1>1, <3>1, <3>2
  <2>3. QED
    BY <2>1, <2>2
<1>5. ASSUME NEW i \in 1 .. Len(r), NEW j \in 1 .. Len(r), i < j, IsData(r[i], u), IsData(r[j], u)
      PROVE  r[i].data[2] < r[j].data[2]
  <2>1. i \in 1 .. Len(q)
    BY <1>1, <1>2, <1>5
  <2>2. CASE j \in 1 .. Len(q)
    BY <1>1, <1>5, <2>1, <2>2 DEF Numbered
  <2>3. CASE j = Len(q) + 1
    <3>1. q[i].data[2] \in k .. n
      BY <1>1, <1>5, <2>1 DEF Numbered
    <3>2. r[j].data[2] = n + 1
      BY <1>1, <2>3
    <3>3. QED
      BY <1>1, <2>1, <3>1, <3>2
  <2>4. QED
    BY <1>2, <2>2, <2>3
<1>6. k <= n + 1 + 1
  BY DEF Numbered
<1>7. QED
  BY <1>3, <1>4, <1>5, <1>6 DEF Numbered, r

\* Something else than u's data is sent.
LEMMA NumberedAppendOther ==
    ASSUME NEW S, NEW q \in Seq(S), NEW m \in S, NEW u, NEW k, NEW n,
           Numbered(q, u, k, n), ~IsData(m, u)
    PROVE  Numbered(Append(q, m), u, k, n)
<1> DEFINE r == Append(q, m)
<1>1. /\ Len(q) \in Nat /\ Len(r) = Len(q) + 1
      /\ \A i \in 1 .. Len(q) : r[i] = q[i]
      /\ r[Len(q) + 1] = m
  BY AppendQueue
<1> HIDE DEF r
<1>2. \A i \in 1 .. Len(r) : IsData(r[i], u) => i \in 1 .. Len(q) /\ r[i] = q[i]
  BY <1>1
<1>3. \A i \in 1 .. Len(q) : i \in 1 .. Len(r) /\ r[i] = q[i]
  BY <1>1
<1>4. QED
  BY <1>2, <1>3 DEF Numbered, r

\* u's first piece arrives.
LEMMA NumberedTailOwn ==
    ASSUME NEW S, NEW q \in Seq(S), q # <<>>, NEW u, NEW k \in Nat, NEW n \in Nat,
           Numbered(q, u, k, n), IsData(Head(q), u)
    PROVE  /\ Head(q).data[2] = k /\ k <= n
           /\ Numbered(Tail(q), u, k + 1, n)
<1> DEFINE r == Tail(q)
<1>1. /\ Len(q) \in Nat \ {0} /\ Len(r) = Len(q) - 1 /\ Head(q) = q[1]
      /\ \A i \in 1 .. Len(q) - 1 : r[i] = q[i + 1]
  BY TailQueue
<1> HIDE DEF r
<1>2. 1 \in 1 .. Len(q) /\ \A i \in 1 .. Len(r) : i + 1 \in 1 .. Len(q) /\ r[i] = q[i + 1]
  BY <1>1
<1>3. q[1].data[2] \in k .. n
  BY <1>1, <1>2 DEF Numbered
<1>4. \A i \in 1 .. Len(q) : IsData(q[i], u) => i = 1 \/ q[1].data[2] < q[i].data[2]
  BY <1>1, <1>2 DEF Numbered
<1>5. q[1].data[2] = k
  <2>1. PICK i \in 1 .. Len(q) : IsData(q[i], u) /\ q[i].data[2] = k
    BY <1>3 DEF Numbered
  <2>2. QED
    BY <1>3, <1>4, <2>1
<1>6. ASSUME NEW i \in 1 .. Len(r), IsData(r[i], u)  PROVE r[i].data[2] \in k + 1 .. n
  <2>1. i + 1 \in 1 .. Len(q) /\ r[i] = q[i + 1] /\ i + 1 # 1
    BY <1>2
  <2>2. q[i + 1].data[2] \in k .. n /\ k < q[i + 1].data[2]
    BY <1>4, <1>5, <1>6, <2>1 DEF Numbered
  <2>3. QED
    BY <2>1, <2>2
<1>7. ASSUME NEW place \in k + 1 .. n
      PROVE  \E i \in 1 .. Len(r) : IsData(r[i], u) /\ r[i].data[2] = place
  <2>1. PICK j \in 1 .. Len(q) : IsData(q[j], u) /\ q[j].data[2] = place
    <3>1. place \in k .. n
      OBVIOUS
    <3>2. QED
      BY <3>1 DEF Numbered
  <2>2. j # 1
    BY <1>5, <2>1
  <2>3. j - 1 \in 1 .. Len(r) /\ r[j - 1] = q[j]
    BY <1>1, <2>2
  <2>4. QED
    BY <2>1, <2>3
<1>8. ASSUME NEW i \in 1 .. Len(r), NEW j \in 1 .. Len(r), i < j, IsData(r[i], u), IsData(r[j], u)
      PROVE  r[i].data[2] < r[j].data[2]
  <2>1. i + 1 \in 1 .. Len(q) /\ j + 1 \in 1 .. Len(q) /\ i + 1 < j + 1
    BY <1>2, <1>8
  <2>2. IsData(q[i + 1], u) /\ IsData(q[j + 1], u)
    BY <1>2, <1>8
  <2>3. QED
    BY <1>2, <2>1, <2>2 DEF Numbered
<1>9. QED
  BY <1>1, <1>3, <1>5, <1>6, <1>7, <1>8 DEF Numbered, r

\* Something else than u's data arrives.
LEMMA NumberedTailOther ==
    ASSUME NEW S, NEW q \in Seq(S), q # <<>>, NEW u, NEW k, NEW n,
           Numbered(q, u, k, n), ~IsData(Head(q), u)
    PROVE  Numbered(Tail(q), u, k, n)
<1> DEFINE r == Tail(q)
<1>1. /\ Len(q) \in Nat \ {0} /\ Len(r) = Len(q) - 1 /\ Head(q) = q[1]
      /\ \A i \in 1 .. Len(q) - 1 : r[i] = q[i + 1]
  BY TailQueue
<1> HIDE DEF r
<1>2. \A i \in 1 .. Len(r) : i + 1 \in 1 .. Len(q) /\ r[i] = q[i + 1]
  BY <1>1
<1>3. \A j \in 1 .. Len(q) : IsData(q[j], u) => j - 1 \in 1 .. Len(r) /\ r[j - 1] = q[j]
  BY <1>1
<1>4. ASSUME NEW place \in k .. n
      PROVE  \E i \in 1 .. Len(r) : IsData(r[i], u) /\ r[i].data[2] = place
  <2>1. PICK j \in 1 .. Len(q) : IsData(q[j], u) /\ q[j].data[2] = place
    BY DEF Numbered
  <2>2. QED
    BY <1>3, <2>1
<1>5. \A i \in 1 .. Len(r) : IsData(r[i], u) => r[i].data[2] \in k .. n
  BY <1>2 DEF Numbered
<1>6. ASSUME NEW i \in 1 .. Len(r), NEW j \in 1 .. Len(r), i < j, IsData(r[i], u), IsData(r[j], u)
      PROVE  r[i].data[2] < r[j].data[2]
  <2>1. i + 1 \in 1 .. Len(q) /\ j + 1 \in 1 .. Len(q) /\ i + 1 < j + 1
    BY <1>2, <1>6
  <2>2. IsData(q[i + 1], u) /\ IsData(q[j + 1], u)
    BY <1>2, <1>6
  <2>3. QED
    BY <1>2, <2>1, <2>2 DEF Numbered
<1>7. QED
  BY <1>4, <1>5, <1>6 DEF Numbered, r

\* A message of some type that names u is in the longer queue.
LEMMA HasAppend ==
    ASSUME NEW S, NEW q \in Seq(S), NEW m \in S, NEW type, NEW u
    PROVE  Has(Append(q, m), type, u) <=> Has(q, type, u) \/ Names(m, type, u)
<1> DEFINE r == Append(q, m)
<1>1. /\ Len(q) \in Nat /\ Len(r) = Len(q) + 1
      /\ \A i \in 1 .. Len(q) : r[i] = q[i]
      /\ r[Len(q) + 1] = m
  BY AppendQueue
<1> HIDE DEF r
<1>2. Len(q) + 1 \in 1 .. Len(r) /\ \A i \in 1 .. Len(q) : i \in 1 .. Len(r)
  BY <1>1
<1>3. \A i \in 1 .. Len(r) : i \in 1 .. Len(q) \/ r[i] = m
  BY <1>1
<1>4. QED
  BY <1>1, <1>2, <1>3 DEF Has, r

\* The same of the shorter queue.
LEMMA HasTail ==
    ASSUME NEW S, NEW q \in Seq(S), q # <<>>, NEW type, NEW u
    PROVE  Has(q, type, u) <=> Names(Head(q), type, u) \/ Has(Tail(q), type, u)
<1> DEFINE r == Tail(q)
<1>1. /\ Len(q) \in Nat \ {0} /\ Len(r) = Len(q) - 1 /\ Head(q) = q[1]
      /\ \A i \in 1 .. Len(q) - 1 : r[i] = q[i + 1]
  BY TailQueue
<1> HIDE DEF r
<1>2. 1 \in 1 .. Len(q) /\ \A i \in 1 .. Len(r) : i + 1 \in 1 .. Len(q) /\ r[i] = q[i + 1]
  BY <1>1
<1>3. \A j \in 1 .. Len(q) : j = 1 \/ (j - 1 \in 1 .. Len(r) /\ r[j - 1] = q[j])
  BY <1>1
<1>4. QED
  BY <1>1, <1>2, <1>3 DEF Has, r

\* What is sent is u's, or has another number.
LEMMA OnlyOfAppend ==
    ASSUME NEW S, NEW q \in Seq(S), NEW m \in S, NEW l, NEW u, NEW i \in Nat \ {0},
           OnlyOf(q, l, u, i), m.type = "data" /\ m.localFd = l => m.of = u
    PROVE  OnlyOf(Append(q, m), l, u, i)
<1> DEFINE r == Append(q, m)
<1>1. /\ Len(q) \in Nat /\ Len(r) = Len(q) + 1
      /\ \A j \in 1 .. Len(q) : r[j] = q[j]
      /\ r[Len(q) + 1] = m
  BY AppendQueue
<1> HIDE DEF r
<1>2. \A j \in i .. Len(r) : (j \in i .. Len(q) /\ r[j] = q[j]) \/ r[j] = m
  BY <1>1
<1>3. QED
  BY <1>2 DEF OnlyOf, r

\* A shorter queue has no more data under a number.
LEMMA OnlyOfTail ==
    ASSUME NEW S, NEW q \in Seq(S), q # <<>>, NEW l, NEW u, OnlyOf(q, l, u, 1)
    PROVE  OnlyOf(Tail(q), l, u, 1)
<1>1. \A j \in 1 .. Len(Tail(q)) : j + 1 \in 1 .. Len(q) /\ Tail(q)[j] = q[j + 1]
  BY TailQueue
<1>2. QED
  BY <1>1 DEF OnlyOf

\* The message that leads goes on to lead when data of u's is sent, or of another number.
LEMMA LeadsAppend ==
    ASSUME NEW S, NEW q \in Seq(S), NEW m \in S, NEW type, NEW l, NEW u,
           Leads(q, type, l, u), ~Names(m, type, u),
           m.type = "data" /\ m.localFd = l => m.of = u
    PROVE  Leads(Append(q, m), type, l, u)
<1> DEFINE r == Append(q, m)
<1>1. /\ Len(q) \in Nat /\ Len(r) = Len(q) + 1
      /\ \A i \in 1 .. Len(q) : r[i] = q[i]
      /\ r[Len(q) + 1] = m
      /\ r = Append(q, m)
  BY AppendQueue
<1> HIDE DEF r
<1>2. \A j \in 1 .. Len(r) : (j \in 1 .. Len(q) /\ r[j] = q[j]) \/ (j = Len(q) + 1 /\ r[j] = m)
  BY <1>1
<1>3. SUFFICES ASSUME NEW i \in 1 .. Len(r), Names(r[i], type, u)
               PROVE  /\ \A j \in 1 .. Len(r) : IsData(r[j], u) => i < j
                      /\ \A j \in 1 .. Len(r) : Names(r[j], type, u) => i = j
                      /\ OnlyOf(r, l, u, i)
  BY DEF Leads, r
<1>4. i \in 1 .. Len(q) /\ Names(q[i], type, u)
  BY <1>2, <1>3
<1>5. /\ \A j \in 1 .. Len(q) : IsData(q[j], u) => i < j
      /\ \A j \in 1 .. Len(q) : Names(q[j], type, u) => i = j
      /\ OnlyOf(q, l, u, i)
  BY <1>4 DEF Leads
<1>6. \A j \in 1 .. Len(r) : IsData(r[j], u) => i < j
  BY <1>1, <1>2, <1>4, <1>5
<1>7. \A j \in 1 .. Len(r) : Names(r[j], type, u) => i = j
  BY <1>2, <1>5
<1>8. OnlyOf(r, l, u, i)
  BY <1>1, <1>4, <1>5, OnlyOfAppend
<1>9. QED
  BY <1>6, <1>7, <1>8

\* The message that leads is new.
LEMMA LeadsFirst ==
    ASSUME NEW S, NEW q \in Seq(S), NEW m \in S, NEW type, NEW l, NEW u,
           ~Has(q, type, u), Numbered(q, u, 1, 0), m.type # "data"
    PROVE  Leads(Append(q, m), type, l, u)
<1> DEFINE r == Append(q, m)
<1>1. /\ Len(q) \in Nat /\ Len(r) = Len(q) + 1
      /\ \A i \in 1 .. Len(q) : r[i] = q[i]
      /\ r[Len(q) + 1] = m
  BY AppendQueue
<1> HIDE DEF r
<1>2. \A j \in 1 .. Len(r) : (j \in 1 .. Len(q) /\ r[j] = q[j]) \/ (j = Len(q) + 1 /\ r[j] = m)
  BY <1>1
<1>3. \A j \in 1 .. Len(q) : ~Names(q[j], type, u) /\ ~IsData(q[j], u)
  BY DEF Has, Numbered
<1>4. \A j \in 1 .. Len(r) : ~IsData(r[j], u) /\ (Names(r[j], type, u) => j = Len(q) + 1)
  BY <1>2, <1>3 DEF IsData
<1>5. OnlyOf(r, l, u, Len(q) + 1)
  BY <1>1 DEF OnlyOf
<1>6. QED
  BY <1>4, <1>5 DEF Leads, r

\* It goes on to lead when something in front of it arrives.
LEMMA LeadsTail ==
    ASSUME NEW S, NEW q \in Seq(S), q # <<>>, NEW type, NEW l, NEW u, Leads(q, type, l, u)
    PROVE  Leads(Tail(q), type, l, u)
<1> DEFINE r == Tail(q)
<1>1. /\ Len(q) \in Nat \ {0} /\ Len(r) = Len(q) - 1
      /\ \A i \in 1 .. Len(q) - 1 : r[i] = q[i + 1]
  BY TailQueue
<1> HIDE DEF r
<1>2. \A i \in 1 .. Len(r) : i + 1 \in 1 .. Len(q) /\ r[i] = q[i + 1]
  BY <1>1
<1>3. SUFFICES ASSUME NEW i \in 1 .. Len(r), Names(r[i], type, u)
               PROVE  /\ \A j \in 1 .. Len(r) : IsData(r[j], u) => i < j
                      /\ \A j \in 1 .. Len(r) : Names(r[j], type, u) => i = j
                      /\ OnlyOf(r, l, u, i)
  BY DEF Leads, r
<1>4. /\ \A j \in 1 .. Len(q) : IsData(q[j], u) => i + 1 < j
      /\ \A j \in 1 .. Len(q) : Names(q[j], type, u) => i + 1 = j
      /\ OnlyOf(q, l, u, i + 1)
  BY <1>2, <1>3 DEF Leads
<1>5. \A j \in 1 .. Len(r) : IsData(r[j], u) => i < j
  BY <1>2, <1>4
<1>6. \A j \in 1 .. Len(r) : Names(r[j], type, u) => i = j
  BY <1>2, <1>4
<1>7. \A j \in i .. Len(r) : j + 1 \in i + 1 .. Len(q) /\ r[j] = q[j + 1]
  BY <1>1, <1>2
<1>8. OnlyOf(r, l, u, i)
  BY <1>4, <1>7 DEF OnlyOf
<1>9. QED
  BY <1>5, <1>6, <1>8

\* It is received.
LEMMA LeadsHead ==
    ASSUME NEW S, NEW q \in Seq(S), q # <<>>, NEW type, NEW l, NEW u, Leads(q, type, l, u),
           Names(Head(q), type, u)
    PROVE  ~Has(Tail(q), type, u) /\ OnlyOf(Tail(q), l, u, 1)
<1> DEFINE r == Tail(q)
<1>1. /\ Len(q) \in Nat \ {0} /\ Len(r) = Len(q) - 1 /\ q[1] = Head(q)
      /\ \A i \in 1 .. Len(q) - 1 : r[i] = q[i + 1]
  BY TailQueue
<1> HIDE DEF r
<1>2. 1 \in 1 .. Len(q) /\ \A i \in 1 .. Len(r) : i + 1 \in 2 .. Len(q) /\ r[i] = q[i + 1]
  BY <1>1
<1>3. /\ \A j \in 1 .. Len(q) : Names(q[j], type, u) => 1 = j
      /\ OnlyOf(q, l, u, 1)
  BY <1>1, <1>2 DEF Leads
<1>4. ~Has(r, type, u)
  BY <1>2, <1>3 DEF Has
<1>5. QED
  BY <1>3, <1>4, OnlyOfTail DEF r

\* As long as it is in the queue no data of u's arrives.
LEMMA LeadsNoData ==
    ASSUME NEW S, NEW q \in Seq(S), q # <<>>, NEW type, NEW l, NEW u, Leads(q, type, l, u),
           Has(q, type, u)
    PROVE  ~IsData(Head(q), u)
<1>1. 1 \in 1 .. Len(q) /\ Head(q) = q[1] /\ \A i \in 1 .. Len(q) : ~(i < 1)
  BY TailQueue
<1>2. QED
  BY <1>1 DEF Leads, Has

-----------------------------------------------------------------------------
(* The queues as seen by a user a message has nothing to do with.          *)

\* What the invariant says of u and a queue stays as it is.
Same(q, r, type, l, u) ==
    /\ Has(r, type, u) <=> Has(q, type, u)
    /\ Leads(q, type, l, u) => Leads(r, type, l, u)
    /\ \A k, n \in Nat : Numbered(q, u, k, n) => Numbered(r, u, k, n)
    /\ OnlyOf(q, l, u, 1) => OnlyOf(r, l, u, 1)

\* The queue does not change.
LEMMA SameQueue ==
    ASSUME NEW q, NEW type, NEW l, NEW u
    PROVE  Same(q, q, type, l, u)
BY DEF Same

\* Something is sent that neither names u nor has u's data or number.
LEMMA SameAppend ==
    ASSUME NEW S, NEW q \in Seq(S), NEW m \in S, NEW type, NEW l, NEW u,
           ~Names(m, type, u), ~IsData(m, u), m.type = "data" => m.localFd # l
    PROVE  Same(q, Append(q, m), type, l, u)
BY HasAppend, LeadsAppend, NumberedAppendOther, OnlyOfAppend DEF Same

\* Something arrives that neither names u nor is u's data.
LEMMA SameTail ==
    ASSUME NEW S, NEW q \in Seq(S), q # <<>>, NEW type, NEW l, NEW u,
           ~Names(Head(q), type, u), ~IsData(Head(q), u)
    PROVE  Same(q, Tail(q), type, l, u)
BY HasTail, LeadsTail, NumberedTailOther, OnlyOfTail DEF Same
-----------------------------------------------------------------------------
(* What was sent of a connection.                                          *)

\* The pieces of a connection, in their places.
LEMMA StreamSeq ==
    ASSUME NEW u \in User, NEW n \in Nat
    PROVE  /\ Stream(u, n) \in Seq(Item) /\ Len(Stream(u, n)) = n
           /\ \A i \in 1 .. n : Stream(u, n)[i] = <<u, i>>
<1>1. \A i \in 1 .. n : <<u, i>> \in Item
  BY DEF Item
<1>2. QED
  BY <1>1 DEF Stream

\* The next piece.
LEMMA StreamNext ==
    ASSUME NEW u \in User, NEW n \in Nat
    PROVE  Append(Stream(u, n), <<u, n + 1>>) = Stream(u, n + 1)
<1>1. <<u, n + 1>> \in Item
  BY DEF Item
<1> DEFINE s == Stream(u, n)
           x == <<u, n + 1>>
<1>2. /\ Append(s, x) \in Seq(Item)
      /\ Len(Append(s, x)) = n + 1
      /\ \A i \in 1 .. n : Append(s, x)[i] = <<u, i>>
      /\ Append(s, x)[n + 1] = x
  <2>1. s \in Seq(Item) /\ Len(s) = n /\ \A i \in 1 .. n : s[i] = <<u, i>>
    BY StreamSeq
  <2>2. x \in Item
    BY <1>1
  <2> HIDE DEF s, x
  <2>3. QED
    BY <2>1, <2>2, AppendQueue
<1>3. /\ Stream(u, n + 1) \in Seq(Item) /\ Len(Stream(u, n + 1)) = n + 1
      /\ \A i \in 1 .. n + 1 : Stream(u, n + 1)[i] = <<u, i>>
  BY StreamSeq, n + 1 \in Nat
<1>4. ASSUME NEW i \in 1 .. n + 1
      PROVE  Append(Stream(u, n), <<u, n + 1>>)[i] = Stream(u, n + 1)[i]
  <2>1. i \in 1 .. n \/ i = n + 1
    OBVIOUS
  <2>2. Stream(u, n + 1)[i] = <<u, i>>
    BY <1>3
  <2>3. Append(Stream(u, n), <<u, n + 1>>)[i] = <<u, i>>
    BY <1>2, <2>1
  <2>4. QED
    BY <2>2, <2>3
<1>5. QED
  BY <1>2, <1>3, <1>4, SeqEqual

\* What a host has got of what it was given.
LEMMA StreamPrefix ==
    ASSUME NEW u \in User, NEW a \in Seq(Item), NEW b \in Seq(Item),
           a \o b = Stream(u, Len(a \o b))
    PROVE  a = Stream(u, Len(a))
<1>1. /\ Len(a) \in Nat /\ Len(b) \in Nat /\ Len(a \o b) = Len(a) + Len(b)
      /\ \A i \in 1 .. Len(a) : (a \o b)[i] = a[i]
  BY ConcatProperties
<1>2. \A i \in 1 .. Len(a) + Len(b) : (a \o b)[i] = <<u, i>>
  BY <1>1, StreamSeq, Len(a) + Len(b) \in Nat
<1>3. /\ Stream(u, Len(a)) \in Seq(Item) /\ Len(Stream(u, Len(a))) = Len(a)
      /\ \A i \in 1 .. Len(a) : Stream(u, Len(a))[i] = <<u, i>>
  BY <1>1, StreamSeq
<1>4. ASSUME NEW i \in 1 .. Len(a) PROVE a[i] = Stream(u, Len(a))[i]
  <2>1. i \in 1 .. Len(a) + Len(b)
    BY <1>1
  <2>2. a[i] = <<u, i>>
    BY <1>1, <1>2, <2>1
  <2>3. QED
    BY <1>3, <2>2
<1>5. QED
  BY <1>1, <1>3, <1>4, SeqEqual

\* What is put into a host's buffer comes after all it was given.
LEMMA GivenMore ==
    ASSUME NEW a \in Seq(Item), NEW b \in Seq(Item), NEW x \in Item
    PROVE  a \o Append(b, x) = Append(a \o b, x)
<1> DEFINE s == a \o Append(b, x)
           t == Append(a \o b, x)
<1>1. /\ a \o b \in Seq(Item) /\ Len(a) \in Nat /\ Len(b) \in Nat
      /\ Append(b, x) \in Seq(Item) /\ Len(Append(b, x)) = Len(b) + 1
      /\ \A i \in 1 .. Len(b) : Append(b, x)[i] = b[i]
      /\ Append(b, x)[Len(b) + 1] = x
  BY ConcatProperties, AppendQueue
<1>2. /\ s \in Seq(Item) /\ t \in Seq(Item)
      /\ Len(s) = Len(a) + Len(b) + 1 /\ Len(t) = Len(a) + Len(b) + 1
  BY <1>1, ConcatProperties, AppendQueue
<1>3. ASSUME NEW i \in 1 .. Len(s) PROVE s[i] = t[i]
  <2>1. CASE i \in 1 .. Len(a)
    BY <1>1, <2>1, ConcatProperties, AppendQueue
  <2>2. CASE i \in Len(a) + 1 .. Len(a) + Len(b)
    <3>1. i - Len(a) \in 1 .. Len(b)
      BY <1>1, <2>2
    <3>2. s[i] = b[i - Len(a)]
      BY <1>1, <2>2, <3>1, ConcatProperties
    <3>3. (a \o b)[i] = b[i - Len(a)] /\ i \in 1 .. Len(a \o b)
      BY <1>1, <2>2, ConcatProperties
    <3>4. t[i] = (a \o b)[i]
      BY <1>1, <3>3, AppendQueue
    <3>5. QED
      BY <3>2, <3>3, <3>4
  <2>3. CASE i = Len(a) + Len(b) + 1
    BY <1>1, <2>3, ConcatProperties, AppendQueue
  <2>4. QED
    BY <1>1, <1>2, <2>1, <2>2, <2>3
<1>4. QED
  BY <1>2, <1>3, SeqEqual

\* A piece that leaves the buffer for the host stays in its place.
LEMMA GivenWritten ==
    ASSUME NEW a \in Seq(Item), NEW b \in Seq(Item), b # <<>>
    PROVE  Append(a, Head(b)) \o Tail(b) = a \o b
<1> DEFINE s == Append(a, Head(b)) \o Tail(b)
           t == a \o b
<1>1. /\ Len(a) \in Nat /\ Len(b) \in Nat \ {0} /\ Head(b) = b[1] /\ Head(b) \in Item
      /\ Tail(b) \in Seq(Item) /\ Len(Tail(b)) = Len(b) - 1
      /\ \A i \in 1 .. Len(b) - 1 : Tail(b)[i] = b[i + 1]
      /\ Append(a, Head(b)) \in Seq(Item) /\ Len(Append(a, Head(b))) = Len(a) + 1
      /\ \A i \in 1 .. Len(a) : Append(a, Head(b))[i] = a[i]
      /\ Append(a, Head(b))[Len(a) + 1] = Head(b)
  BY TailQueue, AppendQueue
<1>2. /\ s \in Seq(Item) /\ t \in Seq(Item)
      /\ Len(s) = Len(a) + Len(b) /\ Len(t) = Len(a) + Len(b)
  BY <1>1, ConcatProperties
<1>3. ASSUME NEW i \in 1 .. Len(s) PROVE s[i] = t[i]
  <2>1. CASE i \in 1 .. Len(a)
    BY <1>1, <2>1, ConcatProperties
  <2>2. CASE i = Len(a) + 1
    BY <1>1, <2>2, ConcatProperties
  <2>3. CASE i \in Len(a) + 2 .. Len(a) + Len(b)
    <3>1. i - (Len(a) + 1) \in 1 .. Len(b) - 1 /\ i - Len(a) \in 1 .. Len(b)
      BY <1>1, <2>3
    <3>2. s[i] = Tail(b)[i - (Len(a) + 1)]
      BY <1>1, <2>3, <3>1, ConcatProperties
    <3>3. t[i] = b[i - Len(a)]
      BY <1>1, <2>3, <3>1, ConcatProperties
    <3>4. i - (Len(a) + 1) + 1 = i - Len(a)
      BY <1>1, <2>3
    <3>5. QED
      BY <1>1, <3>1, <3>2, <3>3, <3>4
  <2>4. QED
    BY <1>1, <1>2, <2>1, <2>2, <2>3
<1>4. QED
  BY <1>2, <1>3, SeqEqual

\* Garbage is no piece of a connection, and only at the end.
LEMMA CleanStream ==
    ASSUME NEW u \in User, NEW n \in Nat
    PROVE  /\ Clean(Stream(u, n)) = Stream(u, n)
           /\ Clean(Append(Stream(u, n), Garbage)) = Stream(u, n)
           /\ Append(Stream(u, n), Garbage) # Stream(u, n)
<1> DEFINE s == Stream(u, n)
           g == Append(s, Garbage)
<1>1. /\ s \in Seq(Item) /\ Len(s) = n
      /\ \A i \in 1 .. n : s[i] = <<u, i>>
  BY StreamSeq
<1>2. s \in Seq(Item \cup {Garbage}) /\ Garbage \in Item \cup {Garbage}
  <2>1. \A i \in 1 .. n : s[i] \in Item \cup {Garbage}
    BY <1>1
  <2>2. QED
    BY <1>1, <2>1 DEF Stream
<1> HIDE DEF s
<1>3. /\ g \in Seq(Item \cup {Garbage}) /\ Len(g) = n + 1
      /\ \A i \in 1 .. n : g[i] = s[i]
      /\ g[n + 1] = Garbage
  BY <1>1, <1>2, AppendQueue
<1> HIDE DEF g
<1>4. Clean(s) = s
  <2>1. CASE s = <<>>
    BY <2>1 DEF Clean
  <2>2. CASE s # <<>>
    <3>1. n \in 1 .. n
      BY <1>1, <2>2
    <3>2. s[Len(s)] = <<u, n>> /\ <<u, n>> # Garbage
      BY <1>1, <3>1, GarbageAssumption
    <3>3. QED
      BY <3>2 DEF Clean, Last
  <2>3. QED
    BY <2>1, <2>2
<1>5. g # <<>> /\ Last(g) = Garbage
  BY <1>3 DEF Last
<1>6. Front(g) = s
  <2>1. /\ SubSeq(g, 1, n) \in Seq(Item \cup {Garbage})
        /\ Len(SubSeq(g, 1, n)) = IF 1 <= n THEN n - 1 + 1 ELSE 0
        /\ \A i \in 1 .. n - 1 + 1 : SubSeq(g, 1, n)[i] = g[1 + i - 1]
    <3>1. \A i \in 1 .. n : g[i] \in Item \cup {Garbage}
      BY <1>3
    <3>2. QED
      BY <3>1, SubSeqProperties
  <2>2. Len(SubSeq(g, 1, n)) = n /\ \A i \in 1 .. n : SubSeq(g, 1, n)[i] = s[i]
    BY <1>3, <2>1
  <2>3. SubSeq(g, 1, n) = s
    BY <1>1, <1>2, <2>1, <2>2, SeqEqual
  <2>4. Len(g) - 1 = n
    BY <1>3
  <2>5. QED
    BY <2>3, <2>4 DEF Front
<1>7. Len(g) # Len(s)
  BY <1>1, <1>3
<1>8. QED
  BY <1>4, <1>5, <1>6, <1>7 DEF Clean, s, g
-----------------------------------------------------------------------------
(* Types.                                                                  *)

\* The fields of a piece of data.
LEMMA PieceTypes ==
    ASSUME NEW m \in Pieces
    PROVE  /\ m.type = "data" /\ m.localFd \in LocalFd /\ m.of \in User
           /\ m.data[2] \in Nat /\ m.data = <<m.of, m.data[2]>> /\ m.data \in Item
<1>1. PICK l \in LocalFd, u \in User, i \in 1 .. MaxData : m = Data(l, u, i)
  BY DEF Pieces
<1>2. m.type = "data" /\ m.localFd = l /\ m.of = u /\ m.data = <<u, i>>
  BY <1>1 DEF Data
<1>3. i \in Nat
  BY BoundAssumption
<1>4. QED
  BY <1>2, <1>3 DEF Item

\* The fields of a request.
LEMMA RequestTypes ==
    ASSUME NEW m \in Requests
    PROVE  /\ m.type = "request" /\ m.localFd \in LocalFd /\ m.of \in User
           /\ m = Request(m.localFd, m.of)
<1>1. PICK l \in LocalFd, u \in User : m = Request(l, u)
  BY DEF Requests
<1>2. QED
  BY <1>1 DEF Request

\* The fields of a reply.
LEMMA ReplyTypes ==
    ASSUME NEW m \in Replies
    PROVE  /\ m.type = "reply" /\ m.localFd \in LocalFd \cup {NoFd} /\ m.of \in User
           /\ m = Reply(m.localFd, m.of)
<1>1. PICK l \in LocalFd \cup {NoFd}, u \in User : m = Reply(l, u)
  BY DEF Replies
<1>2. QED
  BY <1>1 DEF Reply

\* The fields of a short reply.
LEMMA ShortTypes == Short.type = "short" /\ Short.localFd = NoFd
BY DEF Short

\* What the two programs send is of these types.
LEMMA MakeMessages ==
    ASSUME NEW u \in User, NEW l
    PROVE  /\ l \in LocalFd => Request(l, u) \in Requests
           /\ l \in LocalFd \cup {NoFd} => Reply(l, u) \in Replies
           /\ \A i \in 1 .. MaxData : l \in LocalFd => Data(l, u, i) \in Pieces
BY DEF Requests, Replies, Pieces

\* So is what is in the tunnel.
LEMMA QueueTypes ==
    ASSUME TypeOK
    PROVE  /\ \A i \in 1 .. Len(c2s) : c2s[i] \in Requests \cup Pieces
           /\ \A i \in 1 .. Len(s2c) : s2c[i] \in Replies \cup Pieces \cup {Short}
           /\ c2s # <<>> => Head(c2s) \in Requests \cup Pieces
           /\ s2c # <<>> => Head(s2c) \in Replies \cup Pieces \cup {Short}
           /\ Len(c2s) \in Nat /\ Len(s2c) \in Nat
<1>1. c2s \in Seq(Requests \cup Pieces) /\ s2c \in Seq(Replies \cup Pieces \cup {Short})
  BY DEF TypeOK
<1>2. QED
  BY <1>1, TailQueue

\* What is the first to arrive.
LEMMA Heads ==
    ASSUME TypeOK
    PROVE  /\ c2s # <<>> /\ Head(c2s).type = "request" => Head(c2s) \in Requests
           /\ c2s # <<>> /\ Head(c2s).type = "data" => Head(c2s) \in Pieces
           /\ s2c # <<>> /\ Head(s2c).type = "reply" => Head(s2c) \in Replies
           /\ s2c # <<>> /\ Head(s2c).type = "data" => Head(s2c) \in Pieces
           /\ s2c # <<>> /\ Head(s2c).type = "short" => Head(s2c) = Short
BY QueueTypes, PieceTypes, RequestTypes, ReplyTypes, ShortTypes

\* The client sends.
LEMMA AppendUp ==
    ASSUME TypeOK, NEW m \in Requests \cup Pieces
    PROVE  Append(c2s, m) \in Seq(Requests \cup Pieces)
BY AppendQueue DEF TypeOK

\* The server sends.
LEMMA AppendDown ==
    ASSUME TypeOK, NEW m \in Replies \cup Pieces \cup {Short}
    PROVE  Append(s2c, m) \in Seq(Replies \cup Pieces \cup {Short})
BY AppendQueue DEF TypeOK

\* The server receives.
LEMMA TailUp ==
    ASSUME TypeOK, c2s # <<>>
    PROVE  Tail(c2s) \in Seq(Requests \cup Pieces)
BY TailQueue DEF TypeOK

\* The client receives.
LEMMA TailDown ==
    ASSUME TypeOK, s2c # <<>>
    PROVE  Tail(s2c) \in Seq(Replies \cup Pieces \cup {Short})
BY TailQueue DEF TypeOK

\* The client's steps keep the types.
LEMMA ClientTypes ==
    ASSUME TypeOK, ClientStep
    PROVE  TypeOK'
<1>1. ASSUME NEW l \in LocalFd, NEW u \in User, Accepted(u, l) PROVE InUse(l) \in BOOLEAN
  BY DEF InUse
<1>2. ASSUME NEW l \in LocalFd, NEW u \in User, AcceptUser(u, l) PROVE TypeOK'
  <2>1. c2s' \in Seq(Requests \cup Pieces)
    BY <1>2, MakeMessages, AppendUp DEF AcceptUser
  <2>2. reused' \in BOOLEAN
    BY <1>2 DEF AcceptUser, Accepted, InUse, TypeOK
  <2>3. QED
    BY <1>2, <2>1, <2>2 DEF AcceptUser, Accepted, serverVars, TypeOK
<1>3. ASSUME NEW l \in LocalFd, NEW u \in User, AcceptHalf(u, l) PROVE TypeOK'
  <2>1. reused' \in BOOLEAN
    BY <1>3 DEF AcceptHalf, Accepted, InUse, TypeOK
  <2>2. QED
    BY <1>3, <2>1 DEF AcceptHalf, Accepted, serverVars, TypeOK
<1>4. ASSUME NEW l \in LocalFd, UserData(l) PROVE TypeOK'
  <2>1. user[l] \in User /\ sent[user[l]] \in Nat /\ sent[user[l]] < MaxData
    BY <1>4 DEF UserData, TypeOK
  <2>2. sent[user[l]] + 1 \in 1 .. MaxData
    BY <2>1, BoundAssumption
  <2>3. c2s' \in Seq(Requests \cup Pieces)
    BY <1>4, <2>1, <2>2, MakeMessages, AppendUp DEF UserData
  <2>4. sent' \in [User -> Nat]
    BY <1>4, <2>1 DEF UserData, TypeOK
  <2>5. QED
    BY <1>4, <2>3, <2>4 DEF UserData, clientVars, serverVars, TypeOK
<1>5. ASSUME NEW l \in LocalFd, UserGone(l) PROVE TypeOK'
  BY <1>5 DEF UserGone, Forget, serverVars, TypeOK
<1>6. CASE ReplyArrives
  <2>1. s2c' \in Seq(Replies \cup Pieces \cup {Short})
    BY <1>6, TailDown DEF ReplyArrives, Arrives
  <2>2. QED
    BY <1>6, <2>1 DEF ReplyArrives, Arrives, serverVars, TypeOK
<1>7. ASSUME NEW l \in LocalFd, NEW x \in Item \cup {Garbage}, Prepared(l), Write(l, x)
      PROVE  got' \in [User -> Seq(Item \cup {Garbage})]
  <2>1. ASSUME NEW u \in User PROVE Append(got[u], x) \in Seq(Item \cup {Garbage})
    BY AppendQueue DEF TypeOK
  <2>2. QED
    BY <1>7, <2>1 DEF Write, TypeOK
<1>8. CASE DataArrives
  <2>1. s2c' \in Seq(Replies \cup Pieces \cup {Short}) /\ Head(s2c) \in Pieces
    BY <1>8, TailDown, Heads DEF DataArrives, Arrives
  <2>2. Head(s2c).localFd \in LocalFd /\ Head(s2c).data \in Item \cup {Garbage}
    BY <2>1, PieceTypes
  <2>3. /\ got' \in [User -> Seq(Item \cup {Garbage})]
        /\ user' \in [LocalFd -> User \cup {NoUser}]
        /\ localFdMap' \in [LocalFd -> {"none", "waiting", "prepared"}]
    BY <1>7, <1>8, <2>2 DEF DataArrives, Forget, TypeOK
  <2>4. QED
    BY <1>8, <2>1, <2>2, <2>3 DEF DataArrives, Arrives, serverVars, TypeOK
<1>9. CASE ShortArrives
  <2>1. s2c' \in Seq(Replies \cup Pieces \cup {Short})
    BY <1>9, TailDown DEF ShortArrives, Arrives
  <2>2. /\ got' \in [User -> Seq(Item \cup {Garbage})]
        /\ user' \in [LocalFd -> User \cup {NoUser}]
        /\ localFdMap' \in [LocalFd -> {"none", "waiting", "prepared"}]
    BY <1>7, <1>9 DEF ShortArrives, Forget, TypeOK
  <2>3. QED
    BY <1>9, <2>1, <2>2 DEF ShortArrives, Arrives, serverVars, TypeOK
<1>10. QED
  BY <1>2, <1>3, <1>4, <1>5, <1>6, <1>8, <1>9 DEF ClientStep

\* The server's steps keep the types.
LEMMA ServerTypes ==
    ASSUME TypeOK, ServerStep
    PROVE  TypeOK'
<1>1. ASSUME NEW type, Read(type)
      PROVE  /\ c2s # <<>> /\ Head(c2s).type = type
             /\ c2s' \in Seq(Requests \cup Pieces)
             /\ UNCHANGED <<user, localFdMap, fourth, got, number, reused, sent, hostSent, hostGot>>
  BY <1>1, TailUp DEF Read, clientVars
<1>2. ASSUME Refuse \/ ConnectFails \/ Connect
      PROVE  s2c' \in Seq(Replies \cup Pieces \cup {Short}) /\ Head(c2s) \in Requests
  <2>1. Head(c2s) \in Requests
    BY <1>1, <1>2, Heads DEF Refuse, ConnectFails, Connect
  <2>2. Head(c2s).localFd \in LocalFd /\ Head(c2s).of \in User
    BY <2>1, RequestTypes
  <2>3. QED
    BY <1>2, <2>1, <2>2, MakeMessages, AppendDown DEF Refuse, ConnectFails, Connect, Send
<1>3. CASE Refuse
  <2>1. refused' \subseteq User
    BY <1>2, <1>3, RequestTypes DEF Refuse, TypeOK
  <2>2. QED
    BY <1>1, <1>2, <1>3, <2>1 DEF Refuse, TypeOK
<1>4. CASE ConnectFails
  BY <1>1, <1>2, <1>4 DEF ConnectFails, TypeOK
<1>5. CASE Connect
  <2>1. Head(c2s).localFd \in LocalFd /\ Head(c2s).of \in User
    BY <1>2, <1>5, RequestTypes
  <2>2. QED
    BY <1>1, <1>2, <1>5, <2>1 DEF Connect, TypeOK
<1>6. CASE Upload
  <2>1. Head(c2s).localFd \in LocalFd /\ Head(c2s).data \in Item
    BY <1>1, <1>6, Heads, PieceTypes DEF Upload
  <2>2. writeBuf' \in [User -> Seq(Item)]
    <3>1. sMap[Head(c2s).localFd] # NoUser => sMap[Head(c2s).localFd] \in User
      BY <2>1 DEF TypeOK
    <3>2. \A h \in User : Append(writeBuf[h], Head(c2s).data) \in Seq(Item)
      BY <2>1, AppendQueue DEF TypeOK
    <3>3. QED
      BY <1>6, <3>1, <3>2 DEF Upload, TypeOK
  <2>3. QED
    BY <1>1, <1>6, <2>2 DEF Upload, TypeOK
<1>7. ASSUME NEW h \in User, HostData(h) PROVE TypeOK'
  <2>1. h2lMap[h] \in LocalFd /\ hostSent[h] + 1 \in 1 .. MaxData /\ hostSent[h] \in Nat
    BY <1>7, BoundAssumption DEF HostData, Connected, TypeOK
  <2>2. s2c' \in Seq(Replies \cup Pieces \cup {Short})
    BY <1>7, <2>1, MakeMessages, AppendDown DEF HostData, Send
  <2>3. hostSent' \in [User -> Nat]
    BY <1>7, <2>1 DEF HostData, TypeOK
  <2>4. UNCHANGED <<clientVars, sent, c2s, sMap, h2lMap, writeBuf, hostGot, refused>>
    BY <1>7 DEF HostData
  <2>5. QED
    BY <2>2, <2>3, <2>4 DEF clientVars, TypeOK
<1>8. ASSUME NEW h \in User, HostAgain(h) PROVE TypeOK'
  <2>1. s2c' \in Seq(Replies \cup Pieces \cup {Short})
    BY <1>8, AppendDown DEF HostAgain, Send
  <2>2. QED
    BY <1>8, <2>1 DEF HostAgain, clientVars, serverVars, TypeOK
<1>9. ASSUME NEW h \in User, Connected(h), Erase(h)
      PROVE  /\ h2lMap' \in [User -> LocalFd \cup {NoFd}]
             /\ writeBuf' \in [User -> Seq(Item)]
             /\ sMap' \in [LocalFd -> User \cup {NoUser}]
  <2>1. <<>> \in Seq(Item)
    OBVIOUS
  <2>2. QED
    BY <1>9, <2>1 DEF Erase, TypeOK
<1>10. ASSUME NEW h \in User, HostFails(h) PROVE TypeOK'
  <2>1. s2c' \in Seq(Replies \cup Pieces \cup {Short})
    BY <1>10, AppendDown DEF HostFails, Send
  <2>2. QED
    BY <1>9, <1>10, <2>1 DEF HostFails, clientVars, TypeOK
<1>11. ASSUME NEW h \in User, HostCloses(h) PROVE TypeOK'
  BY <1>9, <1>11 DEF HostCloses, clientVars, TypeOK
<1>12. ASSUME NEW h \in User, Flush(h) PROVE TypeOK'
  <2>1. Append(hostGot[h], Head(writeBuf[h])) \in Seq(Item) /\ Tail(writeBuf[h]) \in Seq(Item)
    BY <1>12, AppendQueue, TailQueue DEF Flush, TypeOK
  <2>2. QED
    BY <1>12, <2>1 DEF Flush, clientVars, TypeOK
<1>13. QED
  BY <1>3, <1>4, <1>5, <1>6, <1>7, <1>8, <1>10, <1>11, <1>12 DEF ServerStep

\* So does every step.
LEMMA TypesKept == TypeOK /\ [Next]_vars => TypeOK'
<1>1. ASSUME TypeOK, UNCHANGED vars PROVE TypeOK'
  BY <1>1 DEF TypeOK, vars, clientVars, serverVars
<1>2. QED
  BY <1>1, ClientTypes, ServerTypes DEF Next
-----------------------------------------------------------------------------
(* What a step leaves as it was.                                           *)

\* A step that is none of u's.
Quiet(u) ==
    /\ number'[u] = number[u] /\ sent'[u] = sent[u] /\ hostSent'[u] = hostSent[u]
    /\ got'[u] = got[u] /\ hostGot'[u] = hostGot[u] /\ writeBuf'[u] = writeBuf[u]
    /\ h2lMap'[u] = h2lMap[u]
    /\ Holds(u)' => Holds(u)
    /\ Asked(u)' <=> Asked(u)
    /\ Answered(u)' <=> Answered(u)
    /\ Claims(u) => /\ Same(c2s, c2s', "request", number[u], u)
                    /\ Same(s2c, s2c', "reply", number[u], u)

\* The counts the invariant uses are natural numbers.
LEMMA Counts ==
    ASSUME TypeOK, NEW u \in User
    PROVE  /\ sent[u] \in Nat /\ hostSent[u] \in Nat
           /\ hostGot[u] \in Seq(Item) /\ writeBuf[u] \in Seq(Item)
           /\ Given(u) \in Seq(Item) /\ Len(Given(u)) \in Nat
           /\ got[u] \in Seq(Item \cup {Garbage}) /\ Len(got[u]) \in Nat
           /\ number[u] \in LocalFd \cup {NoFd} /\ h2lMap[u] \in LocalFd \cup {NoFd}
<1>1. /\ sent[u] \in Nat /\ hostSent[u] \in Nat
      /\ hostGot[u] \in Seq(Item) /\ writeBuf[u] \in Seq(Item)
      /\ got[u] \in Seq(Item \cup {Garbage})
      /\ number[u] \in LocalFd \cup {NoFd} /\ h2lMap[u] \in LocalFd \cup {NoFd}
  BY DEF TypeOK
<1>2. Len(got[u]) \in Nat
  BY <1>1
<1>3. Given(u) \in Seq(Item)
  BY <1>1 DEF Given
<1>4. Len(Given(u)) \in Nat
  BY <1>3
<1>5. QED
  BY <1>1, <1>2, <1>3, <1>4

\* What the invariant says of u stays true, and u has no claim it did not have.
LEMMA UserFrame ==
    ASSUME TypeOK, NEW u \in User, UserInv(u), Quiet(u)
    PROVE  UserInv(u)' /\ (Claims(u)' => Claims(u))
<1>1. Given(u)' = Given(u)
  BY DEF Quiet, Given
<1>2. (Served(u)' <=> Served(u)) /\ (Claims(u)' => Claims(u))
  BY DEF Quiet, Served, Claims
<1>3. FreshInv(u)'
  BY DEF Quiet, FreshInv, UserInv
<1>4. AskedInv(u)'
  <2>1. SUFFICES ASSUME Asked(u)'
                 PROVE  /\ ~Served(u)' /\ ~Answered(u)'
                        /\ Leads(c2s', "request", number'[u], u)
                        /\ Numbered(c2s', u, 1, sent'[u])
                        /\ Given(u)' = <<>>
                        /\ Numbered(s2c', u, 1, hostSent'[u]) /\ hostSent'[u] = 0
    BY DEF AskedInv
  <2>2. Asked(u) /\ Claims(u)
    BY <2>1 DEF Quiet, Claims
  <2>3. /\ ~Served(u) /\ ~Answered(u)
        /\ Leads(c2s, "request", number[u], u)
        /\ Numbered(c2s, u, 1, sent[u])
        /\ Given(u) = <<>>
        /\ Numbered(s2c, u, 1, hostSent[u]) /\ hostSent[u] = 0
    BY <2>2 DEF AskedInv, UserInv
  <2>4. QED
    BY <1>1, <1>2, <2>2, <2>3, Counts, 1 \in Nat DEF Quiet, Same
<1>5. ServedInv(u)'
  <2>1. SUFFICES ASSUME Served(u)'
                 PROVE  /\ OnlyOf(c2s', number'[u], u, 1)
                        /\ Numbered(c2s', u, Len(Given(u)') + 1, sent'[u])
    BY DEF ServedInv
  <2>2. Served(u) /\ Claims(u)
    BY <1>2, <2>1 DEF Claims
  <2>3. /\ OnlyOf(c2s, number[u], u, 1)
        /\ Numbered(c2s, u, Len(Given(u)) + 1, sent[u])
    BY <2>2 DEF ServedInv, UserInv
  <2>4. Len(Given(u)) + 1 \in Nat /\ sent[u] \in Nat
    BY Counts
  <2>5. QED
    BY <1>1, <2>2, <2>3, <2>4 DEF Quiet, Same
<1>6. AnsweredInv(u)'
  <2>1. SUFFICES ASSUME Answered(u)'
                 PROVE  /\ Leads(s2c', "reply", number'[u], u)
                        /\ Numbered(s2c', u, 1, hostSent'[u])
    BY DEF AnsweredInv
  <2>2. Answered(u) /\ Claims(u)
    BY <2>1 DEF Quiet, Claims
  <2>3. /\ Leads(s2c, "reply", number[u], u)
        /\ Numbered(s2c, u, 1, hostSent[u])
    BY <2>2 DEF AnsweredInv, UserInv
  <2>4. QED
    BY <2>2, <2>3, Counts, 1 \in Nat DEF Quiet, Same
<1>7. GotInv(u)'
  BY DEF Quiet, GotInv, UserInv
<1>8. GivenInv(u)'
  BY <1>1 DEF GivenInv, UserInv
<1>9. QED
  BY <1>2, <1>3, <1>4, <1>5, <1>6, <1>7, <1>8 DEF UserInv

\* A step that does not change what the client has under l.
FdFrame(l) ==
    /\ user'[l] = user[l] /\ localFdMap'[l] = localFdMap[l]
    /\ refused \subseteq refused'
    /\ \A u \in User : user[l] = u =>
          /\ got'[u] = got[u] /\ hostSent'[u] = hostSent[u]
          /\ Asked(u) \/ Answered(u) => u \in refused' \/ Asked(u)' \/ Answered(u)'
          /\ Same(s2c, s2c', "reply", l, u)

\* What the invariant says of l stays true.
LEMMA FdKept ==
    ASSUME TypeOK, UserNumbers, NEW l \in LocalFd, FdInv(l), FdFrame(l)
    PROVE  FdInv(l)'
<1>1. CASE user[l] = NoUser
  <2>1. localFdMap'[l] = "none" /\ user'[l] = NoUser
    BY <1>1 DEF FdFrame, UserNumbers, TypeOK
  <2>2. QED
    BY <2>1 DEF FdInv, WaitingInv, PreparedInv
<1>2. CASE user[l] # NoUser
  <2>1. PICK u \in User : user[l] = u
    BY <1>2 DEF TypeOK
  <2>2. /\ user'[l] = u /\ got'[u] = got[u] /\ hostSent'[u] = hostSent[u]
        /\ Asked(u) \/ Answered(u) => u \in refused' \/ Asked(u)' \/ Answered(u)'
        /\ Same(s2c, s2c', "reply", l, u)
    BY <2>1 DEF FdFrame
  <2>3. WaitingInv(l)'
    <3>1. CASE localFdMap'[l] = "prepared"
      BY <3>1 DEF WaitingInv
    <3>2. CASE localFdMap'[l] # "prepared"
      <4>1. /\ got[u] = <<>>
            /\ localFdMap[l] = "waiting" => u \in refused \/ Asked(u) \/ Answered(u)
        BY <1>2, <2>1, <3>2 DEF FdInv, WaitingInv, FdFrame
      <4>2. /\ got'[u] = <<>>
            /\ localFdMap'[l] = "waiting" => u \in refused' \/ Asked(u)' \/ Answered(u)'
        BY <2>2, <4>1 DEF FdFrame
      <4>3. QED
        BY <2>2, <4>2 DEF WaitingInv, Asked, Answered
    <3>3. QED
      BY <3>1, <3>2
  <2>4. PreparedInv(l)'
    <3>1. SUFFICES ASSUME localFdMap'[l] = "prepared"
                   PROVE  /\ OnlyOf(s2c', l, user'[l], 1)
                          /\ Numbered(s2c', user'[l], Len(got'[user'[l]]) + 1, hostSent'[user'[l]])
      BY DEF PreparedInv
    <3>2. /\ OnlyOf(s2c, l, u, 1)
          /\ Numbered(s2c, u, Len(got[u]) + 1, hostSent[u])
      BY <2>1, <3>1 DEF FdInv, PreparedInv, FdFrame
    <3>3. Len(got[u]) + 1 \in Nat /\ hostSent[u] \in Nat
      BY <2>1, Counts
    <3>4. QED
      BY <2>2, <3>2, <3>3 DEF Same
  <2>5. QED
    BY <2>3, <2>4 DEF FdInv
<1>3. QED
  BY <1>1, <1>2
-----------------------------------------------------------------------------
(* Numbers.                                                                *)

\* One step of a queue, in which what is sent has the right number.
Moves(q, r, S) ==
    \/ r = q
    \/ q # <<>> /\ r = Tail(q)
    \/ \E m \in S : r = Append(q, m) /\ RightNumber(m)

\* The messages of a queue go on to have the right number.
LEMMA MovesRight ==
    ASSUME NEW S, NEW q \in Seq(S), NEW r, Moves(q, r, S),
           \A i \in 1 .. Len(q) : RightNumber(q[i])
    PROVE  \A i \in 1 .. Len(r) : RightNumber(r[i])
<1>1. CASE r = q
  BY <1>1
<1>2. CASE q # <<>> /\ r = Tail(q)
  <2>1. \A i \in 1 .. Len(r) : i + 1 \in 1 .. Len(q) /\ r[i] = q[i + 1]
    BY <1>2, TailQueue
  <2>2. QED
    BY <2>1
<1>3. ASSUME NEW m \in S, r = Append(q, m), RightNumber(m)
      PROVE  \A i \in 1 .. Len(r) : RightNumber(r[i])
  <2>1. \A i \in 1 .. Len(r) : (i \in 1 .. Len(q) /\ r[i] = q[i]) \/ r[i] = m
    BY <1>3, AppendQueue
  <2>2. QED
    BY <1>3, <2>1
<1>4. QED
  BY <1>1, <1>2, <1>3 DEF Moves

\* So do the messages of both queues.
LEMMA MessagesKept ==
    ASSUME TypeOK, MessageNumbers, number' = number,
           Moves(c2s, c2s', Requests \cup Pieces),
           Moves(s2c, s2c', Replies \cup Pieces \cup {Short})
    PROVE  MessageNumbers'
<1>1. c2s \in Seq(Requests \cup Pieces) /\ s2c \in Seq(Replies \cup Pieces \cup {Short})
  BY DEF TypeOK
<1>2. \A i \in 1 .. Len(c2s') : RightNumber(c2s'[i])
  BY <1>1, MovesRight DEF MessageNumbers
<1>3. \A i \in 1 .. Len(s2c') : RightNumber(s2c'[i])
  BY <1>1, MovesRight DEF MessageNumbers
<1>4. QED
  BY <1>2, <1>3 DEF MessageNumbers, RightNumber

\* A user who has a descriptor.
LEMMA HasNumber ==
    ASSUME TypeOK, NumberInv, NEW l \in LocalFd, user[l] # NoUser
    PROVE  /\ user[l] \in User /\ number[user[l]] = l /\ l # NoFd
           /\ Holds(user[l]) /\ Claims(user[l])
           /\ \A k \in LocalFd : user[k] = user[l] => k = l
<1>1. user[l] \in User
  BY DEF TypeOK
<1>2. /\ number[user[l]] = l
      /\ \A k \in LocalFd : user[k] = user[l] => k = l
  BY DEF NumberInv, UserNumbers
<1>3. Holds(user[l]) /\ Claims(user[l])
  BY DEF Holds, Claims
<1>4. QED
  BY <1>1, <1>2, <1>3, AbsentAssumption

\* What arrives at the server.
LEMMA HeadUp ==
    ASSUME TypeOK, NumberInv, c2s # <<>>
    PROVE  /\ Head(c2s).of \in User /\ Head(c2s).localFd \in LocalFd
           /\ Head(c2s).localFd = number[Head(c2s).of]
           /\ Head(c2s).type = "request" =>
                 /\ Names(Head(c2s), "request", Head(c2s).of)
                 /\ Asked(Head(c2s).of) /\ Claims(Head(c2s).of)
           /\ Head(c2s).type = "data" => IsData(Head(c2s), Head(c2s).of)
<1> DEFINE m == Head(c2s)
<1>1. c2s \in Seq(Requests \cup Pieces)
  BY DEF TypeOK
<1>2. m = c2s[1] /\ 1 \in 1 .. Len(c2s) /\ m \in Requests \cup Pieces
  BY <1>1, TailQueue
<1>3. /\ m.of \in User /\ m.localFd \in LocalFd
      /\ m.type # "short"
  BY <1>2, RequestTypes, PieceTypes
<1>4. m.localFd # NoFd
  BY <1>3, AbsentAssumption
<1>5. m.localFd = number[m.of]
  BY <1>2, <1>3, <1>4 DEF NumberInv, MessageNumbers, RightNumber
<1>6. m.type = "request" => Names(m, "request", m.of)
  BY <1>4 DEF Names
<1>7. Names(m, "request", m.of) => Asked(m.of) /\ Claims(m.of)
  BY <1>2 DEF Asked, Has, Claims
<1>8. m.type = "data" => IsData(m, m.of)
  BY DEF IsData
<1>9. QED
  BY <1>3, <1>5, <1>6, <1>7, <1>8

\* What arrives at the client.
LEMMA HeadDown ==
    ASSUME TypeOK, NumberInv, s2c # <<>>, Head(s2c).type # "short"
    PROVE  /\ Head(s2c).of \in User /\ Head(s2c).localFd \in LocalFd \cup {NoFd}
           /\ Head(s2c).localFd # NoFd => Head(s2c).localFd = number[Head(s2c).of]
           /\ Head(s2c).type = "reply" /\ Head(s2c).localFd # NoFd =>
                 /\ Names(Head(s2c), "reply", Head(s2c).of)
                 /\ Answered(Head(s2c).of) /\ Claims(Head(s2c).of)
           /\ Head(s2c).type = "data" =>
                 IsData(Head(s2c), Head(s2c).of) /\ Head(s2c).localFd \in LocalFd
<1> DEFINE m == Head(s2c)
<1>1. s2c \in Seq(Replies \cup Pieces \cup {Short})
  BY DEF TypeOK
<1>2. m = s2c[1] /\ 1 \in 1 .. Len(s2c) /\ m \in Replies \cup Pieces
  BY <1>1, TailQueue, ShortTypes
<1>3. /\ m.of \in User /\ m.localFd \in LocalFd \cup {NoFd}
      /\ m.type # "short"
      /\ m.type = "data" => m.localFd \in LocalFd
  BY <1>2, ReplyTypes, PieceTypes
<1>4. m.localFd # NoFd => m.localFd = number[m.of]
  BY <1>2, <1>3 DEF NumberInv, MessageNumbers, RightNumber
<1>5. m.type = "reply" /\ m.localFd # NoFd => Names(m, "reply", m.of)
  BY DEF Names
<1>6. Names(m, "reply", m.of) => Answered(m.of) /\ Claims(m.of)
  BY <1>2 DEF Answered, Has, Claims
<1>7. m.type = "data" => IsData(m, m.of)
  BY DEF IsData
<1>8. QED
  BY <1>3, <1>4, <1>5, <1>6, <1>7

\* Without a new claim nobody shares a number.
LEMMA OneClaimKept ==
    ASSUME OneClaim, number' = number, \A u \in User : Claims(u)' => Claims(u)
    PROVE  OneClaim'
<1>1. SUFFICES ASSUME NEW u \in User, NEW w \in User, Claims(u)', Claims(w)',
                      number'[u] = number'[w]
               PROVE  u = w
  BY DEF OneClaim
<1>2. QED
  BY <1>1 DEF OneClaim

\* Nobody else has a claim to the number.
LEMMA OtherNumber ==
    ASSUME NumberInv, NEW u \in User, NEW w \in User, u # w, Claims(u), Claims(w)
    PROVE  number[u] # number[w]
BY DEF NumberInv, OneClaim

\* The queues of a step that is none of u's.
LEMMA QuietUp ==
    ASSUME TypeOK, NEW u, NEW l,
           \/ c2s' = c2s
           \/ c2s # <<>> /\ c2s' = Tail(c2s) /\ Head(c2s).of # u
           \/ \E m \in Requests \cup Pieces :
                 c2s' = Append(c2s, m) /\ m.of # u /\ (m.type = "data" => m.localFd # l)
    PROVE  Same(c2s, c2s', "request", l, u) /\ (Asked(u)' <=> Asked(u))
<1>1. c2s \in Seq(Requests \cup Pieces)
  BY DEF TypeOK
<1>2. Same(c2s, c2s', "request", l, u)
  BY <1>1, SameQueue, SameTail, SameAppend DEF Names, IsData
<1>3. QED
  BY <1>2 DEF Same, Asked

\* The same of the queue to the client.
LEMMA QuietDown ==
    ASSUME TypeOK, NEW u, NEW l,
           \/ s2c' = s2c
           \/ s2c # <<>> /\ s2c' = Tail(s2c)
              /\ (Head(s2c).type = "short" \/ Head(s2c).localFd = NoFd \/ Head(s2c).of # u)
           \/ \E m \in Replies \cup Pieces \cup {Short} :
                 /\ s2c' = Append(s2c, m)
                 /\ m.type = "short" \/ m.localFd = NoFd \/ m.of # u
                 /\ m.type = "data" => m.localFd # l
    PROVE  Same(s2c, s2c', "reply", l, u) /\ (Answered(u)' <=> Answered(u))
<1>1. s2c \in Seq(Replies \cup Pieces \cup {Short})
  BY DEF TypeOK
<1>2. ASSUME NEW m \in Replies \cup Pieces \cup {Short},
             m.type = "short" \/ m.localFd = NoFd \/ m.of # u
      PROVE  ~Names(m, "reply", u) /\ ~IsData(m, u)
  <2>1. m.type = "data" => m.localFd # NoFd
    BY PieceTypes, ReplyTypes, ShortTypes, AbsentAssumption
  <2>2. QED
    BY <1>2, <2>1 DEF Names, IsData
<1>3. s2c # <<>> => Head(s2c) \in Replies \cup Pieces \cup {Short}
  BY <1>1, TailQueue
<1>4. CASE s2c' = s2c
  BY <1>4, SameQueue DEF Same, Answered
<1>5. CASE s2c # <<>> /\ s2c' = Tail(s2c)
           /\ (Head(s2c).type = "short" \/ Head(s2c).localFd = NoFd \/ Head(s2c).of # u)
  <2>1. Same(s2c, s2c', "reply", l, u)
    BY <1>1, <1>2, <1>3, <1>5, SameTail
  <2>2. QED
    BY <2>1 DEF Same, Answered
<1>6. ASSUME NEW m \in Replies \cup Pieces \cup {Short}, s2c' = Append(s2c, m),
             m.type = "short" \/ m.localFd = NoFd \/ m.of # u,
             m.type = "data" => m.localFd # l
      PROVE  Same(s2c, s2c', "reply", l, u) /\ (Answered(u)' <=> Answered(u))
  <2>1. Same(s2c, s2c', "reply", l, u)
    BY <1>1, <1>2, <1>6, SameAppend
  <2>2. QED
    BY <2>1 DEF Same, Answered
<1>7. QED
  BY <1>4, <1>5, <1>6
-----------------------------------------------------------------------------
(* The client's steps.                                                     *)

\* A user that has not connected has a claim to nothing, and nothing of it is on its way.
LEMMA NotYet ==
    ASSUME TypeOK, NumberInv, NEW u \in User, number[u] = NoFd
    PROVE  /\ ~Claims(u)
           /\ Numbered(c2s, u, 1, 0) /\ Numbered(s2c, u, 1, 0)
<1>1. ~Holds(u)
  BY HasNumber, AbsentAssumption DEF Holds
<1>2. ASSUME NEW i \in 1 .. Len(c2s) PROVE c2s[i].of # u
  <2>1. c2s[i] \in Requests \cup Pieces
    BY QueueTypes
  <2>2. c2s[i].localFd \in LocalFd /\ c2s[i].type # "short"
    BY <2>1, RequestTypes, PieceTypes
  <2>3. QED
    BY <2>2, AbsentAssumption DEF NumberInv, MessageNumbers, RightNumber
<1>3. ASSUME NEW i \in 1 .. Len(s2c)
      PROVE  ~Names(s2c[i], "reply", u) /\ ~IsData(s2c[i], u)
  <2>1. s2c[i] \in Replies \cup Pieces \cup {Short}
    BY QueueTypes
  <2>2. s2c[i].type = "data" => s2c[i].localFd # NoFd
    BY <2>1, PieceTypes, ReplyTypes, ShortTypes, AbsentAssumption
  <2>3. s2c[i].type # "short" /\ s2c[i].localFd # NoFd => s2c[i].of # u
    BY DEF NumberInv, MessageNumbers, RightNumber
  <2>4. QED
    BY <2>2, <2>3 DEF Names, IsData
<1>4. ~Asked(u) /\ ~Answered(u)
  BY <1>2, <1>3 DEF Asked, Answered, Has, Names
<1>5. ~Served(u)
  BY DEF NumberInv, HostNumbers, Served
<1>6. Numbered(c2s, u, 1, 0) /\ Numbered(s2c, u, 1, 0)
  BY <1>2, <1>3 DEF Numbered, IsData
<1>7. QED
  BY <1>1, <1>4, <1>5, <1>6 DEF Claims

\* A number that is not in use is nobody's.
LEMMA Unused ==
    ASSUME TypeOK, NumberInv, NEW l \in LocalFd, user[l] = NoUser, ~InUse(l),
           NEW w \in User, Claims(w)
    PROVE  number[w] # l
<1>1. Holds(w) => number[w] # l
  BY HasNumber, AbsentAssumption DEF Holds
<1>2. Asked(w) => number[w] # l
  BY DEF Asked, Has, Names, InUse, NumberInv, MessageNumbers, RightNumber
<1>3. Served(w) => number[w] # l
  BY DEF InUse, NumberInv, HostNumbers
<1>4. Answered(w) => number[w] # l
  BY DEF Answered, Has, Names, InUse, NumberInv, MessageNumbers, RightNumber
<1>5. QED
  BY <1>1, <1>2, <1>3, <1>4 DEF Claims

\* accept: the number is one nobody has a claim to, and the user has done nothing yet.
LEMMA AcceptKeeps ==
    ASSUME TypeOK, KeptApart, ~reused', NEW l \in LocalFd, NEW u \in User,
           AcceptUser(u, l) \/ AcceptHalf(u, l)
    PROVE  KeptApart'
<1>1. /\ number[u] = NoFd /\ user[l] = NoUser /\ ~InUse(l)
      /\ user' = [user EXCEPT ![l] = u] /\ number' = [number EXCEPT ![u] = l]
      /\ UNCHANGED <<fourth, got, sent, s2c, sMap, h2lMap, writeBuf, hostSent, hostGot, refused>>
  BY DEF AcceptUser, AcceptHalf, Accepted, serverVars
<1>2. /\ user'[l] = u /\ \A k \in LocalFd : k # l => user'[k] = user[k]
      /\ number'[u] = l /\ \A w \in User : w # u => number'[w] = number[w]
  BY <1>1 DEF TypeOK
<1>3. NumberInv
  BY DEF KeptApart
<1>4. ~Claims(u) /\ Numbered(c2s, u, 1, 0) /\ Numbered(s2c, u, 1, 0)
  BY <1>1, <1>3, NotYet
<1>5. localFdMap[l] = "none" /\ \A k \in LocalFd : user[k] # u
  BY <1>1, <1>3, <1>4 DEF NumberInv, UserNumbers, Claims, Holds
<1>6. \/ /\ c2s' = Append(c2s, Request(l, u))
         /\ localFdMap' = [localFdMap EXCEPT ![l] = "waiting"]
      \/ c2s' = c2s /\ localFdMap' = localFdMap
  BY DEF AcceptUser, AcceptHalf
<1>7. /\ localFdMap'[l] # "prepared" /\ \A k \in LocalFd : k # l => localFdMap'[k] = localFdMap[k]
  BY <1>5, <1>6 DEF TypeOK
<1>8. Request(l, u) \in Requests /\ Request(l, u).of = u /\ Request(l, u).type = "request"
      /\ Request(l, u).localFd = l
  BY MakeMessages DEF Request
<1>9. ASSUME NEW w \in User, w # u PROVE Quiet(w)
  <2>1. Same(c2s, c2s', "request", number[w], w) /\ (Asked(w)' <=> Asked(w))
    BY <1>6, <1>8, <1>9, QuietUp
  <2>2. Same(s2c, s2c', "reply", number[w], w) /\ (Answered(w)' <=> Answered(w))
    BY <1>1, QuietDown
  <2>3. Holds(w)' => Holds(w)
    BY <1>2, <1>9 DEF Holds
  <2>4. QED
    BY <1>1, <1>2, <1>9, <2>1, <2>2, <2>3 DEF Quiet
<1>10. \A w \in User : w # u => UserInv(w)' /\ (Claims(w)' => Claims(w))
  BY <1>9, UserFrame DEF KeptApart
<1>11. /\ sent[u] = 0 /\ hostSent[u] = 0 /\ got[u] = <<>> /\ Given(u) = <<>>
       /\ UNCHANGED <<sent, hostSent, got, Given(u), s2c, h2lMap>>
  <2>1. sent[u] = 0 /\ hostSent[u] = 0 /\ got[u] = <<>> /\ hostGot[u] = <<>> /\ writeBuf[u] = <<>>
    BY <1>1 DEF KeptApart, UserInv, FreshInv
  <2>2. QED
    BY <1>1, <2>1 DEF Given
<1>12. ~Asked(u) /\ ~Served(u) /\ ~Answered(u) /\ ~Served(u)' /\ ~Answered(u)'
  BY <1>1, <1>4 DEF Claims, Served, Answered
<1>13. UserInv(u)'
  <2>1. FreshInv(u)'
    BY <1>2, AbsentAssumption DEF FreshInv
  <2>2. AskedInv(u)'
    <3>1. CASE c2s' = Append(c2s, Request(l, u))
      <4>1. Leads(c2s', "request", l, u) /\ Numbered(c2s', u, 1, 0)
        <5>1. c2s \in Seq(Requests \cup Pieces) /\ ~Has(c2s, "request", u)
          BY <1>12 DEF TypeOK, Asked
        <5>2. ~IsData(Request(l, u), u)
          BY <1>8 DEF IsData
        <5>3. QED
          BY <1>4, <1>8, <3>1, <5>1, <5>2, LeadsFirst, NumberedAppendOther
      <4>2. QED
        BY <1>2, <1>4, <1>11, <1>12, <4>1 DEF AskedInv
    <3>2. CASE c2s' = c2s
      BY <1>12, <3>2 DEF AskedInv, Asked
    <3>3. QED
      BY <1>6, <3>1, <3>2
  <2>3. ServedInv(u)' /\ AnsweredInv(u)'
    BY <1>12 DEF ServedInv, AnsweredInv
  <2>4. GotInv(u)' /\ GivenInv(u)'
    <3>1. GotInv(u) /\ GivenInv(u)
      BY DEF KeptApart, UserInv
    <3>2. got[u] = Stream(u, Len(got[u]))
      BY <1>11, <3>1 DEF GotInv
    <3>3. QED
      BY <1>11, <3>1, <3>2 DEF GotInv, GivenInv
  <2>5. QED
    BY <2>1, <2>2, <2>3, <2>4 DEF UserInv
<1>14. NumberInv'
  <2>1. UserNumbers'
    <3>1. ASSUME NEW k \in LocalFd
          PROVE  /\ user'[k] # NoUser => number'[user'[k]] = k
                 /\ localFdMap'[k] # "none" => user'[k] # NoUser
      <4>1. CASE k = l
        BY <1>2, <4>1, AbsentAssumption
      <4>2. CASE k # l
        <5>1. user[k] # NoUser => user[k] \in User /\ number[user[k]] = k
          BY <1>3, HasNumber
        <5>2. localFdMap[k] # "none" => user[k] # NoUser
          BY <1>3 DEF NumberInv, UserNumbers
        <5>3. QED
          BY <1>2, <1>5, <1>7, <4>2, <5>1, <5>2
      <4>3. QED
        BY <4>1, <4>2
    <3>2. QED
      BY <3>1 DEF UserNumbers
  <2>2. MessageNumbers'
    <3>1. /\ \A i \in 1 .. Len(c2s) : c2s[i].of # u
          /\ \A i \in 1 .. Len(s2c) :
                s2c[i].type # "short" /\ s2c[i].localFd # NoFd => s2c[i].of # u
      <4>1. \A i \in 1 .. Len(c2s) : c2s[i].localFd # NoFd /\ c2s[i].type # "short"
        BY QueueTypes, RequestTypes, PieceTypes, AbsentAssumption
      <4>2. QED
        BY <1>1, <1>3, <4>1 DEF NumberInv, MessageNumbers, RightNumber
    <3>2. ASSUME NEW i \in 1 .. Len(s2c) 
          PROVE  s2c[i].type # "short" /\ s2c[i].localFd # NoFd =>
                     s2c[i].localFd = number'[s2c[i].of]
      <4>1. s2c[i] \in Replies \cup Pieces \cup {Short}
        BY QueueTypes
      <4>2. s2c[i].type # "short" => s2c[i].of \in User
        BY <4>1, ReplyTypes, PieceTypes, ShortTypes
      <4>3. QED
        BY <1>1, <1>2, <1>3, <3>1, <4>2 DEF NumberInv, MessageNumbers, RightNumber
    <3>3. ASSUME NEW i \in 1 .. Len(c2s)
          PROVE  c2s[i].localFd = number'[c2s[i].of]
      <4>1. c2s[i] \in Requests \cup Pieces
        BY QueueTypes
      <4>2. c2s[i].of \in User /\ c2s[i].localFd # NoFd /\ c2s[i].type # "short"
        BY <4>1, RequestTypes, PieceTypes, AbsentAssumption
      <4>3. QED
        BY <1>2, <1>3, <3>1, <4>2 DEF NumberInv, MessageNumbers, RightNumber
    <3>4. ASSUME NEW i \in 1 .. Len(c2s') PROVE c2s'[i].localFd = number'[c2s'[i].of]
      <4>1. (i \in 1 .. Len(c2s) /\ c2s'[i] = c2s[i]) \/ c2s'[i] = Request(l, u)
        <5>1. c2s \in Seq(Requests \cup Pieces)
          BY DEF TypeOK
        <5>2. QED
          BY <1>6, <1>8, <5>1, AppendQueue
      <4>2. QED
        BY <1>2, <1>8, <3>3, <4>1
    <3>5. QED
      BY <1>1, <3>2, <3>4 DEF MessageNumbers, RightNumber
  <2>3. HostNumbers'
    BY <1>1, <1>2, <1>3, <1>12 DEF HostNumbers, NumberInv, Served
  <2>4. OneClaim'
    <3>1. ASSUME NEW v \in User, NEW w \in User, Claims(v)', Claims(w)', number'[v] = number'[w]
          PROVE  v = w
      <4>1. \A x \in User : x # u /\ Claims(x)' => number'[x] # l /\ Claims(x)
        BY <1>1, <1>2, <1>3, <1>10, Unused
      <4>2. QED
        BY <1>2, <1>3, <3>1, <4>1 DEF NumberInv, OneClaim
    <3>2. QED
      BY <3>1 DEF OneClaim
  <2>5. QED
    BY <2>1, <2>2, <2>3, <2>4 DEF NumberInv
<1>15. ASSUME NEW k \in LocalFd PROVE FdInv(k)'
  <2>1. CASE k = l
    <3>1. localFdMap'[l] = "waiting" => Asked(u)'
      <4>1. ASSUME c2s' = Append(c2s, Request(l, u)) PROVE Has(c2s', "request", u)
        <5>1. c2s \in Seq(Requests \cup Pieces) /\ Names(Request(l, u), "request", u)
          BY <1>8, AbsentAssumption DEF TypeOK, Names
        <5>2. QED
          BY <1>8, <4>1, <5>1, HasAppend
      <4>2. QED
        BY <1>5, <1>6, <4>1 DEF Asked
    <3>2. WaitingInv(l)'
      BY <1>2, <1>11, <3>1 DEF WaitingInv, Asked
    <3>3. QED
      BY <1>7, <2>1, <3>2 DEF FdInv, PreparedInv
  <2>2. CASE k # l
    <3>1. ASSUME NEW w \in User, user[k] = w
          PROVE  /\ got'[w] = got[w] /\ hostSent'[w] = hostSent[w]
                 /\ Asked(w) \/ Answered(w) => w \in refused' \/ Asked(w)' \/ Answered(w)'
                 /\ Same(s2c, s2c', "reply", k, w)
      <4>1. w # u
        BY <1>5, <3>1
      <4>2. QED
        BY <1>1, <1>9, <4>1, SameQueue DEF Quiet
    <3>2. FdFrame(k)
      BY <1>1, <1>2, <1>7, <2>2, <3>1 DEF FdFrame
    <3>3. QED
      BY <1>3, <3>2, FdKept DEF KeptApart, NumberInv
  <2>3. QED
    BY <2>1, <2>2
<1>16. QED
  BY <1>10, <1>13, <1>14, <1>15 DEF KeptApart
\* recv from a user: its next piece goes into the tunnel.
LEMMA UserDataKeeps ==
    ASSUME TypeOK, KeptApart, NEW l \in LocalFd, UserData(l)
    PROVE  KeptApart'
<1>1. PICK u \in User : user[l] = u
  BY DEF UserData, TypeOK
<1> DEFINE m == Data(l, u, sent[u] + 1)
<1>2. /\ sent[u] < MaxData /\ sent' = [sent EXCEPT ![u] = @ + 1] /\ c2s' = Append(c2s, m)
      /\ UNCHANGED <<user, localFdMap, got, number, s2c, sMap, h2lMap, writeBuf, hostSent,
                     hostGot, refused>>
  BY <1>1 DEF UserData, clientVars, serverVars
<1>3. NumberInv
  BY DEF KeptApart
<1>4. number[u] = l /\ Claims(u) /\ l # NoFd
  BY <1>1, <1>3, HasNumber, AbsentAssumption
<1>5. m \in Pieces /\ m.type = "data" /\ m.localFd = l /\ m.of = u /\ m.data[2] = sent[u] + 1
  <2>1. sent[u] + 1 \in 1 .. MaxData
    BY <1>2, Counts, BoundAssumption
  <2>2. QED
    BY <2>1, MakeMessages DEF Data
<1> HIDE DEF m
<1>6. c2s \in Seq(Requests \cup Pieces) /\ m \in Requests \cup Pieces
  BY <1>5 DEF TypeOK
<1>7. ASSUME NEW w \in User
      PROVE  /\ Asked(w)' <=> Asked(w)
             /\ \A k : Same(s2c, s2c', "reply", k, w) /\ (Answered(w)' <=> Answered(w))
             /\ Holds(w)' <=> Holds(w)
             /\ Claims(w)' <=> Claims(w)
  <2>1. Asked(w)' <=> Asked(w)
    BY <1>2, <1>5, <1>6, HasAppend DEF Asked, Names
  <2>2. \A k : Same(s2c, s2c', "reply", k, w) /\ (Answered(w)' <=> Answered(w))
    BY <1>2, SameQueue DEF Answered
  <2>3. (Holds(w)' <=> Holds(w)) /\ (Served(w)' <=> Served(w))
    BY <1>2 DEF Holds, Served
  <2>4. QED
    BY <2>1, <2>2, <2>3 DEF Claims
<1>8. ASSUME NEW w \in User, w # u PROVE UserInv(w)'
  <2>1. Claims(w) => Same(c2s, c2s', "request", number[w], w)
    BY <1>2, <1>3, <1>4, <1>5, <1>6, <1>8, OtherNumber, QuietUp
  <2>2. Quiet(w)
    BY <1>2, <1>7, <1>8, <2>1 DEF Quiet
  <2>3. QED
    BY <2>2, UserFrame DEF KeptApart
<1>9. UserInv(u)'
  <2>1. Given(u)' = Given(u) /\ (Served(u)' <=> Served(u))
    BY <1>2 DEF Given, Served
  <2>2. sent[u] \in Nat /\ Len(Given(u)) + 1 \in Nat /\ sent'[u] = sent[u] + 1
    BY <1>2, Counts DEF TypeOK
  <2>3. /\ FreshInv(u) /\ AskedInv(u) /\ ServedInv(u) /\ AnsweredInv(u) /\ GotInv(u) /\ GivenInv(u)
    BY DEF KeptApart, UserInv
  <2>4. IsData(m, u) /\ ~Names(m, "request", u)
    BY <1>5 DEF IsData, Names
  <2>5. FreshInv(u)'
    BY <1>2, <1>4 DEF FreshInv
  <2>6. AskedInv(u)'
    <3>1. Leads(c2s, "request", l, u) => Leads(c2s', "request", l, u)
      BY <1>2, <1>5, <1>6, <2>4, LeadsAppend
    <3>2. Numbered(c2s, u, 1, sent[u]) => Numbered(c2s', u, 1, sent[u] + 1)
      BY <1>2, <1>5, <1>6, <2>2, <2>4, NumberedAppendOwn, 1 \in Nat
    <3>3. QED
      BY <1>2, <1>4, <1>7, <2>1, <2>2, <2>3, <3>1, <3>2 DEF AskedInv
  <2>7. ServedInv(u)'
    <3>1. OnlyOf(c2s, l, u, 1) => OnlyOf(c2s', l, u, 1)
      BY <1>2, <1>5, <1>6, OnlyOfAppend
    <3>2. Numbered(c2s, u, Len(Given(u)) + 1, sent[u])
             => Numbered(c2s', u, Len(Given(u)) + 1, sent[u] + 1)
      BY <1>2, <1>5, <1>6, <2>2, <2>4, NumberedAppendOwn
    <3>3. QED
      BY <1>2, <1>4, <2>1, <2>2, <2>3, <3>1, <3>2 DEF ServedInv
  <2>8. AnsweredInv(u)'
    BY <1>2, <1>7, <2>3 DEF AnsweredInv
  <2>9. GotInv(u)' /\ GivenInv(u)'
    BY <1>2, <1>7, <2>1, <2>3 DEF GotInv, GivenInv
  <2>10. QED
    BY <2>5, <2>6, <2>7, <2>8, <2>9 DEF UserInv
<1>10. NumberInv'
  <2>1. UserNumbers' /\ HostNumbers'
    BY <1>2, <1>3 DEF NumberInv, UserNumbers, HostNumbers, Served
  <2>2. MessageNumbers'
    <3>1. RightNumber(m)
      BY <1>4, <1>5 DEF RightNumber
    <3>2. QED
      BY <1>2, <1>3, <1>6, <3>1, MessagesKept DEF Moves, NumberInv
  <2>3. OneClaim'
    BY <1>2, <1>3, <1>7, OneClaimKept DEF NumberInv
  <2>4. QED
    BY <2>1, <2>2, <2>3 DEF NumberInv
<1>11. ASSUME NEW k \in LocalFd PROVE FdInv(k)'
  <2>1. FdFrame(k)
    BY <1>2, <1>7 DEF FdFrame
  <2>2. QED
    BY <1>3, <2>1, FdKept DEF KeptApart, NumberInv
<1>12. QED
  BY <1>8, <1>9, <1>10, <1>11 DEF KeptApart

\* The user is gone: only its own claim changes.
LEMMA UserGoneKeeps ==
    ASSUME TypeOK, KeptApart, NEW l \in LocalFd, UserGone(l)
    PROVE  KeptApart'
<1>1. /\ user' = [user EXCEPT ![l] = NoUser] /\ localFdMap' = [localFdMap EXCEPT ![l] = "none"]
      /\ UNCHANGED <<got, number, sent, c2s, s2c, sMap, h2lMap, writeBuf, hostSent, hostGot,
                     refused>>
  BY DEF UserGone, Forget, serverVars
<1>2. /\ user'[l] = NoUser /\ \A k \in LocalFd : k # l => user'[k] = user[k]
      /\ localFdMap'[l] = "none" /\ \A k \in LocalFd : k # l => localFdMap'[k] = localFdMap[k]
  BY <1>1 DEF TypeOK
<1>3. NumberInv
  BY DEF KeptApart
<1>4. ASSUME NEW w \in User PROVE Quiet(w)
  <2>1. Same(c2s, c2s', "request", number[w], w) /\ Same(s2c, s2c', "reply", number[w], w)
    BY <1>1, SameQueue
  <2>2. (Asked(w)' <=> Asked(w)) /\ (Answered(w)' <=> Answered(w))
    BY <1>1 DEF Asked, Answered
  <2>3. Holds(w)' => Holds(w)
    BY <1>2, AbsentAssumption DEF Holds
  <2>4. QED
    BY <1>1, <2>1, <2>2, <2>3 DEF Quiet
<1>5. \A w \in User : UserInv(w)' /\ (Claims(w)' => Claims(w))
  BY <1>4, UserFrame DEF KeptApart
<1>6. NumberInv'
  <2>1. UserNumbers'
    BY <1>1, <1>2, <1>3 DEF NumberInv, UserNumbers
  <2>2. HostNumbers'
    BY <1>1, <1>3 DEF NumberInv, HostNumbers, Served
  <2>3. MessageNumbers'
    BY <1>1, <1>3, MessagesKept DEF Moves, NumberInv
  <2>4. OneClaim'
    BY <1>1, <1>3, <1>5, OneClaimKept DEF NumberInv
  <2>5. QED
    BY <2>1, <2>2, <2>3, <2>4 DEF NumberInv
<1>7. ASSUME NEW k \in LocalFd PROVE FdInv(k)'
  <2>1. CASE k = l
    BY <1>2, <2>1 DEF FdInv, WaitingInv, PreparedInv
  <2>2. CASE k # l
    <3>1. FdFrame(k)
      BY <1>1, <1>2, <1>4, <2>2, SameQueue DEF FdFrame, Quiet
    <3>2. QED
      BY <1>3, <3>1, FdKept DEF KeptApart, NumberInv
  <2>3. QED
    BY <2>1, <2>2
<1>8. QED
  BY <1>5, <1>6, <1>7 DEF KeptApart

\* A reply arrives: no data of the host has overtaken it, so a waiting user gets all.
LEMMA ReplyArrivesKeeps ==
    ASSUME TypeOK, KeptApart, ReplyArrives
    PROVE  KeptApart'
<1> DEFINE m == Head(s2c)
<1>1. /\ s2c # <<>> /\ m.type = "reply" /\ s2c' = Tail(s2c)
      /\ localFdMap' = [k \in LocalFd |->
             IF k = m.localFd /\ localFdMap[k] = "waiting" THEN "prepared" ELSE localFdMap[k]]
      /\ UNCHANGED <<user, got, number, sent, c2s, sMap, h2lMap, writeBuf, hostSent, hostGot,
                     refused>>
  BY DEF ReplyArrives, Arrives, serverVars
<1>2. NumberInv
  BY DEF KeptApart
<1>3. PICK w \in User, l \in LocalFd \cup {NoFd} :
      /\ m.of = w /\ m.localFd = l
      /\ l # NoFd => l = number[w] /\ Names(m, "reply", w) /\ Answered(w) /\ Claims(w)
  BY <1>1, <1>2, HeadDown
<1>4. s2c \in Seq(Replies \cup Pieces \cup {Short})
  BY DEF TypeOK
<1>5. ASSUME NEW u \in User
      PROVE  /\ Asked(u)' <=> Asked(u)
             /\ \A k : Same(c2s, c2s', "request", k, u)
             /\ Holds(u)' <=> Holds(u)
             /\ Served(u)' <=> Served(u)
             /\ Given(u)' = Given(u)
  BY <1>1, SameQueue DEF Asked, Holds, Served, Given
<1>6. ASSUME NEW u \in User, u # w \/ l = NoFd
      PROVE  /\ \A k : Same(s2c, s2c', "reply", k, u) /\ (Answered(u)' <=> Answered(u))
             /\ UserInv(u)' /\ (Claims(u)' => Claims(u))
  <2>1. \A k : Same(s2c, s2c', "reply", k, u) /\ (Answered(u)' <=> Answered(u))
    BY <1>1, <1>3, <1>6, QuietDown
  <2>2. Quiet(u)
    BY <1>1, <1>5, <2>1 DEF Quiet
  <2>3. QED
    BY <2>1, <2>2, UserFrame DEF KeptApart
<1>7. ASSUME l # NoFd
      PROVE  /\ ~Answered(w)' /\ ~Asked(w) /\ UserInv(w)' /\ (Claims(w)' => Claims(w))
             /\ OnlyOf(s2c', l, w, 1) /\ Numbered(s2c', w, 1, hostSent[w])
  <2>1. /\ FreshInv(w) /\ AskedInv(w) /\ ServedInv(w) /\ AnsweredInv(w) /\ GotInv(w) /\ GivenInv(w)
    BY <1>3 DEF KeptApart, UserInv
  <2>2. Leads(s2c, "reply", l, w) /\ Numbered(s2c, w, 1, hostSent[w])
    BY <1>3, <1>7, <2>1 DEF AnsweredInv
  <2>3. ~Answered(w)' /\ OnlyOf(s2c', l, w, 1)
    BY <1>1, <1>3, <1>4, <1>7, <2>2, LeadsHead DEF Answered
  <2>4. Numbered(s2c', w, 1, hostSent[w])
    <3>1. ~IsData(m, w)
      BY <1>1 DEF IsData
    <3>2. QED
      BY <1>1, <1>4, <2>2, <3>1, NumberedTailOther
  <2>5. ~Asked(w) /\ ~Asked(w)'
    BY <1>3, <1>5, <1>7, <2>1 DEF AskedInv
  <2>6. FreshInv(w)' /\ AskedInv(w)' /\ AnsweredInv(w)'
    BY <1>1, <2>1, <2>3, <2>5 DEF FreshInv, AskedInv, AnsweredInv
  <2>7. ServedInv(w)' /\ GotInv(w)' /\ GivenInv(w)'
    BY <1>1, <1>3, <1>5, <2>1 DEF ServedInv, GotInv, GivenInv
  <2>8. QED
    BY <1>3, <1>7, <2>3, <2>4, <2>5, <2>6, <2>7 DEF UserInv
<1>8. NumberInv'
  <2>1. UserNumbers' /\ HostNumbers'
    <3>1. \A k \in LocalFd : localFdMap'[k] # "none" => localFdMap[k] # "none"
      BY <1>1
    <3>2. QED
      BY <1>1, <1>2, <3>1 DEF NumberInv, UserNumbers, HostNumbers, Served
  <2>2. MessageNumbers'
    BY <1>1, <1>2, MessagesKept DEF Moves, NumberInv
  <2>3. OneClaim'
    BY <1>1, <1>2, <1>6, <1>7, OneClaimKept DEF NumberInv
  <2>4. QED
    BY <2>1, <2>2, <2>3 DEF NumberInv
<1>9. ASSUME NEW k \in LocalFd, k # l PROVE FdInv(k)'
  <2>1. localFdMap'[k] = localFdMap[k]
    BY <1>1, <1>3, <1>9
  <2>2. ASSUME NEW u \in User, user[k] = u PROVE u # w \/ l = NoFd
    BY <1>2, <1>3, <1>9, <2>2, HasNumber, AbsentAssumption
  <2>3. FdFrame(k)
    BY <1>1, <1>5, <1>6, <2>1, <2>2 DEF FdFrame
  <2>4. QED
    BY <1>2, <2>3, FdKept DEF KeptApart, NumberInv
<1>10. ASSUME l \in LocalFd PROVE FdInv(l)'
  <2>1. l # NoFd
    BY <1>10, AbsentAssumption
  <2>2. CASE user[l] = NoUser
    <3>1. localFdMap'[l] = "none" /\ user'[l] = NoUser
      BY <1>1, <1>2, <1>3, <1>10, <2>2 DEF NumberInv, UserNumbers
    <3>2. QED
      BY <3>1 DEF FdInv, WaitingInv, PreparedInv
  <2>3. CASE user[l] # NoUser
    <3>1. user[l] = w
      BY <1>2, <1>3, <1>10, <2>1, <2>3, HasNumber, OtherNumber
    <3>2. CASE localFdMap[l] = "none"
      <4>1. got[w] = <<>>
        BY <1>10, <2>3, <3>1, <3>2 DEF KeptApart, FdInv, WaitingInv
      <4>2. QED
        BY <1>1, <1>3, <1>10, <3>1, <3>2, <4>1 DEF FdInv, WaitingInv, PreparedInv
    <3>3. CASE localFdMap[l] = "waiting"
      <4>1. got[w] = <<>> /\ Len(got'[w]) + 1 = 1
        BY <1>1, <1>10, <2>3, <3>1, <3>3 DEF KeptApart, FdInv, WaitingInv
      <4>2. localFdMap'[l] = "prepared"
        BY <1>1, <1>3, <1>10, <3>3
      <4>3. QED
        BY <1>1, <1>7, <2>1, <3>1, <4>1, <4>2 DEF FdInv, WaitingInv, PreparedInv
    <3>4. CASE localFdMap[l] = "prepared"
      <4>1. localFdMap'[l] = "prepared"
        BY <1>1, <1>3, <1>10, <3>4
      <4>2. Numbered(s2c, w, Len(got[w]) + 1, hostSent[w])
        BY <1>10, <3>1, <3>4 DEF KeptApart, FdInv, PreparedInv
      <4>3. ~IsData(m, w)
        BY <1>1 DEF IsData
      <4>4. Numbered(s2c', w, Len(got[w]) + 1, hostSent[w])
        BY <1>1, <1>4, <4>2, <4>3, NumberedTailOther
      <4>5. QED
        BY <1>1, <1>7, <2>1, <3>1, <4>1, <4>4 DEF FdInv, WaitingInv, PreparedInv
    <3>5. QED
      BY <1>10, <3>2, <3>3, <3>4 DEF TypeOK
  <2>4. QED
    BY <2>2, <2>3
<1>11. QED
  <2>1. \A u \in User : UserInv(u)'
    BY <1>6, <1>7
  <2>2. \A k \in LocalFd : FdInv(k)'
    BY <1>9, <1>10
  <2>3. QED
    BY <1>8, <2>1, <2>2 DEF KeptApart
\* Data arrives: if the number is a prepared user's it is that user's next piece.
LEMMA DataArrivesKeeps ==
    ASSUME TypeOK, KeptApart, DataArrives
    PROVE  KeptApart'
<1> DEFINE m == Head(s2c)
<1>1. NumberInv
  BY DEF KeptApart
<1>2. /\ s2c # <<>> /\ m.type = "data" /\ s2c' = Tail(s2c)
      /\ UNCHANGED <<number, sent, c2s, sMap, h2lMap, writeBuf, hostSent, hostGot, refused>>
  BY DEF DataArrives, Arrives, serverVars
<1>3. PICK w \in User, l \in LocalFd :
         /\ m.of = w /\ m.localFd = l /\ l # NoFd /\ number[w] = l /\ IsData(m, w)
         /\ m.data = <<w, m.data[2]>> /\ m \in Pieces
  <2>1. m.of \in User /\ m.localFd \in LocalFd /\ IsData(m, m.of)
    BY <1>1, <1>2, HeadDown
  <2>2. m.localFd # NoFd
    BY <2>1, AbsentAssumption
  <2>3. number[m.of] = m.localFd
    BY <1>1, <1>2, <2>2, HeadDown
  <2>4. m \in Pieces
    BY <1>2, Heads
  <2>5. QED
    BY <2>1, <2>2, <2>3, <2>4, PieceTypes
<1>4. \/ /\ Prepared(l)
         /\ \/ Write(l, m.data) /\ UNCHANGED <<user, localFdMap>>
            \/ Forget(l) /\ UNCHANGED got
      \/ ~Prepared(l) /\ UNCHANGED <<user, localFdMap, got>>
  BY <1>3 DEF DataArrives
<1>5. s2c \in Seq(Replies \cup Pieces \cup {Short})
  BY DEF TypeOK
<1>6. \A k \in LocalFd : \/ user'[k] = user[k] /\ localFdMap'[k] = localFdMap[k]
                         \/ k = l /\ user'[k] = NoUser /\ localFdMap'[k] = "none"
  BY <1>4 DEF Forget, TypeOK
<1>7. ASSUME NEW u \in User
      PROVE  /\ Asked(u)' <=> Asked(u)
             /\ \A k : Same(c2s, c2s', "request", k, u)
             /\ Holds(u)' => Holds(u)
             /\ Served(u)' <=> Served(u)
             /\ Given(u)' = Given(u)
  BY <1>2, <1>6, SameQueue, AbsentAssumption DEF Asked, Holds, Served, Given
<1>8. Prepared(l) => user[l] = w
  <2>1. ASSUME Prepared(l) PROVE user[l] = w
    <3>1. OnlyOf(s2c, l, user[l], 1)
      BY <2>1 DEF Prepared, KeptApart, FdInv, PreparedInv
    <3>2. 1 \in 1 .. Len(s2c) /\ m = s2c[1]
      BY <1>2, <1>5, TailQueue
    <3>3. QED
      BY <1>2, <1>3, <3>1, <3>2 DEF OnlyOf
  <2>2. QED
    BY <2>1
<1>9. \A u \in User : u # w => got'[u] = got[u]
  BY <1>4, <1>8 DEF Write, TypeOK
<1>10. ASSUME NEW u \in User, u # w
       PROVE  /\ \A k : Same(s2c, s2c', "reply", k, u) /\ (Answered(u)' <=> Answered(u))
              /\ UserInv(u)' /\ (Claims(u)' => Claims(u))
  <2>1. \A k : Same(s2c, s2c', "reply", k, u) /\ (Answered(u)' <=> Answered(u))
    BY <1>2, <1>3, <1>10, QuietDown
  <2>2. Quiet(u)
    BY <1>2, <1>7, <1>9, <1>10, <2>1 DEF Quiet
  <2>3. QED
    BY <2>1, <2>2, UserFrame DEF KeptApart
<1>11. /\ FreshInv(w) /\ AskedInv(w) /\ ServedInv(w) /\ AnsweredInv(w) /\ GotInv(w) /\ GivenInv(w)
  BY DEF KeptApart, UserInv
<1>12. ~Asked(w) /\ ~Answered(w) /\ ~Answered(w)'
  <2>1. ~Asked(w)
    <3>1. ASSUME Asked(w) PROVE FALSE
      <4>1. Numbered(s2c, w, 1, hostSent[w]) /\ hostSent[w] = 0
        BY <1>11, <3>1 DEF AskedInv
      <4>2. 1 <= 0
        BY <1>2, <1>3, <1>5, <4>1, NumberedTailOwn, 0 \in Nat, 1 \in Nat
      <4>3. QED
        BY <4>2
    <3>2. QED
      BY <3>1
  <2>2. ~Answered(w)
    <3>1. ASSUME Answered(w) PROVE FALSE
      <4>1. Leads(s2c, "reply", number[w], w) /\ Has(s2c, "reply", w)
        BY <1>11, <3>1 DEF AnsweredInv, Answered
      <4>2. ~IsData(m, w)
        BY <1>2, <1>5, <4>1, LeadsNoData
      <4>3. QED
        BY <1>3, <4>2
    <3>2. QED
      BY <3>1
  <2>3. ~Answered(w)'
    BY <1>2, <1>5, <2>2, HasTail DEF Answered
  <2>4. QED
    BY <2>1, <2>2, <2>3
<1>13. ASSUME Prepared(l)
       PROVE  /\ GotInv(w) /\ Holds(w) /\ got[w] = Stream(w, Len(got[w]))
              /\ m.data = <<w, Len(got[w]) + 1>>
              /\ OnlyOf(s2c', l, w, 1)
              /\ Numbered(s2c', w, Len(got[w]) + 2, hostSent[w])
  <2>1. OnlyOf(s2c, l, w, 1) /\ Numbered(s2c, w, Len(got[w]) + 1, hostSent[w])
    BY <1>8, <1>13 DEF Prepared, KeptApart, FdInv, PreparedInv
  <2>2. Len(got[w]) + 1 \in Nat /\ hostSent[w] \in Nat
    BY Counts
  <2>3. m.data[2] = Len(got[w]) + 1 /\ Numbered(s2c', w, Len(got[w]) + 1 + 1, hostSent[w])
    BY <1>2, <1>3, <1>5, <2>1, <2>2, NumberedTailOwn
  <2>4. Len(got[w]) + 1 + 1 = Len(got[w]) + 2
    BY Counts
  <2>5. OnlyOf(s2c', l, w, 1)
    BY <1>2, <1>5, <2>1, OnlyOfTail
  <2>6. Holds(w)
    BY <1>8, <1>13 DEF Holds
  <2>7. QED
    BY <1>3, <1>11, <2>3, <2>4, <2>5, <2>6 DEF GotInv
<1>14. ASSUME Prepared(l) /\ Write(l, m.data)
       PROVE  GotInv(w)' /\ FdInv(l)'
  <2>1. /\ got'[w] = Append(got[w], m.data)
        /\ UNCHANGED <<user, localFdMap>>
    <3>1. got'[w] = Append(got[w], m.data)
      BY <1>8, <1>14 DEF Write, TypeOK
    <3>2. got'[w] # got[w]
      <4>1. Len(Append(got[w], m.data)) = Len(got[w]) + 1 /\ Len(got[w]) \in Nat
        <5>1. m.data \in Item \cup {Garbage} /\ got[w] \in Seq(Item \cup {Garbage})
          BY <1>3, PieceTypes, Counts
        <5>2. QED
          BY <5>1, AppendQueue
      <4>2. QED
        BY <3>1, <4>1
    <3>3. QED
      BY <1>4, <1>14, <3>1, <3>2
  <2>2. got'[w] = Stream(w, Len(got[w]) + 1) /\ Len(got'[w]) = Len(got[w]) + 1
    <3>1. Len(got[w]) \in Nat
      BY Counts
    <3>2. got'[w] = Stream(w, Len(got[w]) + 1)
      BY <1>13, <1>14, <2>1, <3>1, StreamNext
    <3>3. QED
      BY <3>1, <3>2, StreamSeq, Len(got[w]) + 1 \in Nat
  <2>3. GotInv(w)'
    BY <2>2 DEF GotInv
  <2>4. FdInv(l)'
    <3>1. Len(got'[w]) + 1 = Len(got[w]) + 2
      BY <2>2, Counts
    <3>2. user'[l] = w /\ localFdMap'[l] = "prepared"
      BY <1>8, <1>14, <2>1 DEF Prepared
    <3>3. QED
      BY <1>2, <1>13, <1>14, <3>1, <3>2 DEF FdInv, WaitingInv, PreparedInv
  <2>5. QED
    BY <2>3, <2>4
<1>15. ASSUME Prepared(l) /\ Forget(l) /\ UNCHANGED got
       PROVE  GotInv(w)' /\ FdInv(l)'
  <2>1. GotInv(w)'
    BY <1>7, <1>11, <1>15 DEF GotInv
  <2>2. user'[l] = NoUser /\ localFdMap'[l] = "none"
    BY <1>15 DEF Forget, TypeOK
  <2>3. FdInv(l)'
    BY <2>2 DEF FdInv, WaitingInv, PreparedInv
  <2>4. QED
    BY <2>1, <2>3
<1>16. ASSUME ~Prepared(l) /\ UNCHANGED <<user, localFdMap, got>>
       PROVE  GotInv(w)' /\ FdInv(l)'
  <2>1. GotInv(w)'
    BY <1>7, <1>11, <1>16 DEF GotInv
  <2>2. localFdMap'[l] # "prepared"
    BY <1>16 DEF Prepared
  <2>3. WaitingInv(l)'
    <3>1. CASE user[l] = NoUser
      BY <1>16, <3>1 DEF WaitingInv
    <3>2. CASE user[l] # NoUser
      <4>1. PICK u \in User : user[l] = u
        BY <3>2 DEF TypeOK
      <4>2. /\ got[u] = <<>>
            /\ localFdMap[l] = "waiting" => u \in refused \/ Asked(u) \/ Answered(u)
        BY <1>16, <3>2, <4>1 DEF Prepared, KeptApart, FdInv, WaitingInv
      <4>3. /\ got'[u] = <<>> /\ user'[l] = u
            /\ localFdMap'[l] = "waiting" => u \in refused' \/ Asked(u)' \/ Answered(u)'
        BY <1>2, <1>7, <1>10, <1>12, <1>16, <4>1, <4>2
      <4>4. QED
        BY <4>3 DEF WaitingInv, Asked, Answered
    <3>3. QED
      BY <3>1, <3>2
  <2>4. QED
    BY <2>1, <2>2, <2>3 DEF FdInv, PreparedInv
<1>17. GotInv(w)' /\ FdInv(l)'
  BY <1>4, <1>14, <1>15, <1>16
<1>18. UserInv(w)' /\ (Claims(w)' => Claims(w))
  <2>1. FreshInv(w)'
    BY <1>2, <1>3 DEF FreshInv
  <2>2. AskedInv(w)' /\ AnsweredInv(w)'
    BY <1>7, <1>12 DEF AskedInv, AnsweredInv
  <2>3. ServedInv(w)' /\ GivenInv(w)'
    BY <1>2, <1>7, <1>11 DEF ServedInv, GivenInv
  <2>4. Claims(w)' => Claims(w)
    BY <1>7, <1>12 DEF Claims
  <2>5. QED
    BY <1>17, <2>1, <2>2, <2>3, <2>4 DEF UserInv
<1>19. NumberInv'
  <2>1. UserNumbers' /\ HostNumbers'
    BY <1>1, <1>2, <1>6 DEF NumberInv, UserNumbers, HostNumbers, Served
  <2>2. MessageNumbers'
    BY <1>1, <1>2, MessagesKept DEF Moves, NumberInv
  <2>3. OneClaim'
    BY <1>1, <1>2, <1>10, <1>18, OneClaimKept DEF NumberInv
  <2>4. QED
    BY <2>1, <2>2, <2>3 DEF NumberInv
<1>20. ASSUME NEW k \in LocalFd, k # l PROVE FdInv(k)'
  <2>1. \A u \in User : user[k] = u => u # w
    BY <1>1, <1>3, <1>20, HasNumber, AbsentAssumption
  <2>2. FdFrame(k)
    BY <1>2, <1>6, <1>7, <1>9, <1>10, <1>20, <2>1 DEF FdFrame
  <2>3. QED
    BY <1>1, <2>2, FdKept DEF KeptApart, NumberInv
<1>21. QED
  <2>1. \A u \in User : UserInv(u)'
    BY <1>10, <1>18
  <2>2. \A k \in LocalFd : FdInv(k)'
    BY <1>17, <1>20
  <2>3. QED
    BY <1>19, <2>1, <2>2 DEF KeptApart

\* Three bytes arrive: garbage goes to the user of byte 3, who is closed.
LEMMA ShortArrivesKeeps ==
    ASSUME TypeOK, KeptApart, ShortArrives
    PROVE  KeptApart'
<1>1. NumberInv
  BY DEF KeptApart
<1>2. /\ s2c # <<>> /\ Head(s2c).type = "short" /\ s2c' = Tail(s2c)
      /\ UNCHANGED <<number, sent, c2s, sMap, h2lMap, writeBuf, hostSent, hostGot, refused>>
  BY DEF ShortArrives, Arrives, serverVars
<1>3. ASSUME NEW u \in User
      PROVE  /\ Asked(u)' <=> Asked(u)
             /\ \A k : Same(c2s, c2s', "request", k, u)
             /\ Served(u)' <=> Served(u)
             /\ Given(u)' = Given(u)
             /\ \A k : Same(s2c, s2c', "reply", k, u) /\ (Answered(u)' <=> Answered(u))
  <2>1. \A k : Same(s2c, s2c', "reply", k, u) /\ (Answered(u)' <=> Answered(u))
    BY <1>2, QuietDown
  <2>2. QED
    BY <1>2, <2>1, SameQueue DEF Asked, Served, Given
<1>4. MessageNumbers' /\ HostNumbers'
  <2>1. MessageNumbers'
    BY <1>1, <1>2, MessagesKept DEF Moves, NumberInv
  <2>2. QED
    BY <1>1, <1>2, <2>1 DEF NumberInv, HostNumbers, Served
<1>5. CASE UNCHANGED <<user, localFdMap, got>>
  <2>1. ASSUME NEW u \in User PROVE Quiet(u)
    BY <1>2, <1>3, <1>5 DEF Quiet, Holds
  <2>2. \A u \in User : UserInv(u)' /\ (Claims(u)' => Claims(u))
    BY <2>1, UserFrame DEF KeptApart
  <2>3. NumberInv'
    <3>1. UserNumbers'
      BY <1>1, <1>2, <1>5 DEF NumberInv, UserNumbers
    <3>2. OneClaim'
      BY <1>1, <1>2, <2>2, OneClaimKept DEF NumberInv
    <3>3. QED
      BY <1>4, <3>1, <3>2 DEF NumberInv
  <2>4. ASSUME NEW k \in LocalFd PROVE FdInv(k)'
    <3>1. FdFrame(k)
      BY <1>2, <1>3, <1>5 DEF FdFrame
    <3>2. QED
      BY <1>1, <3>1, FdKept DEF KeptApart, NumberInv
  <2>5. QED
    BY <2>2, <2>3, <2>4 DEF KeptApart
<1>6. CASE fourth # NoFd /\ Prepared(fourth)
  <2>1. PICK l \in LocalFd : fourth = l /\ Prepared(l)
    BY <1>6 DEF TypeOK
  <2>2. /\ Write(l, Garbage) \/ UNCHANGED got
        /\ Forget(l)
    BY <1>6, <2>1 DEF ShortArrives
  <2>3. user[l] # NoUser
    BY <1>1, <2>1 DEF NumberInv, UserNumbers, Prepared
  <2>4. PICK w \in User : user[l] = w
    BY <2>3 DEF TypeOK
  <2>5. /\ Holds(w) /\ number[w] = l /\ l # NoFd
        /\ \A k \in LocalFd : user[k] = w => k = l
    BY <1>1, <2>3, <2>4, HasNumber
  <2>6. /\ user'[l] = NoUser /\ \A k \in LocalFd : k # l => user'[k] = user[k]
        /\ localFdMap'[l] = "none" /\ \A k \in LocalFd : k # l => localFdMap'[k] = localFdMap[k]
        /\ \A u \in User : u # w => got'[u] = got[u]
        /\ got'[w] = Append(got[w], Garbage) \/ got'[w] = got[w]
    BY <2>2, <2>4 DEF Forget, Write, TypeOK
  <2>7. \A u \in User : Holds(u)' => Holds(u)
    BY <2>6, AbsentAssumption DEF Holds
  <2>8. \A u \in User : u # w => Quiet(u)
    BY <1>2, <1>3, <2>6, <2>7 DEF Quiet
  <2>9. \A u \in User : u # w => UserInv(u)' /\ (Claims(u)' => Claims(u))
    BY <2>8, UserFrame DEF KeptApart
  <2>10. UserInv(w)' /\ (Claims(w)' => Claims(w))
    <3>1. /\ FreshInv(w) /\ AskedInv(w) /\ ServedInv(w)
          /\ AnsweredInv(w) /\ GotInv(w) /\ GivenInv(w)
      BY DEF KeptApart, UserInv
    <3>2. ~Holds(w)'
      BY <2>5, <2>6, AbsentAssumption DEF Holds
    <3>3. GotInv(w)'
      <4>1. got[w] = Stream(w, Len(got[w]))
        BY <2>5, <3>1 DEF GotInv
      <4>2. CASE got'[w] = got[w]
        BY <4>1, <4>2 DEF GotInv
      <4>3. CASE got'[w] = Append(got[w], Garbage)
        <5>1. Len(got'[w]) = Len(got[w]) + 1 /\ Len(got[w]) \in Nat
          BY <4>3, Counts, AppendQueue
        <5>2. got'[w] # <<>> /\ Len(got'[w]) - 1 = Len(got[w])
          BY <5>1
        <5>3. got'[w] = Append(Stream(w, Len(got'[w]) - 1), Garbage)
          BY <4>1, <4>3, <5>2
        <5>4. QED
          BY <3>2, <5>2, <5>3 DEF GotInv
      <4>4. QED
        BY <2>6, <4>2, <4>3
    <3>4. FreshInv(w)'
      BY <1>2, <2>5 DEF FreshInv
    <3>5. AskedInv(w)'
      <4>1. ASSUME Asked(w)
            PROVE  /\ ~Served(w)' /\ ~Answered(w)'
                   /\ Leads(c2s, "request", number[w], w) /\ Numbered(c2s, w, 1, sent[w])
                   /\ Given(w)' = <<>> /\ hostSent[w] = 0 /\ Numbered(s2c', w, 1, hostSent[w])
        <5>1. AskedInv(w) /\ \A k : Same(s2c, s2c', "reply", k, w)
          BY <1>3, <3>1
        <5>2. QED
          BY <1>3, <4>1, <5>1, 0 \in Nat, 1 \in Nat DEF AskedInv, Same
      <4>2. QED
        BY <1>2, <1>3, <4>1 DEF AskedInv
    <3>6. AnsweredInv(w)'
      <4>1. ASSUME Answered(w)
            PROVE  Leads(s2c', "reply", number[w], w) /\ Numbered(s2c', w, 1, hostSent[w])
        <5>1. Same(s2c, s2c', "reply", number[w], w) /\ hostSent[w] \in Nat
          BY <1>3, Counts
        <5>2. QED
          BY <3>1, <4>1, <5>1, 1 \in Nat DEF AnsweredInv, Same
      <4>2. QED
        BY <1>2, <1>3, <4>1 DEF AnsweredInv
    <3>7. ServedInv(w)' /\ GivenInv(w)'
      BY <1>2, <1>3, <3>1 DEF ServedInv, GivenInv
    <3>8. Claims(w)' => Claims(w)
      BY <1>3, <2>7 DEF Claims
    <3>9. QED
      BY <3>3, <3>4, <3>5, <3>6, <3>7, <3>8 DEF UserInv
  <2>11. NumberInv'
    <3>1. UserNumbers'
      BY <1>1, <1>2, <2>6 DEF NumberInv, UserNumbers
    <3>2. OneClaim'
      BY <1>1, <1>2, <2>9, <2>10, OneClaimKept DEF NumberInv
    <3>3. QED
      BY <1>4, <3>1, <3>2 DEF NumberInv
  <2>12. ASSUME NEW k \in LocalFd PROVE FdInv(k)'
    <3>1. CASE k = l
      BY <2>6, <3>1 DEF FdInv, WaitingInv, PreparedInv
    <3>2. CASE k # l
      <4>1. \A u \in User : user[k] = u => u # w
        BY <2>5, <3>2
      <4>2. FdFrame(k)
        BY <1>2, <1>3, <2>6, <3>2, <4>1 DEF FdFrame
      <4>3. QED
        BY <1>1, <4>2, FdKept DEF KeptApart, NumberInv
    <3>3. QED
      BY <3>1, <3>2
  <2>13. QED
    BY <2>9, <2>10, <2>11, <2>12 DEF KeptApart
<1>7. QED
  BY <1>5, <1>6 DEF ShortArrives
-----------------------------------------------------------------------------
(* The server's steps.                                                     *)

\* What the server knows when it reads the request of w, who was given l.
LEMMA RequestRead ==
    ASSUME TypeOK, KeptApart, Read("request"), NEW w, NEW l,
           Head(c2s).of = w, Head(c2s).localFd = l
    PROVE  /\ w \in User /\ l \in LocalFd /\ l # NoFd /\ number[w] = l /\ Claims(w)
           /\ ~Served(w) /\ ~Answered(w)
           /\ ~Has(c2s', "request", w) /\ OnlyOf(c2s', l, w, 1) /\ Numbered(c2s', w, 1, sent[w])
           /\ Given(w) = <<>> /\ hostSent[w] = 0 /\ Numbered(s2c, w, 1, 0)
<1>1. c2s # <<>> /\ Head(c2s).type = "request" /\ c2s' = Tail(c2s)
  BY DEF Read
<1>2. c2s \in Seq(Requests \cup Pieces)
  BY DEF TypeOK
<1>3. /\ w \in User /\ l \in LocalFd /\ number[w] = l /\ Claims(w) /\ Asked(w)
      /\ Names(Head(c2s), "request", w)
  BY <1>1, HeadUp DEF KeptApart
<1>4. l # NoFd
  BY <1>3, AbsentAssumption
<1>5. AskedInv(w)
  BY <1>3 DEF KeptApart, UserInv
<1>6. /\ ~Served(w) /\ ~Answered(w) /\ Leads(c2s, "request", l, w) /\ Numbered(c2s, w, 1, sent[w])
      /\ Given(w) = <<>> /\ hostSent[w] = 0 /\ Numbered(s2c, w, 1, 0)
  BY <1>3, <1>5 DEF AskedInv
<1>7. ~Has(c2s', "request", w) /\ OnlyOf(c2s', l, w, 1)
  BY <1>1, <1>2, <1>3, <1>6, LeadsHead
<1>8. Numbered(c2s', w, 1, sent[w])
  <2>1. ~IsData(Head(c2s), w)
    BY <1>1 DEF IsData
  <2>2. QED
    BY <1>1, <1>2, <1>6, <2>1, NumberedTailOther
<1>9. QED
  BY <1>3, <1>4, <1>6, <1>7, <1>8

\* Read, with a reply sent: the number is named, or the user is a refused one; the host
\* is entered, or is not.
LEMMA AnswerKeeps ==
    ASSUME TypeOK, KeptApart, Read("request"), NEW w, NEW l,
           Head(c2s).of = w, Head(c2s).localFd = l,
           NEW n \in {l, NoFd}, s2c' = Append(s2c, Reply(n, w)),
           refused \subseteq refused', n = NoFd => w \in refused', writeBuf' = writeBuf,
           \/ UNCHANGED <<sMap, h2lMap>>
           \/ sMap' = [sMap EXCEPT ![l] = w] /\ h2lMap' = [h2lMap EXCEPT ![w] = l]
    PROVE  KeptApart'
<1> DEFINE m == Reply(n, w)
<1>1. /\ c2s # <<>> /\ c2s' = Tail(c2s)
      /\ UNCHANGED <<user, localFdMap, got, number, sent, hostSent, hostGot, writeBuf>>
  BY DEF Read, clientVars
<1>2. /\ w \in User /\ l \in LocalFd /\ l # NoFd /\ number[w] = l /\ Claims(w)
      /\ ~Served(w) /\ ~Answered(w)
      /\ ~Has(c2s', "request", w) /\ OnlyOf(c2s', l, w, 1) /\ Numbered(c2s', w, 1, sent[w])
      /\ Given(w) = <<>> /\ hostSent[w] = 0 /\ Numbered(s2c, w, 1, 0)
  BY RequestRead
<1>3. NumberInv
  BY DEF KeptApart
<1>4. /\ m \in Replies /\ m.type = "reply" /\ m.localFd = n /\ m.of = w
  BY <1>2, MakeMessages DEF Reply
<1> HIDE DEF m
<1>5. s2c \in Seq(Replies \cup Pieces \cup {Short}) /\ m \in Replies \cup Pieces \cup {Short}
      /\ s2c' = Append(s2c, m)
  BY <1>4 DEF TypeOK, m
<1>6. /\ \A u \in User : u # w => h2lMap'[u] = h2lMap[u]
      /\ \A k \in LocalFd : k # l => sMap'[k] = sMap[k]
      /\ \/ h2lMap'[w] = NoFd /\ sMap'[l] = sMap[l]
         \/ h2lMap'[w] = l /\ sMap'[l] = w
  BY <1>2 DEF TypeOK, Served
<1>7. ASSUME NEW u \in User, u # w
      PROVE  /\ Asked(u)' <=> Asked(u)
             /\ \A k : Same(s2c, s2c', "reply", k, u) /\ (Answered(u)' <=> Answered(u))
             /\ UserInv(u)' /\ (Claims(u)' => Claims(u))
  <2>1. \A k : Same(c2s, c2s', "request", k, u) /\ (Asked(u)' <=> Asked(u))
    BY <1>1, <1>7, QuietUp
  <2>2. \A k : Same(s2c, s2c', "reply", k, u) /\ (Answered(u)' <=> Answered(u))
    BY <1>4, <1>5, <1>7, QuietDown
  <2>3. Quiet(u)
    BY <1>1, <1>6, <1>7, <2>1, <2>2 DEF Quiet, Holds
  <2>4. QED
    BY <2>1, <2>2, <2>3, UserFrame DEF KeptApart
<1>8. Given(w)' = <<>> /\ ~Asked(w)'
  BY <1>1, <1>2 DEF Given, Asked
<1>9. ~IsData(m, w)
  BY <1>4 DEF IsData
<1>10. UserInv(w)'
  <2>1. /\ FreshInv(w) /\ GotInv(w) /\ GivenInv(w)
    BY <1>2 DEF KeptApart, UserInv
  <2>2. FreshInv(w)' /\ GotInv(w)' /\ GivenInv(w)'
    BY <1>1, <1>2, <1>8, <2>1 DEF FreshInv, GotInv, GivenInv, Holds
  <2>3. AskedInv(w)'
    BY <1>8 DEF AskedInv
  <2>4. ServedInv(w)'
    <3>1. Len(Given(w)') + 1 = 1
      BY <1>8
    <3>2. QED
      BY <1>1, <1>2, <3>1 DEF ServedInv
  <2>5. AnsweredInv(w)'
    <3>1. Leads(s2c', "reply", l, w)
      BY <1>2, <1>4, <1>5, LeadsFirst DEF Answered
    <3>2. Numbered(s2c', w, 1, 0)
      BY <1>2, <1>5, <1>9, NumberedAppendOther
    <3>3. QED
      BY <1>1, <1>2, <3>1, <3>2 DEF AnsweredInv
  <2>6. QED
    BY <2>2, <2>3, <2>4, <2>5 DEF UserInv
<1>11. NumberInv'
  <2>1. UserNumbers'
    BY <1>1, <1>3 DEF NumberInv, UserNumbers
  <2>2. MessageNumbers'
    <3>1. RightNumber(m)
      BY <1>2, <1>4 DEF RightNumber
    <3>2. QED
      BY <1>1, <1>3, <1>5, <3>1, MessagesKept DEF Moves, NumberInv
  <2>3. HostNumbers'
    <3>1. ASSUME NEW h \in User, Served(h)' PROVE h2lMap'[h] = number[h] /\ sMap'[number[h]] = h
      <4>1. CASE h = w
        BY <1>2, <1>6, <3>1, <4>1 DEF Served
      <4>2. CASE h # w
        <5>1. Served(h) /\ Claims(h)
          BY <1>6, <3>1, <4>2 DEF Served, Claims
        <5>2. number[h] # l /\ number[h] \in LocalFd
          BY <1>2, <1>3, <4>2, <5>1, OtherNumber, Counts DEF NumberInv, HostNumbers, Served
        <5>3. QED
          BY <1>3, <1>6, <4>2, <5>1, <5>2 DEF NumberInv, HostNumbers
      <4>3. QED
        BY <4>1, <4>2
    <3>2. ASSUME NEW k \in LocalFd, sMap'[k] # NoUser PROVE h2lMap'[sMap'[k]] = k
      <4>1. sMap'[k] = sMap[k] \/ (k = l /\ sMap'[k] = w /\ h2lMap'[w] = l)
        BY <1>6
      <4>2. ASSUME sMap'[k] = sMap[k] PROVE h2lMap'[sMap'[k]] = k
        <5>1. sMap[k] \in User /\ h2lMap[sMap[k]] = k
          BY <1>3, <3>2, <4>2 DEF NumberInv, HostNumbers, TypeOK
        <5>2. sMap[k] # w
          BY <1>2, <5>1, AbsentAssumption DEF Served
        <5>3. QED
          BY <1>6, <4>2, <5>1, <5>2
      <4>3. QED
        BY <4>1, <4>2
    <3>3. QED
      BY <1>1, <3>1, <3>2 DEF HostNumbers, Served
  <2>4. OneClaim'
    BY <1>1, <1>2, <1>3, <1>7, OneClaimKept DEF NumberInv
  <2>5. QED
    BY <2>1, <2>2, <2>3, <2>4 DEF NumberInv
<1>12. ASSUME NEW k \in LocalFd, user[k] # w PROVE FdInv(k)'
  <2>1. FdFrame(k)
    BY <1>1, <1>7, <1>12 DEF FdFrame
  <2>2. QED
    BY <1>3, <2>1, FdKept DEF KeptApart, NumberInv
<1>13. ASSUME NEW k \in LocalFd, user[k] = w PROVE FdInv(k)'
  <2>1. FdInv(k)
    BY DEF KeptApart
  <2>2. w # NoUser
    BY <1>2, AbsentAssumption
  <2>3. WaitingInv(k)'
    <3>1. w \in refused' \/ Answered(w)'
      <4>1. CASE n = NoFd
        BY <4>1
      <4>2. CASE n = l
        <5>1. Names(m, "reply", w)
          BY <1>2, <1>4, <4>2 DEF Names
        <5>2. QED
          BY <1>5, <5>1, HasAppend DEF Answered
      <4>3. QED
        BY <4>1, <4>2
    <3>2. localFdMap[k] # "prepared" => got[w] = <<>>
      BY <1>13, <2>1, <2>2 DEF FdInv, WaitingInv
    <3>3. QED
      BY <1>1, <1>13, <3>1, <3>2 DEF WaitingInv, Answered
  <2>4. PreparedInv(k)'
    <3>1. ASSUME localFdMap[k] = "prepared"
          PROVE  /\ OnlyOf(s2c', k, w, 1)
                 /\ Numbered(s2c', w, Len(got[w]) + 1, hostSent[w])
      <4>1. OnlyOf(s2c, k, w, 1) /\ Numbered(s2c, w, Len(got[w]) + 1, hostSent[w])
        BY <1>13, <2>1, <3>1 DEF FdInv, PreparedInv
      <4>2. QED
        BY <1>4, <1>5, <1>9, <4>1, OnlyOfAppend, NumberedAppendOther
    <3>2. QED
      BY <1>1, <1>13, <3>1 DEF PreparedInv
  <2>5. QED
    BY <2>3, <2>4 DEF FdInv
<1>14. QED
  <2>1. \A u \in User : UserInv(u)'
    BY <1>7, <1>10
  <2>2. \A k \in LocalFd : FdInv(k)'
    BY <1>12, <1>13
  <2>3. QED
    BY <1>11, <2>1, <2>2 DEF KeptApart

\* What the server does with a request: three ways to answer.
LEMMA RequestsKeep ==
    ASSUME TypeOK, KeptApart, Refuse \/ ConnectFails \/ Connect
    PROVE  KeptApart'
<1>1. PICK w, l : Head(c2s).of = w /\ Head(c2s).localFd = l
  OBVIOUS
<1>2. CASE Refuse
  <2>1. /\ Read("request") /\ s2c' = Append(s2c, Reply(NoFd, w)) /\ refused' = refused \cup {w}
        /\ writeBuf' = writeBuf /\ UNCHANGED <<sMap, h2lMap>>
    BY <1>1, <1>2 DEF Refuse, Send
  <2>2. QED
    BY <1>1, <2>1, AnswerKeeps
<1>3. CASE ConnectFails
  <2>1. Read("request") /\ s2c' = Append(s2c, Reply(l, w)) /\ refused' = refused
        /\ writeBuf' = writeBuf /\ UNCHANGED <<sMap, h2lMap>>
    BY <1>1, <1>3 DEF ConnectFails, Send
  <2>2. l # NoFd
    BY <1>1, <2>1, RequestRead
  <2>3. QED
    BY <1>1, <2>1, <2>2, AnswerKeeps
<1>4. CASE Connect
  <2>1. Read("request") /\ s2c' = Append(s2c, Reply(l, w)) /\ refused' = refused
        /\ writeBuf' = writeBuf
        /\ sMap' = [sMap EXCEPT ![l] = w] /\ h2lMap' = [h2lMap EXCEPT ![w] = l]
    BY <1>1, <1>4 DEF Connect, Send
  <2>2. l # NoFd
    BY <1>1, <2>1, RequestRead
  <2>3. QED
    BY <1>1, <2>1, <2>2, AnswerKeeps
<1>5. QED
  BY <1>2, <1>3, <1>4
\* A host that is connected.
LEMMA HasHost ==
    ASSUME TypeOK, KeptApart, NEW h \in User, Served(h)
    PROVE  /\ h2lMap[h] \in LocalFd /\ number[h] = h2lMap[h] /\ sMap[number[h]] = h
           /\ number[h] # NoFd /\ Claims(h) /\ ~Asked(h)
<1>1. h2lMap[h] \in LocalFd /\ h2lMap[h] # NoFd
  BY Counts DEF Served
<1>2. number[h] = h2lMap[h] /\ sMap[number[h]] = h
  BY DEF KeptApart, NumberInv, HostNumbers
<1>3. AskedInv(h)
  BY DEF KeptApart, UserInv
<1>4. QED
  BY <1>1, <1>2, <1>3 DEF Claims, AskedInv

\* A step of the server that leaves the numbers, the client and what comes down as they
\* are, and is about the data of one user.
LEMMA DataKeeps ==
    ASSUME TypeOK, KeptApart, NEW w \in User,
           UNCHANGED <<user, localFdMap, got, number, sent, s2c, sMap, h2lMap, hostSent, refused>>,
           \/ c2s' = c2s
           \/ /\ c2s # <<>> /\ c2s' = Tail(c2s)
              /\ Head(c2s).of = w /\ Head(c2s).type = "data",
           \A u \in User : u # w => hostGot'[u] = hostGot[u] /\ writeBuf'[u] = writeBuf[u],
           FreshInv(w)', GivenInv(w)', ServedInv(w)',
           Asked(w) => c2s' = c2s /\ Given(w)' = Given(w)
    PROVE  KeptApart'
<1>1. NumberInv
  BY DEF KeptApart
<1>2. c2s \in Seq(Requests \cup Pieces)
  BY DEF TypeOK
<1>3. ASSUME NEW u \in User
      PROVE  /\ Asked(u)' <=> Asked(u)
             /\ \A k : Same(s2c, s2c', "reply", k, u)
             /\ Answered(u)' <=> Answered(u)
             /\ Holds(u)' <=> Holds(u)
             /\ Served(u)' <=> Served(u)
             /\ Claims(u)' <=> Claims(u)
  <2>1. Asked(u)' <=> Asked(u)
    <3>1. CASE c2s' = c2s
      BY <3>1 DEF Asked
    <3>2. CASE c2s # <<>> /\ c2s' = Tail(c2s) /\ Head(c2s).type = "data"
      <4>1. ~Names(Head(c2s), "request", u)
        BY <3>2 DEF Names
      <4>2. QED
        BY <1>2, <3>2, <4>1, HasTail DEF Asked
    <3>3. QED
      BY <3>1, <3>2
  <2>2. /\ \A k : Same(s2c, s2c', "reply", k, u)
        /\ Answered(u)' <=> Answered(u)
        /\ Holds(u)' <=> Holds(u)
        /\ Served(u)' <=> Served(u)
    BY SameQueue DEF Answered, Holds, Served
  <2>3. QED
    BY <2>1, <2>2 DEF Claims
<1>4. ASSUME NEW u \in User, u # w PROVE UserInv(u)'
  <2>1. Same(c2s, c2s', "request", number[u], u)
    BY <1>4, QuietUp
  <2>2. Quiet(u)
    BY <1>3, <1>4, <2>1 DEF Quiet
  <2>3. QED
    BY <2>2, UserFrame DEF KeptApart
<1>5. UserInv(w)'
  <2>1. AskedInv(w) /\ AnsweredInv(w) /\ GotInv(w)
    BY DEF KeptApart, UserInv
  <2>2. AskedInv(w)'
    BY <1>3, <2>1 DEF AskedInv
  <2>3. AnsweredInv(w)' /\ GotInv(w)'
    BY <1>3, <2>1 DEF AnsweredInv, GotInv
  <2>4. QED
    BY <2>2, <2>3 DEF UserInv
<1>6. NumberInv'
  <2>1. UserNumbers' /\ HostNumbers'
    BY <1>1 DEF NumberInv, UserNumbers, HostNumbers, Served
  <2>2. MessageNumbers'
    BY <1>1, MessagesKept DEF Moves, NumberInv
  <2>3. OneClaim'
    BY <1>1, <1>3, OneClaimKept DEF NumberInv
  <2>4. QED
    BY <2>1, <2>2, <2>3 DEF NumberInv
<1>7. ASSUME NEW k \in LocalFd PROVE FdInv(k)'
  <2>1. FdFrame(k)
    BY <1>3 DEF FdFrame
  <2>2. QED
    BY <1>1, <2>1, FdKept DEF KeptApart, NumberInv
<1>8. QED
  BY <1>4, <1>5, <1>6, <1>7 DEF KeptApart

\* Data for a host: if the number has a host it is the next piece for this one.
LEMMA UploadKeeps ==
    ASSUME TypeOK, KeptApart, Upload
    PROVE  KeptApart'
<1> DEFINE m == Head(c2s)
<1>1. NumberInv
  BY DEF KeptApart
<1>2. /\ c2s # <<>> /\ m.type = "data" /\ c2s' = Tail(c2s)
      /\ UNCHANGED <<user, localFdMap, got, number, sent, s2c, sMap, h2lMap, hostSent, hostGot,
                     refused>>
  BY DEF Upload, Read, clientVars
<1>3. PICK w \in User, l \in LocalFd :
         /\ m.of = w /\ m.localFd = l /\ l # NoFd /\ number[w] = l /\ IsData(m, w)
         /\ m.data = <<w, m.data[2]>> /\ m.data \in Item
  <2>1. m.of \in User /\ m.localFd \in LocalFd /\ IsData(m, m.of) /\ number[m.of] = m.localFd
    BY <1>1, <1>2, HeadUp
  <2>2. m \in Pieces
    BY <1>2, Heads
  <2>3. QED
    BY <2>1, <2>2, PieceTypes, AbsentAssumption
<1>4. c2s \in Seq(Requests \cup Pieces)
  BY DEF TypeOK
<1>5. FreshInv(w)'
  BY <1>2, <1>3 DEF FreshInv
<1>6. ~Asked(w)
  <2>1. ASSUME Asked(w) PROVE FALSE
    <3>1. Leads(c2s, "request", number[w], w) /\ Has(c2s, "request", w)
      BY <2>1 DEF KeptApart, UserInv, AskedInv, Asked
    <3>2. ~IsData(m, w)
      BY <1>2, <1>4, <3>1, LeadsNoData
    <3>3. QED
      BY <1>3, <3>2
  <2>2. QED
    BY <2>1
<1>7. ServedInv(w) /\ GivenInv(w)
  BY DEF KeptApart, UserInv
<1>8. CASE sMap[l] = NoUser
  <2>1. writeBuf' = writeBuf
    BY <1>3, <1>8 DEF Upload
  <2>2. ~Served(w)
    BY <1>3, <1>8, HasHost, AbsentAssumption
  <2>3. GivenInv(w)' /\ ServedInv(w)'
    BY <1>2, <1>7, <2>1, <2>2 DEF GivenInv, Given, ServedInv, Served
  <2>4. QED
    BY <1>2, <1>3, <1>5, <1>6, <2>1, <2>3, DataKeeps
<1>9. CASE sMap[l] # NoUser
  <2>1. PICK h \in User : sMap[l] = h
    BY <1>9 DEF TypeOK
  <2>2. h2lMap[h] = l /\ Served(h)
    BY <1>1, <1>3, <1>9, <2>1 DEF NumberInv, HostNumbers, Served
  <2>3. number[h] = l
    BY <2>2, HasHost
  <2>4. h = w
    <3>1. OnlyOf(c2s, l, h, 1)
      BY <2>2, <2>3 DEF KeptApart, UserInv, ServedInv
    <3>2. 1 \in 1 .. Len(c2s) /\ m = c2s[1]
      BY <1>2, <1>4, TailQueue
    <3>3. QED
      BY <1>2, <1>3, <3>1, <3>2 DEF OnlyOf
  <2>5. OnlyOf(c2s, l, w, 1) /\ Numbered(c2s, w, Len(Given(w)) + 1, sent[w])
    BY <1>3, <1>7, <2>2, <2>4 DEF ServedInv
  <2>6. Len(Given(w)) \in Nat /\ Len(Given(w)) + 1 \in Nat /\ sent[w] \in Nat
    BY Counts
  <2>7. /\ m.data[2] = Len(Given(w)) + 1
        /\ Numbered(c2s', w, Len(Given(w)) + 1 + 1, sent[w])
        /\ OnlyOf(c2s', l, w, 1)
    BY <1>2, <1>3, <1>4, <2>5, <2>6, NumberedTailOwn, OnlyOfTail
  <2>8. /\ writeBuf'[w] = Append(writeBuf[w], m.data)
        /\ \A u \in User : u # w => writeBuf'[u] = writeBuf[u]
    BY <1>3, <1>9, <2>1, <2>4 DEF Upload, TypeOK
  <2>9. Given(w)' = Append(Given(w), m.data)
    <3>1. Given(w)' = hostGot[w] \o Append(writeBuf[w], m.data)
      BY <1>2, <2>8 DEF Given
    <3>2. hostGot[w] \in Seq(Item) /\ writeBuf[w] \in Seq(Item)
      BY Counts
    <3>3. QED
      BY <1>3, <3>1, <3>2, GivenMore DEF Given
  <2>10. /\ Given(w)' = Stream(w, Len(Given(w)) + 1)
         /\ Len(Given(w)') = Len(Given(w)) + 1
    <3>1. Given(w)' = Stream(w, Len(Given(w)) + 1)
      <4>1. m.data = <<w, Len(Given(w)) + 1>>
        BY <1>3, <2>7
      <4>2. Given(w) = Stream(w, Len(Given(w)))
        BY <1>7 DEF GivenInv
      <4>3. Append(Stream(w, Len(Given(w))), <<w, Len(Given(w)) + 1>>)
               = Stream(w, Len(Given(w)) + 1)
        BY <2>6, StreamNext
      <4>4. QED
        BY <2>9, <4>1, <4>2, <4>3
    <3>2. QED
      BY <2>6, <3>1, StreamSeq
  <2>11. GivenInv(w)'
    BY <2>10 DEF GivenInv
  <2>12. ServedInv(w)'
    BY <1>2, <1>3, <2>7, <2>10 DEF ServedInv
  <2>13. QED
    BY <1>2, <1>3, <1>5, <1>6, <2>8, <2>11, <2>12, DataKeeps
<1>10. QED
  BY <1>8, <1>9

\* A piece leaves the buffer for the host.
LEMMA FlushKeeps ==
    ASSUME TypeOK, KeptApart, NEW h \in User, Flush(h)
    PROVE  KeptApart'
<1>1. /\ Served(h) /\ writeBuf[h] # <<>>
      /\ hostGot'[h] = Append(hostGot[h], Head(writeBuf[h])) /\ writeBuf'[h] = Tail(writeBuf[h])
      /\ \A u \in User : u # h => hostGot'[u] = hostGot[u] /\ writeBuf'[u] = writeBuf[u]
      /\ UNCHANGED <<user, localFdMap, got, number, sent, c2s, s2c, sMap, h2lMap, hostSent,
                     refused>>
  BY DEF Flush, Connected, Served, clientVars, TypeOK
<1>2. Given(h)' = Given(h)
  BY <1>1, Counts, GivenWritten DEF Given
<1>3. number[h] # NoFd
  BY <1>1, HasHost
<1>4. FreshInv(h)'
  BY <1>1, <1>3 DEF FreshInv
<1>5. ServedInv(h) /\ GivenInv(h)
  BY DEF KeptApart, UserInv
<1>6. ServedInv(h)' /\ GivenInv(h)'
  BY <1>1, <1>2, <1>5 DEF ServedInv, GivenInv, Served
<1>7. QED
  BY <1>1, <1>2, <1>4, <1>6, DataKeeps
\* recv from a host: its next piece goes into the tunnel, under its user's number.
LEMMA HostDataKeeps ==
    ASSUME TypeOK, KeptApart, NEW h \in User, HostData(h)
    PROVE  KeptApart'
<1> DEFINE m == Data(h2lMap[h], h, hostSent[h] + 1)
<1>1. /\ Served(h) /\ hostSent[h] < MaxData /\ s2c' = Append(s2c, m)
      /\ hostSent' = [hostSent EXCEPT ![h] = @ + 1]
      /\ UNCHANGED <<user, localFdMap, got, number, sent, c2s, sMap, h2lMap, writeBuf, hostGot,
                     refused>>
  BY DEF HostData, Connected, Served, Send, clientVars
<1>2. NumberInv
  BY DEF KeptApart
<1>3. PICK l \in LocalFd :
         /\ h2lMap[h] = l /\ number[h] = l /\ l # NoFd /\ Claims(h) /\ ~Asked(h)
  BY <1>1, HasHost
<1>4. /\ m \in Pieces /\ m.type = "data" /\ m.localFd = l /\ m.of = h
      /\ m.data[2] = hostSent[h] + 1
  <2>1. hostSent[h] + 1 \in 1 .. MaxData
    BY <1>1, Counts, BoundAssumption
  <2>2. QED
    BY <1>3, <2>1, MakeMessages DEF Data
<1> HIDE DEF m
<1>5. s2c \in Seq(Replies \cup Pieces \cup {Short}) /\ m \in Replies \cup Pieces \cup {Short}
  BY <1>4 DEF TypeOK
<1>6. /\ hostSent[h] \in Nat /\ hostSent'[h] = hostSent[h] + 1
      /\ \A u \in User : u # h => hostSent'[u] = hostSent[u]
  BY <1>1, Counts DEF TypeOK
<1>7. IsData(m, h) /\ ~Names(m, "reply", h)
  BY <1>4 DEF IsData, Names
<1>8. ASSUME NEW u \in User
      PROVE  /\ Asked(u)' <=> Asked(u)
             /\ \A k : Same(c2s, c2s', "request", k, u)
             /\ Answered(u)' <=> Answered(u)
             /\ Holds(u)' <=> Holds(u)
             /\ Served(u)' <=> Served(u)
             /\ Claims(u)' <=> Claims(u)
             /\ Given(u)' = Given(u)
  <2>1. Answered(u)' <=> Answered(u)
    <3>1. ~Names(m, "reply", u)
      BY <1>4 DEF Names
    <3>2. QED
      BY <1>1, <1>5, <3>1, HasAppend DEF Answered
  <2>2. /\ Asked(u)' <=> Asked(u)
        /\ \A k : Same(c2s, c2s', "request", k, u)
        /\ Holds(u)' <=> Holds(u)
        /\ Served(u)' <=> Served(u)
        /\ Given(u)' = Given(u)
    BY <1>1, SameQueue DEF Asked, Holds, Served, Given
  <2>3. QED
    BY <2>1, <2>2 DEF Claims
<1>9. ASSUME NEW u \in User, u # h, NEW k, k # l PROVE Same(s2c, s2c', "reply", k, u)
  BY <1>1, <1>4, <1>5, <1>9, QuietDown
<1>10. ASSUME NEW u \in User, u # h PROVE UserInv(u)'
  <2>1. Claims(u) => number[u] # l
    BY <1>2, <1>3, <1>10, OtherNumber
  <2>2. Quiet(u)
    BY <1>1, <1>6, <1>8, <1>9, <1>10, <2>1 DEF Quiet
  <2>3. QED
    BY <2>2, UserFrame DEF KeptApart
<1>11. UserInv(h)'
  <2>1. ServedInv(h) /\ AnsweredInv(h) /\ GotInv(h) /\ GivenInv(h)
    BY DEF KeptApart, UserInv
  <2>2. FreshInv(h)' /\ AskedInv(h)'
    BY <1>1, <1>3, <1>8 DEF FreshInv, AskedInv
  <2>3. ServedInv(h)' /\ GotInv(h)' /\ GivenInv(h)'
    BY <1>1, <1>8, <2>1 DEF ServedInv, GotInv, GivenInv
  <2>4. AnsweredInv(h)'
    <3>1. Leads(s2c, "reply", l, h) => Leads(s2c', "reply", l, h)
      BY <1>1, <1>4, <1>5, <1>7, LeadsAppend
    <3>2. Numbered(s2c, h, 1, hostSent[h]) => Numbered(s2c', h, 1, hostSent[h] + 1)
      BY <1>1, <1>4, <1>5, <1>6, <1>7, NumberedAppendOwn, 1 \in Nat
    <3>3. QED
      BY <1>1, <1>3, <1>6, <1>8, <2>1, <3>1, <3>2 DEF AnsweredInv
  <2>5. QED
    BY <2>2, <2>3, <2>4 DEF UserInv
<1>12. NumberInv'
  <2>1. UserNumbers' /\ HostNumbers'
    BY <1>1, <1>2 DEF NumberInv, UserNumbers, HostNumbers, Served
  <2>2. MessageNumbers'
    <3>1. RightNumber(m)
      BY <1>3, <1>4 DEF RightNumber
    <3>2. QED
      BY <1>1, <1>2, <1>5, <3>1, MessagesKept DEF Moves, NumberInv
  <2>3. OneClaim'
    BY <1>1, <1>2, <1>8, OneClaimKept DEF NumberInv
  <2>4. QED
    BY <2>1, <2>2, <2>3 DEF NumberInv
<1>13. ASSUME NEW k \in LocalFd, user[k] # h PROVE FdInv(k)'
  <2>1. ASSUME NEW u \in User, user[k] = u PROVE u # h /\ k # l
    <3>1. u # h
      BY <1>13, <2>1
    <3>2. number[u] = k /\ Claims(u)
      BY <1>2, <2>1, HasNumber, AbsentAssumption
    <3>3. QED
      BY <1>2, <1>3, <3>1, <3>2, OtherNumber
  <2>2. FdFrame(k)
    BY <1>1, <1>6, <1>8, <1>9, <2>1 DEF FdFrame
  <2>3. QED
    BY <1>2, <2>2, FdKept DEF KeptApart, NumberInv
<1>14. ASSUME NEW k \in LocalFd, user[k] = h PROVE FdInv(k)'
  <2>1. k = l /\ h # NoUser
    BY <1>2, <1>3, <1>14, HasNumber, AbsentAssumption
  <2>2. FdInv(k)
    BY DEF KeptApart
  <2>3. WaitingInv(k)'
    <3>1. localFdMap[k] # "prepared" =>
             /\ got[h] = <<>>
             /\ localFdMap[k] = "waiting" => h \in refused \/ Asked(h) \/ Answered(h)
      BY <1>14, <2>1, <2>2 DEF FdInv, WaitingInv
    <3>2. localFdMap'[k] # "prepared" =>
             /\ got'[h] = <<>> /\ user'[k] = h
             /\ localFdMap'[k] = "waiting" => h \in refused' \/ Asked(h)' \/ Answered(h)'
      BY <1>1, <1>8, <1>14, <3>1
    <3>3. QED
      BY <3>2 DEF WaitingInv, Asked, Answered
  <2>4. PreparedInv(k)'
    <3>1. ASSUME localFdMap[k] = "prepared"
          PROVE  /\ OnlyOf(s2c', k, h, 1)
                 /\ Numbered(s2c', h, Len(got[h]) + 1, hostSent[h] + 1)
      <4>1. OnlyOf(s2c, k, h, 1) /\ Numbered(s2c, h, Len(got[h]) + 1, hostSent[h])
        BY <1>14, <2>2, <3>1 DEF FdInv, PreparedInv
      <4>2. Len(got[h]) + 1 \in Nat
        BY Counts
      <4>3. OnlyOf(s2c', k, h, 1)
        BY <1>1, <1>4, <1>5, <4>1, OnlyOfAppend
      <4>4. Numbered(s2c', h, Len(got[h]) + 1, hostSent[h] + 1)
        BY <1>1, <1>4, <1>5, <1>6, <1>7, <4>1, <4>2, NumberedAppendOwn
      <4>5. QED
        BY <4>3, <4>4
    <3>2. QED
      BY <1>1, <1>6, <1>14, <3>1 DEF PreparedInv
  <2>5. QED
    BY <2>3, <2>4 DEF FdInv
<1>15. QED
  <2>1. \A u \in User : UserInv(u)'
    BY <1>10, <1>11
  <2>2. \A k \in LocalFd : FdInv(k)'
    BY <1>13, <1>14
  <2>3. QED
    BY <1>12, <2>1, <2>2 DEF KeptApart

\* The host's entry is erased or not, a short reply is sent or not.
LEMMA HostEndKeeps ==
    ASSUME TypeOK, KeptApart, NEW h \in User, HostAgain(h) \/ HostFails(h) \/ HostCloses(h)
    PROVE  KeptApart'
<1>1. /\ Served(h)
      /\ s2c' = s2c \/ s2c' = Append(s2c, Short)
      /\ Erase(h) \/ UNCHANGED <<sMap, h2lMap, writeBuf>>
      /\ UNCHANGED <<user, localFdMap, got, number, sent, c2s, hostSent, hostGot, refused>>
  BY DEF HostAgain, HostFails, HostCloses, Connected, Served, Send, clientVars, serverVars
<1>2. NumberInv
  BY DEF KeptApart
<1>3. PICK l \in LocalFd :
         /\ h2lMap[h] = l /\ number[h] = l /\ sMap[l] = h /\ l # NoFd /\ Claims(h) /\ ~Asked(h)
  BY <1>1, HasHost
<1>4. /\ \A u \in User : u # h => h2lMap'[u] = h2lMap[u] /\ writeBuf'[u] = writeBuf[u]
      /\ \A k \in LocalFd : k # l => sMap'[k] = sMap[k]
      /\ \/ h2lMap'[h] = NoFd /\ writeBuf'[h] = <<>> /\ sMap'[l] = NoUser
         \/ UNCHANGED <<sMap, h2lMap, writeBuf>>
  BY <1>1, <1>3 DEF Erase, TypeOK
<1>5. ASSUME NEW u \in User
      PROVE  /\ Asked(u)' <=> Asked(u)
             /\ \A k : Same(c2s, c2s', "request", k, u)
             /\ \A k : Same(s2c, s2c', "reply", k, u) /\ (Answered(u)' <=> Answered(u))
             /\ Holds(u)' <=> Holds(u)
  <2>1. \A k : Same(s2c, s2c', "reply", k, u) /\ (Answered(u)' <=> Answered(u))
    BY <1>1, ShortTypes, QuietDown
  <2>2. QED
    BY <1>1, <2>1, SameQueue DEF Asked, Holds
<1>6. ASSUME NEW u \in User, u # h \/ UNCHANGED <<sMap, h2lMap, writeBuf>>
      PROVE  UserInv(u)' /\ (Claims(u)' => Claims(u))
  <2>1. Quiet(u)
    BY <1>1, <1>4, <1>5, <1>6 DEF Quiet
  <2>2. QED
    BY <2>1, UserFrame DEF KeptApart
<1>7. ASSUME h2lMap'[h] = NoFd, writeBuf'[h] = <<>>
      PROVE  UserInv(h)'
  <2>1. /\ AnsweredInv(h) /\ GotInv(h) /\ GivenInv(h)
    BY DEF KeptApart, UserInv
  <2>2. FreshInv(h)' /\ AskedInv(h)' /\ ServedInv(h)'
    BY <1>1, <1>3, <1>5, <1>7 DEF FreshInv, AskedInv, ServedInv, Served
  <2>3. GotInv(h)'
    BY <1>1, <1>5, <2>1 DEF GotInv
  <2>4. AnsweredInv(h)'
    <3>1. Same(s2c, s2c', "reply", number[h], h) /\ hostSent[h] \in Nat
      BY <1>5, Counts
    <3>2. QED
      BY <1>1, <1>5, <2>1, <3>1, 1 \in Nat DEF AnsweredInv, Same
  <2>5. GivenInv(h)'
    <3>1. Given(h)' = hostGot[h]
      BY <1>1, <1>7, Counts DEF Given
    <3>2. hostGot[h] = Stream(h, Len(hostGot[h]))
      BY <2>1, Counts, StreamPrefix DEF GivenInv, Given
    <3>3. QED
      BY <3>1, <3>2 DEF GivenInv
  <2>6. QED
    BY <2>2, <2>3, <2>4, <2>5 DEF UserInv
<1>8. UserInv(h)'
  BY <1>4, <1>6, <1>7
<1>9. NumberInv'
  <2>1. UserNumbers'
    BY <1>1, <1>2 DEF NumberInv, UserNumbers
  <2>2. MessageNumbers'
    BY <1>1, <1>2, ShortTypes, MessagesKept DEF Moves, NumberInv, RightNumber
  <2>3. HostNumbers'
    <3>1. CASE UNCHANGED <<sMap, h2lMap, writeBuf>>
      BY <1>1, <1>2, <3>1 DEF NumberInv, HostNumbers, Served
    <3>2. CASE h2lMap'[h] = NoFd /\ writeBuf'[h] = <<>> /\ sMap'[l] = NoUser
      <4>1. ASSUME NEW g \in User, Served(g)' PROVE h2lMap'[g] = number[g] /\ sMap'[number[g]] = g
        <5>1. g # h /\ Served(g)
          BY <1>4, <3>2, <4>1 DEF Served
        <5>2. h2lMap[g] = number[g] /\ sMap[number[g]] = g /\ number[g] \in LocalFd /\ Claims(g)
          BY <5>1, HasHost
        <5>3. number[g] # l
          BY <1>2, <1>3, <5>1, <5>2, OtherNumber
        <5>4. QED
          BY <1>4, <5>1, <5>2, <5>3
      <4>2. ASSUME NEW k \in LocalFd, sMap'[k] # NoUser PROVE h2lMap'[sMap'[k]] = k
        <5>1. k # l /\ sMap'[k] = sMap[k]
          BY <1>4, <3>2, <4>2
        <5>2. sMap[k] \in User /\ h2lMap[sMap[k]] = k
          BY <1>2, <4>2, <5>1 DEF NumberInv, HostNumbers, TypeOK
        <5>3. QED
          BY <1>3, <1>4, <5>1, <5>2
      <4>3. QED
        BY <1>1, <4>1, <4>2 DEF HostNumbers, Served
    <3>3. QED
      BY <1>4, <3>1, <3>2
  <2>4. OneClaim'
    BY <1>1, <1>2, <1>3, <1>6, OneClaimKept DEF NumberInv
  <2>5. QED
    BY <2>1, <2>2, <2>3, <2>4 DEF NumberInv
<1>10. ASSUME NEW k \in LocalFd PROVE FdInv(k)'
  <2>1. FdFrame(k)
    BY <1>1, <1>5 DEF FdFrame
  <2>2. QED
    BY <1>2, <2>1, FdKept DEF KeptApart, NumberInv
<1>11. QED
  <2>1. \A u \in User : UserInv(u)'
    BY <1>6, <1>8
  <2>2. QED
    BY <1>9, <1>10, <2>1 DEF KeptApart

-----------------------------------------------------------------------------
(* The invariant, and what follows from it.                                *)

\* The invariant holds before anybody connects.
LEMMA InitApart == Init => IInv
<1>1. SUFFICES ASSUME Init PROVE IInv
  OBVIOUS
<1>2. TypeOK
  <2>1. /\ <<>> \in Seq(Requests \cup Pieces) /\ <<>> \in Seq(Replies \cup Pieces \cup {Short})
        /\ <<>> \in Seq(Item) /\ <<>> \in Seq(Item \cup {Garbage})
    OBVIOUS
  <2>2. /\ user \in [LocalFd -> User \cup {NoUser}]
        /\ localFdMap \in [LocalFd -> {"none", "waiting", "prepared"}]
        /\ sMap \in [LocalFd -> User \cup {NoUser}]
        /\ h2lMap \in [User -> LocalFd \cup {NoFd}] /\ number \in [User -> LocalFd \cup {NoFd}]
    BY <1>1 DEF Init
  <2>3. /\ sent \in [User -> Nat] /\ hostSent \in [User -> Nat]
        /\ writeBuf \in [User -> Seq(Item)] /\ hostGot \in [User -> Seq(Item)]
        /\ got \in [User -> Seq(Item \cup {Garbage})]
    BY <1>1, <2>1 DEF Init
  <2>4. QED
    BY <1>1, <2>1, <2>2, <2>3 DEF Init, TypeOK
<1>3. Len(c2s) = 0 /\ Len(s2c) = 0
  BY <1>1 DEF Init
<1>4. ASSUME NEW u \in User
      PROVE  /\ ~Holds(u) /\ ~Asked(u) /\ ~Served(u) /\ ~Answered(u)
             /\ got[u] = <<>> /\ Given(u) = <<>>
  <2>1. \A l \in LocalFd : user[l] = NoUser
    BY <1>1 DEF Init
  <2>2. hostGot[u] = <<>> /\ writeBuf[u] = <<>> /\ h2lMap[u] = NoFd /\ got[u] = <<>>
    BY <1>1 DEF Init
  <2>3. QED
    BY <1>3, <2>1, <2>2, AbsentAssumption DEF Holds, Asked, Served, Answered, Has, Given
<1>5. NumberInv
  <2>1. UserNumbers /\ HostNumbers
    BY <1>1, <1>4 DEF Init, UserNumbers, HostNumbers
  <2>2. MessageNumbers
    BY <1>3 DEF MessageNumbers
  <2>3. OneClaim
    BY <1>4 DEF OneClaim, Claims
  <2>4. QED
    BY <2>1, <2>2, <2>3 DEF NumberInv
<1>6. ASSUME NEW u \in User PROVE UserInv(u)
  <2>1. FreshInv(u)
    BY <1>1 DEF Init, FreshInv
  <2>2. AskedInv(u) /\ ServedInv(u) /\ AnsweredInv(u)
    BY <1>4 DEF AskedInv, ServedInv, AnsweredInv
  <2>3. Stream(u, 0) = <<>>
    BY StreamSeq, 0 \in Nat
  <2>4. GotInv(u) /\ GivenInv(u)
    BY <1>4, <2>3 DEF GotInv, GivenInv
  <2>5. QED
    BY <2>1, <2>2, <2>4 DEF UserInv
<1>7. ASSUME NEW l \in LocalFd PROVE FdInv(l)
  BY <1>1 DEF Init, FdInv, WaitingInv, PreparedInv
<1>8. QED
  BY <1>2, <1>5, <1>6, <1>7 DEF IInv, KeptApart

\* Every step keeps it.
LEMMA NextApart == IInv /\ [Next]_vars => IInv'
<1>1. SUFFICES ASSUME IInv, [Next]_vars PROVE IInv'
  OBVIOUS
<1>2. TypeOK /\ TypeOK'
  BY <1>1, TypesKept DEF IInv
<1>3. ASSUME ~reused' PROVE ~reused
  <2>1. ASSUME NEW l \in LocalFd, NEW u \in User, AcceptUser(u, l) \/ AcceptHalf(u, l)
        PROVE  ~reused
    BY <1>3, <2>1 DEF AcceptUser, AcceptHalf, Accepted
  <2>2. ASSUME ~\E l \in LocalFd, u \in User : AcceptUser(u, l) \/ AcceptHalf(u, l)
        PROVE  reused' = reused
    BY <1>1, <2>2 DEF Next, ClientStep, ServerStep, UserData, UserGone, ReplyArrives, DataArrives,
       ShortArrives, Arrives, Refuse, ConnectFails, Connect, Upload, Read, HostData, HostAgain,
       HostFails, HostCloses, Flush, clientVars, vars
  <2>3. QED
    BY <1>3, <2>1, <2>2
<1>4. ASSUME ~reused' PROVE KeptApart'
  <2>1. KeptApart
    BY <1>1, <1>3, <1>4 DEF IInv
  <2>2. CASE ClientStep
    BY <1>2, <1>4, <2>1, <2>2, AcceptKeeps, UserDataKeeps, UserGoneKeeps, ReplyArrivesKeeps,
       DataArrivesKeeps, ShortArrivesKeeps DEF ClientStep
  <2>3. CASE ServerStep
    BY <1>2, <2>1, <2>3, RequestsKeep, UploadKeeps, HostDataKeeps, HostEndKeeps, FlushKeeps
       DEF ServerStep
  <2>4. CASE UNCHANGED vars
    <3>1. /\ UNCHANGED <<user, localFdMap, got, number, sent, c2s, s2c, sMap, h2lMap, writeBuf>>
          /\ UNCHANGED <<hostSent, hostGot, refused>>
      BY <2>4 DEF vars, clientVars, serverVars
    <3>2. ASSUME NEW u \in User
          PROVE  Quiet(u) /\ \A k : Same(s2c, s2c', "reply", k, u)
      BY <3>1, SameQueue DEF Quiet, Holds, Asked, Answered
    <3>3. \A u \in User : UserInv(u)' /\ (Claims(u)' => Claims(u))
      BY <1>2, <2>1, <3>2, UserFrame DEF KeptApart
    <3>4. ASSUME NEW l \in LocalFd PROVE FdInv(l)'
      <4>1. FdFrame(l)
        BY <3>1, <3>2 DEF FdFrame, Quiet
      <4>2. QED
        BY <1>2, <2>1, <4>1, FdKept DEF KeptApart, NumberInv
    <3>5. UserNumbers' /\ HostNumbers' /\ MessageNumbers'
      BY <2>1, <3>1 DEF KeptApart, NumberInv, UserNumbers, HostNumbers, MessageNumbers,
         RightNumber, Served
    <3>6. OneClaim'
      BY <2>1, <3>1, <3>3, OneClaimKept DEF KeptApart, NumberInv
    <3>7. QED
      BY <3>3, <3>4, <3>5, <3>6 DEF KeptApart, NumberInv
  <2>5. QED
    BY <1>1, <2>2, <2>3, <2>4 DEF Next
<1>5. QED
  BY <1>2, <1>4 DEF IInv

\* The invariant: everything is where it belongs by its type, and as long as no number is
\* given on while it is in use, each number in a table or a message is that of the user it
\* belongs to, no two users have a claim to one, and the data of each user and of its host
\* is where its place in the connection says.
THEOREM Invariant == Spec => []IInv
<1>1. QED
  BY InitApart, NextApart, PTL DEF Spec

\* Whatever arrives, in whatever order, the tables, queues and buffers keep their types.
THEOREM TypesStay == Spec => []TypeOK
<1>1. IInv => TypeOK
  BY DEF IInv
<1>2. QED
  BY <1>1, Invariant, PTL

\* As long as no number is given on while it is in use, a user gets what its own host has
\* sent, from the first piece on and in order; garbage from a short reply ends it.
THEOREM EachUserGetsItsHost == Spec => []UsersGetTheirHost
<1>1. IInv => UsersGetTheirHost
  <2>1. SUFFICES ASSUME IInv, ~reused, NEW u \in User
                 PROVE  /\ Clean(got[u]) = Stream(u, Len(Clean(got[u])))
                        /\ got[u] # Clean(got[u]) => \A l \in LocalFd : user[l] # u
    BY DEF UsersGetTheirHost
  <2>2. TypeOK /\ GotInv(u)
    BY <2>1 DEF IInv, KeptApart, UserInv
  <2>3. Len(got[u]) \in Nat
    BY <2>2, Counts
  <2>4. CASE got[u] = Stream(u, Len(got[u]))
    <3>1. Clean(got[u]) = got[u]
      BY <2>3, <2>4, CleanStream
    <3>2. QED
      BY <2>4, <3>1
  <2>5. CASE /\ ~Holds(u)
             /\ got[u] # <<>> /\ got[u] = Append(Stream(u, Len(got[u]) - 1), Garbage)
    <3>1. Len(got[u]) - 1 \in Nat
      <4>1. Len(got[u]) # 0
        BY <2>2, <2>5, Counts
      <4>2. QED
        BY <2>3, <4>1
    <3>2. Clean(got[u]) = Stream(u, Len(got[u]) - 1)
      BY <2>5, <3>1, CleanStream
    <3>3. Len(Clean(got[u])) = Len(got[u]) - 1
      BY <3>1, <3>2, StreamSeq
    <3>4. QED
      BY <2>5, <3>2, <3>3 DEF Holds
  <2>6. QED
    BY <2>2, <2>4, <2>5 DEF GotInv
<1>2. QED
  BY <1>1, Invariant, PTL

\* As long as no number is given on while it is in use, a host gets what its own user has
\* sent, in order and without a gap.
THEOREM EachHostGetsItsUser == Spec => []HostsGetTheirUser
<1>1. IInv => HostsGetTheirUser
  BY DEF IInv, KeptApart, UserInv, GivenInv, Given, HostsGetTheirUser
<1>2. QED
  BY <1>1, Invariant, PTL

\* As long as no number is given on while it is in use, a user who waits and was not
\* refused has its request or a reply to it in the tunnel.
THEOREM WaitersAreAnswered == Spec => []AnswersAreComing
<1>1. IInv => AnswersAreComing
  <2>1. SUFFICES ASSUME IInv, ~reused, NEW l \in LocalFd, localFdMap[l] = "waiting"
                 PROVE  \/ user[l] \in refused
                        \/ Contains(c2s, Request(l, user[l]))
                        \/ Contains(s2c, Reply(l, user[l]))
    BY DEF AnswersAreComing
  <2>2. TypeOK /\ NumberInv /\ WaitingInv(l)
    BY <2>1 DEF IInv, KeptApart, FdInv
  <2>3. user[l] # NoUser
    BY <2>1, <2>2 DEF NumberInv, UserNumbers
  <2>4. PICK u \in User : user[l] = u
    BY <2>2, <2>3 DEF TypeOK
  <2>5. number[u] = l
    BY <2>2, <2>3, <2>4, HasNumber
  <2>6. u \in refused \/ Asked(u) \/ Answered(u)
    BY <2>1, <2>2, <2>3, <2>4 DEF WaitingInv
  <2>7. ASSUME Asked(u) PROVE Contains(c2s, Request(l, u))
    <3>1. PICK i \in 1 .. Len(c2s) : Names(c2s[i], "request", u)
      BY <2>7 DEF Asked, Has
    <3>2. c2s[i] \in Requests
      BY <2>2, <3>1, QueueTypes, PieceTypes DEF Names
    <3>3. c2s[i].localFd = l
      BY <2>2, <2>5, <3>1 DEF Names, NumberInv, MessageNumbers, RightNumber
    <3>4. c2s[i] = Request(l, u)
      BY <3>1, <3>2, <3>3, RequestTypes DEF Names
    <3>5. QED
      BY <3>4 DEF Contains
  <2>8. ASSUME Answered(u) PROVE Contains(s2c, Reply(l, u))
    <3>1. PICK i \in 1 .. Len(s2c) : Names(s2c[i], "reply", u)
      BY <2>8 DEF Answered, Has
    <3>2. s2c[i] \in Replies
      BY <2>2, <3>1, QueueTypes, PieceTypes, ShortTypes DEF Names
    <3>3. s2c[i].localFd = l
      BY <2>2, <2>5, <3>1 DEF Names, NumberInv, MessageNumbers, RightNumber
    <3>4. s2c[i] = Reply(l, u)
      BY <3>1, <3>2, <3>3, ReplyTypes DEF Names
    <3>5. QED
      BY <3>4 DEF Contains
  <2>9. QED
    BY <2>4, <2>6, <2>7, <2>8
<1>2. QED
  BY <1>1, Invariant, PTL
=============================================================================
