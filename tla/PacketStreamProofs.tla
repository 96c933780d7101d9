------------------------- MODULE PacketStreamProofs -------------------------
(***************************************************************************)
(* Proofs about PacketStream, for every size of the rings and every number *)
(* of threads at both sides.                                               *)
(*                                                                         *)
(* Whatever order the two accesses of 'add' and 'get' take, the indices    *)
(* stay in their ranges, the locks keep the threads of a side apart, and   *)
(* nobody but the transmitter fills a ring or but the receiver empties it. *)
(* When they take program order, no signal is missed and the stream is two *)
(* bounded FIFO channels (PacketFlow).                                     *)
(***************************************************************************)
EXTENDS PacketStream, SequenceTheorems, TLAPS

---------------------------------------------------------------------------
(***************************************************************************)
(* Rings of N slots with _head h and _tail t                               *)
(***************************************************************************)

\* Indices wrap around at the end of a ring.
Mod(i, N) == i % N

\* An index plus a distance that wraps once at most
LEMMA WrapIndex ==
  ASSUME NEW N \in Nat, N >= 2, NEW i \in 0 .. 2 * N - 1
  PROVE  Mod(i, N) = (IF i < N THEN i ELSE i - N) /\ Mod(i, N) \in 0 .. N - 1
<1>1. CASE i < N
  <2>1. i \in Nat /\ i >= 0 /\ i < N
    BY <1>1
  <2>2. i % N = i
    BY <2>1
  <2>3. QED BY <1>1, <2>2 DEF Mod
<1>2. CASE i >= N
  <2>1. i \in Nat /\ i >= N /\ i < 2 * N
    BY <1>2
  <2>2. i % N = i - N
    BY <2>1
  <2>3. QED BY <1>2, <2>1, <2>2 DEF Mod
<1>3. QED BY <1>1, <1>2

\* What 'add' and 'get' do to full, empty, single_element and single_slot_free
LEMMA IndexProps ==
  ASSUME NEW N \in Nat, N >= 2, NEW h \in 0 .. N - 1, NEW t \in 0 .. N - 1
  PROVE  /\ Mod(h + 1, N) \in 0 .. N - 1
         /\ h # t => Mod(h + 1, N) # Mod(t + 1, N)
         /\ Mod(h + 1, N) = t => Mod(h + 2, N) = Mod(t + 1, N)
<1>1. h + 1 \in 0 .. 2 * N - 1 /\ h + 2 \in 0 .. 2 * N - 1 /\ t + 1 \in 0 .. 2 * N - 1
  OBVIOUS
<1>2. /\ Mod(h + 1, N) = (IF h + 1 < N THEN h + 1 ELSE h + 1 - N)
      /\ Mod(h + 2, N) = (IF h + 2 < N THEN h + 2 ELSE h + 2 - N)
      /\ Mod(t + 1, N) = (IF t + 1 < N THEN t + 1 ELSE t + 1 - N)
  BY <1>1, WrapIndex
<1>3. QED BY <1>2

\* The number of packets in a ring, and the slot of the i-th one
Used(N, h, t) == Mod(h + N - t, N)
Place(N, t, i) == Mod(t + (i - 1), N)

\* The content of a ring with slots s, from _tail to _head
Ring(N, h, t, s) == [i \in 1 .. Used(N, h, t) |-> s[Place(N, t, i)]]

\* Its length, and the index of each item
LEMMA RingLength ==
  ASSUME NEW N \in Nat, N >= 2, NEW h \in 0 .. N - 1, NEW t \in 0 .. N - 1
  PROVE  /\ Used(N, h, t) = (IF h < t THEN h + N - t ELSE h - t)
         /\ Used(N, h, t) \in 0 .. N - 1
         /\ \A i \in 1 .. Used(N, h, t) :
              /\ Place(N, t, i) = (IF t + (i - 1) < N THEN t + (i - 1) ELSE t + (i - 1) - N)
              /\ Place(N, t, i) \in 0 .. N - 1
              /\ Place(N, t, i) # h
<1>1. h + N - t \in 0 .. 2 * N - 1 /\ (h + N - t < N <=> h < t) /\ (h + N - t) - N = h - t
  OBVIOUS
<1>2. /\ Used(N, h, t) = (IF h < t THEN h + N - t ELSE h - t)
      /\ Used(N, h, t) \in 0 .. N - 1
  BY <1>1, WrapIndex DEF Used
<1>3. ASSUME NEW i \in 1 .. Used(N, h, t)
      PROVE  /\ Place(N, t, i) = (IF t + (i - 1) < N THEN t + (i - 1) ELSE t + (i - 1) - N)
             /\ Place(N, t, i) \in 0 .. N - 1
             /\ Place(N, t, i) # h
  <2>1. i \in Nat /\ i >= 1 /\ i <= (IF h < t THEN h + N - t ELSE h - t)
    BY <1>2, <1>3
  <2>2. t + (i - 1) \in 0 .. 2 * N - 1
    BY <2>1
  <2>3. /\ Place(N, t, i) = (IF t + (i - 1) < N THEN t + (i - 1) ELSE t + (i - 1) - N)
        /\ Place(N, t, i) \in 0 .. N - 1
    BY <2>2, WrapIndex DEF Place
  <2>4. QED BY <2>1, <2>3
<1>4. QED BY <1>2, <1>3

\* The content is a sequence, full with N - 1 packets.
LEMMA RingProps ==
  ASSUME NEW S, NEW N \in Nat, N >= 2, NEW h \in 0 .. N - 1, NEW t \in 0 .. N - 1,
         NEW s \in [0 .. N - 1 -> S]
  PROVE  /\ Ring(N, h, t, s) \in Seq(S)
         /\ Len(Ring(N, h, t, s)) = Used(N, h, t)
         /\ Mod(h + 1, N) # t => Len(Ring(N, h, t, s)) < N - 1
<1> DEFINE c == Used(N, h, t)
           r == Ring(N, h, t, s)
<1>1. /\ c = (IF h < t THEN h + N - t ELSE h - t) /\ c \in 0 .. N - 1
      /\ \A i \in 1 .. c : Place(N, t, i) \in 0 .. N - 1
  BY RingLength, ZenonT(60)
<1>2. r = [i \in 1 .. c |-> s[Place(N, t, i)]]
  BY DEF Ring
<1> HIDE DEF c, r
<1>3. r \in [1 .. c -> S] /\ c \in Nat
  BY <1>1, <1>2
<1>4. r \in Seq(S) /\ Len(r) = c
  BY <1>3
<1>5. Mod(h + 1, N) # t => c < N - 1
  <2>1. h + 1 \in 0 .. 2 * N - 1
    OBVIOUS
  <2>2. Mod(h + 1, N) = (IF h + 1 < N THEN h + 1 ELSE h + 1 - N)
    BY <2>1, WrapIndex
  <2>3. QED BY <1>1, <2>2
<1>6. QED BY <1>4, <1>5 DEF c, r

\* It is empty when the indices meet, whatever the slots.
LEMMA RingEmpty ==
  ASSUME NEW N \in Nat, N >= 2, NEW h \in 0 .. N - 1, NEW s
  PROVE  Ring(N, h, h, s) = <<>>
<1>1. Used(N, h, h) = 0
  BY RingLength
<1>2. QED BY <1>1 DEF Ring

\* A store into the slot at _head is not visible in the content.
LEMMA RingWrite ==
  ASSUME NEW N \in Nat, N >= 2, NEW h \in 0 .. N - 1, NEW t \in 0 .. N - 1,
         NEW s, NEW z, \A i \in 0 .. N - 1 : i # h => z[i] = s[i]
  PROVE  Ring(N, h, t, z) = Ring(N, h, t, s)
<1> DEFINE c == Used(N, h, t)
<1>1. \A i \in 1 .. c : Place(N, t, i) \in 0 .. N - 1 /\ Place(N, t, i) # h
  BY RingLength
<1> HIDE DEF c
<1>2. \A i \in 1 .. c : z[Place(N, t, i)] = s[Place(N, t, i)]
  BY <1>1
<1>3. [i \in 1 .. c |-> z[Place(N, t, i)]] = [i \in 1 .. c |-> s[Place(N, t, i)]]
  BY <1>2
<1>4. QED BY <1>3 DEF Ring, c

\* Moving _head appends the packet in the slot that it leaves.
LEMMA RingAdd ==
  ASSUME NEW S, NEW N \in Nat, N >= 2, NEW h \in 0 .. N - 1, NEW t \in 0 .. N - 1,
         NEW s \in [0 .. N - 1 -> S], Mod(h + 1, N) # t
  PROVE  Ring(N, Mod(h + 1, N), t, s) = Append(Ring(N, h, t, s), s[h])
<1> DEFINE g == Mod(h + 1, N)
           c == Used(N, h, t)
           a == Ring(N, h, t, s)
           b == Ring(N, g, t, s)
<1>1. h + 1 \in 0 .. 2 * N - 1
  OBVIOUS
<1>2. g \in 0 .. N - 1 /\ g = (IF h + 1 < N THEN h + 1 ELSE h + 1 - N) /\ g # t
  BY <1>1, WrapIndex
<1> HIDE DEF g
<1>3. /\ c = (IF h < t THEN h + N - t ELSE h - t) /\ c \in 0 .. N - 1
      /\ Used(N, g, t) = (IF g < t THEN g + N - t ELSE g - t)
  BY <1>2, RingLength, ZenonT(60)
<1> HIDE DEF c
<1>4. Used(N, g, t) = c + 1 /\ c \in Nat
  BY <1>2, <1>3
<1>5. a \in Seq(S) /\ Len(a) = c /\ a = [i \in 1 .. c |-> s[Place(N, t, i)]]
  BY RingProps DEF Ring, c
<1>6. b \in Seq(S) /\ Len(b) = c + 1 /\ b = [i \in 1 .. c + 1 |-> s[Place(N, t, i)]]
  BY <1>2, <1>4, RingProps DEF Ring
<1> HIDE DEF a, b
<1>7. Mod(t + c, N) = h
  <2> DEFINE j == t + c
  <2>1. j \in 0 .. 2 * N - 1 /\ (j = h \/ j = h + N)
    BY <1>3
  <2> HIDE DEF j
  <2>2. Mod(j, N) = (IF j < N THEN j ELSE j - N)
    BY <2>1, WrapIndex
  <2>3. Mod(j, N) = h
    BY <2>1, <2>2
  <2>4. QED BY <2>3 DEF j
<1>8. b[c + 1] = s[h]
  <2>1. c + 1 \in 1 .. c + 1 /\ c + 1 - 1 = c
    BY <1>4
  <2>2. b[c + 1] = s[Place(N, t, c + 1)]
    BY <1>6, <2>1
  <2>3. Place(N, t, c + 1) = h
    <3> DEFINE k == c + 1
    <3>1. k - 1 = c
      BY <1>4
    <3> HIDE DEF k
    <3>2. Place(N, t, k) = Mod(t + (k - 1), N)
      BY DEF Place
    <3>3. Place(N, t, k) = h
      BY <1>7, <3>1, <3>2
    <3>4. QED BY <3>3 DEF k
  <2>4. QED BY <2>2, <2>3
<1>9. \A i \in 1 .. c : b[i] = a[i]
  BY <1>4, <1>5, <1>6
<1>10. s[h] \in S
  OBVIOUS
<1> DEFINE d == Append(a, s[h])
<1>11. d \in Seq(S) /\ Len(d) = c + 1 /\ d[c + 1] = s[h] /\ \A i \in 1 .. c : d[i] = a[i]
  BY <1>4, <1>5, <1>10
<1> HIDE DEF d
<1>12. b = d
  <2>1. \A i \in 1 .. Len(b) : b[i] = d[i]
    <3>1. \A i \in 1 .. c + 1 : i \in 1 .. c \/ i = c + 1
      BY <1>4
    <3>2. QED BY <1>6, <1>8, <1>9, <1>11, <3>1
  <2>2. Len(b) = Len(d)
    BY <1>6, <1>11
  <2>3. QED BY <1>6, <1>11, <2>1, <2>2, SeqEqual
<1>13. QED BY <1>12 DEF b, d, a, g

\* Moving _tail removes the packet in the slot that it leaves.
LEMMA RingGet ==
  ASSUME NEW S, NEW N \in Nat, N >= 2, NEW h \in 0 .. N - 1, NEW t \in 0 .. N - 1,
         NEW s \in [0 .. N - 1 -> S], h # t
  PROVE  /\ Ring(N, h, Mod(t + 1, N), s) = Tail(Ring(N, h, t, s))
         /\ Head(Ring(N, h, t, s)) = s[t]
         /\ Ring(N, h, t, s) # <<>>
<1> DEFINE g == Mod(t + 1, N)
           c == Used(N, h, t)
           a == Ring(N, h, t, s)
           b == Ring(N, h, g, s)
<1>1. t + 1 \in 0 .. 2 * N - 1
  OBVIOUS
<1>2. g \in 0 .. N - 1 /\ g = (IF t + 1 < N THEN t + 1 ELSE t + 1 - N)
  BY <1>1, WrapIndex
<1> HIDE DEF g
<1>3. \A x \in 0 .. N - 1 :
        /\ Used(N, h, x) = (IF h < x THEN h + N - x ELSE h - x)
        /\ Used(N, h, x) \in 0 .. N - 1
        /\ \A i \in 1 .. Used(N, h, x) :
             Place(N, x, i) = (IF x + (i - 1) < N THEN x + (i - 1) ELSE x + (i - 1) - N)
  <2>1. SUFFICES ASSUME NEW x \in 0 .. N - 1
                 PROVE  /\ Used(N, h, x) = (IF h < x THEN h + N - x ELSE h - x)
                        /\ Used(N, h, x) \in 0 .. N - 1
                        /\ \A i \in 1 .. Used(N, h, x) :
                             Place(N, x, i) = (IF x + (i - 1) < N THEN x + (i - 1) ELSE x + (i - 1) - N)
    OBVIOUS
  <2>2. QED BY RingLength
<1>4. /\ Used(N, h, g) = (IF h < g THEN h + N - g ELSE h - g)
      /\ c = (IF h < t THEN h + N - t ELSE h - t) /\ c \in 0 .. N - 1
  BY <1>2, <1>3
<1>5. \A i \in 1 .. c :
        Place(N, t, i) = (IF t + (i - 1) < N THEN t + (i - 1) ELSE t + (i - 1) - N)
  BY <1>3
<1>6. \A i \in 1 .. Used(N, h, g) :
        Place(N, g, i) = (IF g + (i - 1) < N THEN g + (i - 1) ELSE g + (i - 1) - N)
  BY <1>2, <1>3
<1> HIDE DEF c
<1>7. Used(N, h, g) = c - 1 /\ c \in Nat /\ c >= 1 /\ c - 1 \in Nat
  BY <1>2, <1>4
<1>8. a \in Seq(S) /\ Len(a) = c /\ a = [i \in 1 .. c |-> s[Place(N, t, i)]]
  BY RingProps DEF Ring, c
<1>9. b \in Seq(S) /\ Len(b) = c - 1 /\ b = [i \in 1 .. c - 1 |-> s[Place(N, g, i)]]
  BY <1>2, <1>7, RingProps, SMTT(30) DEF Ring
<1> HIDE DEF a, b
<1>10. a[1] = s[t]
  <2>1. 1 \in 1 .. c /\ 1 - 1 = 0 /\ t + (1 - 1) = t /\ t < N
    BY <1>7
  <2>2. Place(N, t, 1) = t
    BY <1>5, <2>1
  <2>3. QED BY <1>8, <2>1, <2>2
<1>11. \A i \in 1 .. c - 1 : b[i] = a[i + 1]
  <2>1. SUFFICES ASSUME NEW i \in 1 .. c - 1 PROVE b[i] = a[i + 1]
    OBVIOUS
  <2>2. i + 1 \in 1 .. c /\ (i + 1) - 1 = i
    BY <1>7
  <2>3. /\ Place(N, t, (i + 1)) = (IF t + i < N THEN t + i ELSE t + i - N)
        /\ Place(N, g, i) = (IF g + (i - 1) < N THEN g + (i - 1) ELSE g + (i - 1) - N)
    BY <1>7, <1>5, <1>6, <2>2
  <2>4. Place(N, t, (i + 1)) = Place(N, g, i)
    BY <1>2, <1>7, <1>4, <2>3
  <2>5. b[i] = s[Place(N, g, i)] /\ a[i + 1] = s[Place(N, t, (i + 1))]
    BY <1>8, <1>9, <2>2
  <2>6. QED BY <2>4, <2>5
<1> DEFINE d == Tail(a)
<1>12. d \in Seq(S) /\ Len(d) = c - 1 /\ \A i \in 1 .. c - 1 : d[i] = a[i + 1]
  <2>1. a # <<>>
    BY <1>7, <1>8
  <2>2. QED BY <1>8, <2>1, HeadTailProperties
<1> HIDE DEF d
<1>13. b = d
  <2>1. \A i \in 1 .. Len(b) : b[i] = d[i]
    BY <1>9, <1>11, <1>12
  <2>2. Len(b) = Len(d)
    BY <1>9, <1>12
  <2>3. QED BY <1>9, <1>12, <2>1, <2>2, SeqEqual
<1>14. Head(a) = a[1] /\ a # <<>>
  BY <1>7, <1>8
<1>15. QED BY <1>10, <1>13, <1>14 DEF b, d, a, g

---------------------------------------------------------------------------
(***************************************************************************)
(* The inductive invariant                                                 *)
(***************************************************************************)

\* States of a thread within the scope of the lock of its side
TxHeld == {"tx_wait", "tx_add", "tx_head", "tx_slot", "tx_signal"}
RxHeld == {"rx_wait", "rx_get", "rx_tail", "rx_slot", "rx_signal"}

\* The type invariant, one conjunct per variable
StreamTypes ==
  /\ \A q \in Queue : head[q] \in 0 .. QueueSize[q] - 1 /\ tail[q] \in 0 .. QueueSize[q] - 1
  /\ \A q \in Queue : slot[q] \in [0 .. QueueSize[q] - 1 -> Packet \cup {NoPacket}]
  /\ tx_ready \in [Queue -> BOOLEAN] /\ rx_ready \in [Queue -> BOOLEAN]
  /\ tx_wired \in [Queue -> BOOLEAN] /\ rx_wired \in [Queue -> BOOLEAN]
  /\ tx_lock \in [Queue -> User \cup {NoThread}] /\ rx_lock \in [Queue -> User \cup {NoThread}]
  /\ wiring \in 0 .. 5 /\ unused \in SUBSET Packet
  /\ pc \in [User -> TxHeld \cup RxHeld \cup {"idle", "tx_full", "rx_empty"}]
  /\ at \in [User -> Queue]
  /\ pkt \in [User -> Packet \cup {NoPacket}]

\* There are two rings, each with its slots and two indices.
RingTypes ==
  /\ head \in [Queue -> Nat] /\ tail \in [Queue -> Nat]
  /\ slot = [q \in Queue |-> slot[q]]

\* The source transmits through one ring and receives from the other, the sink
\* the other way round.
SideOK(t) ==
  /\ pc[t] \in TxHeld \cup {"tx_full"} =>
       (t \in Source /\ at[t] = "submit") \/ (t \in Sink /\ at[t] = "ack")
  /\ pc[t] \in RxHeld \cup {"rx_empty"} =>
       (t \in Source /\ at[t] = "ack") \/ (t \in Sink /\ at[t] = "submit")

\* A thread within tx or rx holds the lock of its side, also while it sleeps.
LockOK(t) ==
  /\ pc[t] \in TxHeld => tx_lock[at[t]] = t
  /\ pc[t] \in RxHeld => rx_lock[at[t]] = t

\* What a thread has seen of the ring is still true when it moves its index.
ViewOK(t) ==
  /\ pc[t] = "tx_head" => ~Full(at[t])
  /\ pc[t] \in {"rx_get", "rx_tail"} => ~Empty(at[t])

\* A thread in tx has a packet to pass on, one in rx has none yet.
PacketOK(t) ==
  /\ pc[t] \in {"tx_full", "tx_wait", "tx_add", "tx_head", "tx_slot"} => pkt[t] # NoPacket
  /\ pc[t] \in {"rx_empty", "rx_wait", "rx_get", "rx_slot"} => pkt[t] = NoPacket

ThreadOK(t) == SideOK(t) /\ LockOK(t) /\ ViewOK(t) /\ PacketOK(t)

\* Before the client's constructor is done, nobody uses the sink.
SinkAtRest ==
  wiring < 5 => /\ \A t \in Sink : pc[t] = "idle" /\ pkt[t] = NoPacket
                /\ tail["submit"] = 0 /\ head["ack"] = 0 /\ tail["ack"] = 0

\* The steps of the constructor that are done have connected their signals.
SignalsWired ==
  /\ wiring >= 2 => rx_wired["ack"]
  /\ wiring >= 3 => tx_wired["submit"]
  /\ wiring >= 4 => tx_wired["ack"]
  /\ wiring >= 5 => rx_wired["submit"]

\* Holds also if the accesses of 'add' and 'get' are swapped
StreamInv ==
  /\ StreamTypes /\ RingTypes
  /\ \A t \in User : ThreadOK(t)
  /\ SinkAtRest /\ SignalsWired

\* It is the type invariant of the specification.
LEMMA StreamTypesOK == TypeOK <=> StreamTypes
<1>1. {"idle",
       "tx_full", "tx_wait", "tx_add", "tx_head", "tx_slot", "tx_signal",
       "rx_empty", "rx_wait", "rx_get", "rx_tail", "rx_slot", "rx_signal"}
      = TxHeld \cup RxHeld \cup {"idle", "tx_full", "rx_empty"}
  BY DEF TxHeld, RxHeld
<1>2. QED BY <1>1, Zenon DEF TypeOK, StreamTypes

---------------------------------------------------------------------------
(***************************************************************************)
(* Steps of the indices                                                    *)
(***************************************************************************)

\* The indices of a ring, and its state in terms of them
LEMMA RingState ==
  ASSUME StreamTypes, RingTypes, NEW q \in Queue
  PROVE  /\ QueueSize[q] \in Nat /\ QueueSize[q] >= 2
         /\ head[q] \in 0 .. QueueSize[q] - 1 /\ tail[q] \in 0 .. QueueSize[q] - 1
         /\ slot[q] \in [0 .. QueueSize[q] - 1 -> Packet \cup {NoPacket}]
         /\ Full(q) <=> Mod(head[q] + 1, QueueSize[q]) = tail[q]
  BY StreamAssumption DEF StreamTypes, Full, Step, Mod

\* 'add' moves _head: the ring is not empty then, and has a single element if
\* it was empty.
LEMMA HeadMoves ==
  ASSUME StreamTypes, RingTypes, NEW q \in Queue, ~Full(q), StoreHead(q), tail' = tail
  PROVE  /\ head' \in [Queue -> Nat] /\ head'[q] \in 0 .. QueueSize[q] - 1
         /\ head'[q] = Mod(head[q] + 1, QueueSize[q])
         /\ \A r \in Queue \ {q} : head'[r] = head[r]
         /\ Empty(q)' = FALSE
         /\ Empty(q) => SingleElement(q)'
<1> DEFINE N == QueueSize[q]
           h == head[q]
<1>1. /\ N \in Nat /\ N >= 2 /\ h \in 0 .. N - 1 /\ tail[q] \in 0 .. N - 1
      /\ Full(q) <=> Mod(h + 1, N) = tail[q]
  BY RingState
<1>2. head' = [head EXCEPT ![q] = Mod(h + 1, N)] /\ head \in [Queue -> Nat]
  BY DEF StoreHead, Step, Mod, RingTypes
<1> HIDE DEF N, h
<1>3. Mod(h + 1, N) \in 0 .. N - 1
  BY <1>1, IndexProps
<1>4. head' \in [Queue -> Nat] /\ head'[q] = Mod(h + 1, N) /\ \A r \in Queue \ {q} : head'[r] = head[r]
  BY <1>1, <1>2, <1>3
<1>5. Empty(q)' = FALSE
  BY <1>1, <1>4 DEF Empty
<1>6. Empty(q) => SingleElement(q)'
  <2>1. SingleElement(q)' <=> Mod(tail[q] + 1, N) = head'[q]
    BY DEF SingleElement, Step, Mod, N
  <2>2. QED BY <1>4, <2>1 DEF Empty, h
<1>7. QED BY <1>3, <1>4, <1>5, <1>6 DEF N, h

\* 'get' moves _tail: the ring is not full then, and has a single free slot if
\* it was full.
LEMMA TailMoves ==
  ASSUME StreamTypes, RingTypes, NEW q \in Queue, ~Empty(q), head' = head,
         tail' = [tail EXCEPT ![q] = Step(q, @, 1)]
  PROVE  /\ tail' \in [Queue -> Nat] /\ tail'[q] \in 0 .. QueueSize[q] - 1
         /\ tail'[q] = Mod(tail[q] + 1, QueueSize[q])
         /\ \A r \in Queue \ {q} : tail'[r] = tail[r]
         /\ Full(q)' = FALSE
         /\ Full(q) => SingleSlotFree(q)'
<1> DEFINE N == QueueSize[q]
           h == head[q]
           l == tail[q]
<1>1. /\ N \in Nat /\ N >= 2 /\ h \in 0 .. N - 1 /\ l \in 0 .. N - 1
      /\ Full(q) <=> Mod(h + 1, N) = l
  BY RingState
<1>2. tail' = [tail EXCEPT ![q] = Mod(l + 1, N)] /\ tail \in [Queue -> Nat]
  BY DEF Step, Mod, RingTypes
<1>3. h # l
  BY DEF Empty
<1> HIDE DEF N, h, l
<1>4. /\ Mod(l + 1, N) \in 0 .. N - 1 /\ Mod(h + 1, N) # Mod(l + 1, N)
      /\ Mod(h + 1, N) = l => Mod(h + 2, N) = Mod(l + 1, N)
  BY <1>1, <1>3, IndexProps
<1>5. tail' \in [Queue -> Nat] /\ tail'[q] = Mod(l + 1, N) /\ \A r \in Queue \ {q} : tail'[r] = tail[r]
  BY <1>1, <1>2, <1>4
<1>6. Full(q)' = FALSE
  <2>1. Full(q)' <=> Mod(h + 1, N) = tail'[q]
    BY DEF Full, Step, Mod, N, h
  <2>2. QED BY <1>4, <1>5, <2>1
<1>7. Full(q) => SingleSlotFree(q)'
  <2>1. SingleSlotFree(q)' <=> Mod(h + 2, N) = tail'[q]
    BY DEF SingleSlotFree, Step, Mod, N, h
  <2>2. QED BY <1>1, <1>4, <1>5, <2>1
<1>8. QED BY <1>4, <1>5, <1>6, <1>7 DEF N, l

---------------------------------------------------------------------------
(***************************************************************************)
(* Steps that leave the rings alone                                        *)
(***************************************************************************)

\* A thread is not affected by what another one does, as long as nobody takes
\* its lock and what it knows of the ring stays true.
LEMMA OtherThread ==
  ASSUME NEW u \in User, ThreadOK(u),
         pc'[u] = pc[u], at'[u] = at[u], pkt'[u] = pkt[u],
         tx_lock[at[u]] = u => tx_lock'[at[u]] = u,
         rx_lock[at[u]] = u => rx_lock'[at[u]] = u,
         pc[u] = "tx_head" /\ ~Full(at[u]) => Full(at[u])' = FALSE,
         pc[u] \in {"rx_get", "rx_tail"} /\ ~Empty(at[u]) => Empty(at[u])' = FALSE
  PROVE  ThreadOK(u)'
<1>1. SideOK(u)'
  BY DEF ThreadOK, SideOK
<1>2. LockOK(u)'
  BY DEF ThreadOK, LockOK, TxHeld, RxHeld
<1>3. (pc[u] = "tx_head" => Full(at[u])' = FALSE) /\ (pc[u] \in {"rx_get", "rx_tail"} => Empty(at[u])' = FALSE)
  BY DEF ThreadOK, ViewOK
<1>4. ViewOK(u)'
  BY <1>3 DEF ViewOK, Full, Empty
<1>5. PacketOK(u)'
  BY DEF ThreadOK, PacketOK
<1>6. QED BY <1>1, <1>2, <1>4, <1>5 DEF ThreadOK

\* Packet_descriptor_transmitter::tx takes the lock and looks at the queue.
LEMMA TxFullStep ==
  ASSUME StreamInv, NEW t \in User, TxFull(t)
  PROVE  StreamInv'
<1>1. StreamTypes /\ RingTypes /\ (\A u \in User : ThreadOK(u)) /\ SinkAtRest /\ SignalsWired
  BY DEF StreamInv
<1> USE DEF TxFull, Goto, ringVars, signalVars, lockVars
<1>2. StreamTypes'
  BY <1>1 DEF StreamTypes, TxHeld, RxHeld, Queue
<1>3. RingTypes'
  BY <1>1 DEF RingTypes
<1>4. ThreadOK(t)'
  BY <1>1, StreamAssumption DEF StreamTypes, ThreadOK, SideOK, LockOK, ViewOK, PacketOK, TxHeld, RxHeld, Full, Empty
<1>5. ASSUME NEW u \in User \ {t} PROVE ThreadOK(u)'
  <2>1. ThreadOK(u) /\ pc'[u] = pc[u] /\ at'[u] = at[u] /\ pkt'[u] = pkt[u]
    BY <1>1 DEF StreamTypes
  <2>2. /\ tx_lock[at[u]] = u => tx_lock'[at[u]] = u
        /\ rx_lock[at[u]] = u => rx_lock'[at[u]] = u
    BY <1>1, StreamAssumption DEF StreamTypes, ThreadOK, LockOK, TxHeld, RxHeld
  <2>3. QED BY <2>1, <2>2, OtherThread DEF Full, Empty
<1>6. SinkAtRest' /\ SignalsWired'
  BY <1>1, StreamAssumption DEF StreamTypes, ThreadOK, SideOK, SinkAtRest, SignalsWired, TxHeld, RxHeld, User
<1>7. QED BY <1>3, <1>2, <1>4, <1>5, <1>6 DEF StreamInv

\* wait_for_signal returns at the transmitter.
LEMMA TxWaitStep ==
  ASSUME StreamInv, NEW t \in User, TxWait(t)
  PROVE  StreamInv'
<1>1. StreamTypes /\ RingTypes /\ (\A u \in User : ThreadOK(u)) /\ SinkAtRest /\ SignalsWired
  BY DEF StreamInv
<1> USE DEF TxWait, Goto, ringVars, signalVars, lockVars
<1>2. StreamTypes'
  BY <1>1 DEF StreamTypes, TxHeld, RxHeld, Queue
<1>3. RingTypes'
  BY <1>1 DEF RingTypes
<1>4. ThreadOK(t)'
  BY <1>1, StreamAssumption DEF StreamTypes, ThreadOK, SideOK, LockOK, ViewOK, PacketOK, TxHeld, RxHeld, Full, Empty
<1>5. ASSUME NEW u \in User \ {t} PROVE ThreadOK(u)'
  <2>1. ThreadOK(u) /\ pc'[u] = pc[u] /\ at'[u] = at[u] /\ pkt'[u] = pkt[u]
    BY <1>1 DEF StreamTypes
  <2>2. /\ tx_lock[at[u]] = u => tx_lock'[at[u]] = u
        /\ rx_lock[at[u]] = u => rx_lock'[at[u]] = u
    BY <1>1, StreamAssumption
  <2>3. QED BY <2>1, <2>2, OtherThread DEF Full, Empty
<1>6. SinkAtRest' /\ SignalsWired'
  BY <1>1, StreamAssumption DEF StreamTypes, ThreadOK, SideOK, SinkAtRest, SignalsWired, TxHeld, RxHeld, User
<1>7. QED BY <1>3, <1>2, <1>4, <1>5, <1>6 DEF StreamInv

\* A transmitter that finds the queue still full starts over.
LEMMA TxRetryStep ==
  ASSUME StreamInv, NEW t \in User, TxRetry(t)
  PROVE  StreamInv'
<1>1. StreamTypes /\ RingTypes /\ (\A u \in User : ThreadOK(u)) /\ SinkAtRest /\ SignalsWired
  BY DEF StreamInv
<1> USE DEF TxRetry, Goto, ringVars, signalVars, lockVars
<1>2. StreamTypes'
  BY <1>1 DEF StreamTypes, TxHeld, RxHeld, Queue
<1>3. RingTypes'
  BY <1>1 DEF RingTypes
<1>4. ThreadOK(t)'
  BY <1>1, StreamAssumption DEF StreamTypes, ThreadOK, SideOK, LockOK, ViewOK, PacketOK, TxHeld, RxHeld, Full, Empty
<1>5. ASSUME NEW u \in User \ {t} PROVE ThreadOK(u)'
  <2>1. ThreadOK(u) /\ pc'[u] = pc[u] /\ at'[u] = at[u] /\ pkt'[u] = pkt[u]
    BY <1>1 DEF StreamTypes
  <2>2. /\ tx_lock[at[u]] = u => tx_lock'[at[u]] = u
        /\ rx_lock[at[u]] = u => rx_lock'[at[u]] = u
    BY <1>1, StreamAssumption
  <2>3. QED BY <2>1, <2>2, OtherThread DEF Full, Empty
<1>6. SinkAtRest' /\ SignalsWired'
  BY <1>1, StreamAssumption DEF StreamTypes, ThreadOK, SideOK, SinkAtRest, SignalsWired, TxHeld, RxHeld, User
<1>7. QED BY <1>3, <1>2, <1>4, <1>5, <1>6 DEF StreamInv

\* The end of tx
LEMMA TxSignalStep ==
  ASSUME StreamInv, NEW t \in User, TxSignal(t)
  PROVE  StreamInv'
<1>1. StreamTypes /\ RingTypes /\ (\A u \in User : ThreadOK(u)) /\ SinkAtRest /\ SignalsWired
  BY DEF StreamInv
<1> USE DEF TxSignal, Goto, ringVars, signalVars, lockVars
<1>2. StreamTypes'
  BY <1>1 DEF StreamTypes, TxHeld, RxHeld, Queue
<1>3. RingTypes'
  BY <1>1 DEF RingTypes
<1>4. ThreadOK(t)'
  BY <1>1, StreamAssumption DEF StreamTypes, ThreadOK, SideOK, LockOK, ViewOK, PacketOK, TxHeld, RxHeld, Full, Empty
<1>5. ASSUME NEW u \in User \ {t} PROVE ThreadOK(u)'
  <2>1. ThreadOK(u) /\ pc'[u] = pc[u] /\ at'[u] = at[u] /\ pkt'[u] = pkt[u]
    BY <1>1 DEF StreamTypes
  <2>2. /\ tx_lock[at[u]] = u => tx_lock'[at[u]] = u
        /\ rx_lock[at[u]] = u => rx_lock'[at[u]] = u
    BY <1>1, StreamAssumption DEF StreamTypes, ThreadOK, LockOK, TxHeld, RxHeld
  <2>3. QED BY <2>1, <2>2, OtherThread DEF Full, Empty
<1>6. SinkAtRest' /\ SignalsWired'
  BY <1>1, StreamAssumption DEF StreamTypes, ThreadOK, SideOK, SinkAtRest, SignalsWired, TxHeld, RxHeld, User
<1>7. QED BY <1>3, <1>2, <1>4, <1>5, <1>6 DEF StreamInv

\* Packet_descriptor_receiver::rx takes the lock and looks at the queue.
LEMMA RxEmptyStep ==
  ASSUME StreamInv, NEW t \in User, RxEmpty(t)
  PROVE  StreamInv'
<1>1. StreamTypes /\ RingTypes /\ (\A u \in User : ThreadOK(u)) /\ SinkAtRest /\ SignalsWired
  BY DEF StreamInv
<1> USE DEF RxEmpty, Goto, ringVars, signalVars, lockVars
<1>2. StreamTypes'
  BY <1>1 DEF StreamTypes, TxHeld, RxHeld, Queue
<1>3. RingTypes'
  BY <1>1 DEF RingTypes
<1>4. ThreadOK(t)'
  BY <1>1, StreamAssumption DEF StreamTypes, ThreadOK, SideOK, LockOK, ViewOK, PacketOK, TxHeld, RxHeld, Full, Empty
<1>5. ASSUME NEW u \in User \ {t} PROVE ThreadOK(u)'
  <2>1. ThreadOK(u) /\ pc'[u] = pc[u] /\ at'[u] = at[u] /\ pkt'[u] = pkt[u]
    BY <1>1 DEF StreamTypes
  <2>2. /\ tx_lock[at[u]] = u => tx_lock'[at[u]] = u
        /\ rx_lock[at[u]] = u => rx_lock'[at[u]] = u
    BY <1>1, StreamAssumption DEF StreamTypes, ThreadOK, LockOK, TxHeld, RxHeld
  <2>3. QED BY <2>1, <2>2, OtherThread DEF Full, Empty
<1>6. SinkAtRest' /\ SignalsWired'
  BY <1>1, StreamAssumption DEF StreamTypes, ThreadOK, SideOK, SinkAtRest, SignalsWired, TxHeld, RxHeld, User
<1>7. QED BY <1>3, <1>2, <1>4, <1>5, <1>6 DEF StreamInv

\* wait_for_signal returns at the receiver.
LEMMA RxWaitStep ==
  ASSUME StreamInv, NEW t \in User, RxWait(t)
  PROVE  StreamInv'
<1>1. StreamTypes /\ RingTypes /\ (\A u \in User : ThreadOK(u)) /\ SinkAtRest /\ SignalsWired
  BY DEF StreamInv
<1> USE DEF RxWait, Goto, ringVars, signalVars, lockVars
<1>2. StreamTypes'
  BY <1>1 DEF StreamTypes, TxHeld, RxHeld, Queue
<1>3. RingTypes'
  BY <1>1 DEF RingTypes
<1>4. ThreadOK(t)'
  BY <1>1, StreamAssumption DEF StreamTypes, ThreadOK, SideOK, LockOK, ViewOK, PacketOK, TxHeld, RxHeld, Full, Empty
<1>5. ASSUME NEW u \in User \ {t} PROVE ThreadOK(u)'
  <2>1. ThreadOK(u) /\ pc'[u] = pc[u] /\ at'[u] = at[u] /\ pkt'[u] = pkt[u]
    BY <1>1 DEF StreamTypes
  <2>2. /\ tx_lock[at[u]] = u => tx_lock'[at[u]] = u
        /\ rx_lock[at[u]] = u => rx_lock'[at[u]] = u
    BY <1>1, StreamAssumption
  <2>3. QED BY <2>1, <2>2, OtherThread DEF Full, Empty
<1>6. SinkAtRest' /\ SignalsWired'
  BY <1>1, StreamAssumption DEF StreamTypes, ThreadOK, SideOK, SinkAtRest, SignalsWired, TxHeld, RxHeld, User
<1>7. QED BY <1>3, <1>2, <1>4, <1>5, <1>6 DEF StreamInv

\* The end of rx
LEMMA RxSignalStep ==
  ASSUME StreamInv, NEW t \in User, RxSignal(t)
  PROVE  StreamInv'
<1>1. StreamTypes /\ RingTypes /\ (\A u \in User : ThreadOK(u)) /\ SinkAtRest /\ SignalsWired
  BY DEF StreamInv
<1> USE DEF RxSignal, Goto, ringVars, signalVars, lockVars
<1>2. StreamTypes'
  BY <1>1 DEF StreamTypes, TxHeld, RxHeld, Queue
<1>3. RingTypes'
  BY <1>1 DEF RingTypes
<1>4. ThreadOK(t)'
  BY <1>1, StreamAssumption DEF StreamTypes, ThreadOK, SideOK, LockOK, ViewOK, PacketOK, TxHeld, RxHeld, Full, Empty
<1>5. ASSUME NEW u \in User \ {t} PROVE ThreadOK(u)'
  <2>1. ThreadOK(u) /\ pc'[u] = pc[u] /\ at'[u] = at[u] /\ pkt'[u] = pkt[u]
    BY <1>1 DEF StreamTypes
  <2>2. /\ tx_lock[at[u]] = u => tx_lock'[at[u]] = u
        /\ rx_lock[at[u]] = u => rx_lock'[at[u]] = u
    BY <1>1, StreamAssumption DEF StreamTypes, ThreadOK, LockOK, TxHeld, RxHeld
  <2>3. QED BY <2>1, <2>2, OtherThread DEF Full, Empty
<1>6. SinkAtRest' /\ SignalsWired'
  BY <1>1, StreamAssumption DEF StreamTypes, ThreadOK, SideOK, SinkAtRest, SignalsWired, TxHeld, RxHeld, User
<1>7. QED BY <1>3, <1>2, <1>4, <1>5, <1>6 DEF StreamInv

\* submit_packet
LEMMA SubmitPacketStep ==
  ASSUME StreamInv, NEW t \in User, SubmitPacket(t)
  PROVE  StreamInv'
<1>1. StreamTypes /\ RingTypes /\ (\A u \in User : ThreadOK(u)) /\ SinkAtRest /\ SignalsWired
  BY DEF StreamInv
<1> USE DEF SubmitPacket, Call, AllocPacket, Goto, ringVars, signalVars, lockVars
<1>2. StreamTypes'
  BY <1>1 DEF StreamTypes, TxHeld, RxHeld, Queue
<1>3. RingTypes'
  BY <1>1 DEF RingTypes
<1>4. ThreadOK(t)'
  BY <1>1, StreamAssumption DEF StreamTypes, ThreadOK, SideOK, LockOK, ViewOK, PacketOK, TxHeld, RxHeld, Full, Empty
<1>5. ASSUME NEW u \in User \ {t} PROVE ThreadOK(u)'
  <2>1. ThreadOK(u) /\ pc'[u] = pc[u] /\ at'[u] = at[u] /\ pkt'[u] = pkt[u]
    BY <1>1 DEF StreamTypes
  <2>2. /\ tx_lock[at[u]] = u => tx_lock'[at[u]] = u
        /\ rx_lock[at[u]] = u => rx_lock'[at[u]] = u
    BY <1>1, StreamAssumption
  <2>3. QED BY <2>1, <2>2, OtherThread DEF Full, Empty
<1>6. SinkAtRest' /\ SignalsWired'
  BY <1>1, StreamAssumption DEF StreamTypes, ThreadOK, SideOK, SinkAtRest, SignalsWired, TxHeld, RxHeld, User
<1>7. QED BY <1>3, <1>2, <1>4, <1>5, <1>6 DEF StreamInv

\* get_acked_packet
LEMMA GetAckedPacketStep ==
  ASSUME StreamInv, NEW t \in User, GetAckedPacket(t)
  PROVE  StreamInv'
<1>1. StreamTypes /\ RingTypes /\ (\A u \in User : ThreadOK(u)) /\ SinkAtRest /\ SignalsWired
  BY DEF StreamInv
<1> USE DEF GetAckedPacket, Call, Goto, ringVars, signalVars, lockVars
<1>2. StreamTypes'
  BY <1>1 DEF StreamTypes, TxHeld, RxHeld, Queue
<1>3. RingTypes'
  BY <1>1 DEF RingTypes
<1>4. ThreadOK(t)'
  BY <1>1, StreamAssumption DEF StreamTypes, ThreadOK, SideOK, LockOK, ViewOK, PacketOK, TxHeld, RxHeld, Full, Empty
<1>5. ASSUME NEW u \in User \ {t} PROVE ThreadOK(u)'
  <2>1. ThreadOK(u) /\ pc'[u] = pc[u] /\ at'[u] = at[u] /\ pkt'[u] = pkt[u]
    BY <1>1 DEF StreamTypes
  <2>2. /\ tx_lock[at[u]] = u => tx_lock'[at[u]] = u
        /\ rx_lock[at[u]] = u => rx_lock'[at[u]] = u
    BY <1>1, StreamAssumption
  <2>3. QED BY <2>1, <2>2, OtherThread DEF Full, Empty
<1>6. SinkAtRest' /\ SignalsWired'
  BY <1>1, StreamAssumption DEF StreamTypes, ThreadOK, SideOK, SinkAtRest, SignalsWired, TxHeld, RxHeld, User
<1>7. QED BY <1>3, <1>2, <1>4, <1>5, <1>6 DEF StreamInv

\* release_packet
LEMMA ReleasePacketStep ==
  ASSUME StreamInv, NEW t \in User, ReleasePacket(t)
  PROVE  StreamInv'
<1>1. StreamTypes /\ RingTypes /\ (\A u \in User : ThreadOK(u)) /\ SinkAtRest /\ SignalsWired
  BY DEF StreamInv
<1> USE DEF ReleasePacket, ringVars, signalVars, lockVars
<1>2. StreamTypes'
  BY <1>1 DEF StreamTypes, TxHeld, RxHeld, Queue
<1>3. RingTypes'
  BY <1>1 DEF RingTypes
<1>4. ThreadOK(t)'
  BY <1>1, StreamAssumption DEF StreamTypes, ThreadOK, SideOK, LockOK, ViewOK, PacketOK, TxHeld, RxHeld, Full, Empty
<1>5. ASSUME NEW u \in User \ {t} PROVE ThreadOK(u)'
  <2>1. ThreadOK(u) /\ pc'[u] = pc[u] /\ at'[u] = at[u] /\ pkt'[u] = pkt[u]
    BY <1>1 DEF StreamTypes
  <2>2. /\ tx_lock[at[u]] = u => tx_lock'[at[u]] = u
        /\ rx_lock[at[u]] = u => rx_lock'[at[u]] = u
    BY <1>1, StreamAssumption
  <2>3. QED BY <2>1, <2>2, OtherThread DEF Full, Empty
<1>6. SinkAtRest' /\ SignalsWired'
  BY <1>1, StreamAssumption DEF StreamTypes, ThreadOK, SideOK, SinkAtRest, SignalsWired, TxHeld, RxHeld, User
<1>7. QED BY <1>3, <1>2, <1>4, <1>5, <1>6 DEF StreamInv

\* get_packet
LEMMA GetPacketStep ==
  ASSUME StreamInv, NEW t \in User, GetPacket(t)
  PROVE  StreamInv'
<1>1. StreamTypes /\ RingTypes /\ (\A u \in User : ThreadOK(u)) /\ SinkAtRest /\ SignalsWired
  BY DEF StreamInv
<1> USE DEF GetPacket, Call, Goto, ringVars, signalVars, lockVars
<1>2. StreamTypes'
  BY <1>1 DEF StreamTypes, TxHeld, RxHeld, Queue
<1>3. RingTypes'
  BY <1>1 DEF RingTypes
<1>4. ThreadOK(t)'
  BY <1>1, StreamAssumption DEF StreamTypes, ThreadOK, SideOK, LockOK, ViewOK, PacketOK, TxHeld, RxHeld, Full, Empty
<1>5. ASSUME NEW u \in User \ {t} PROVE ThreadOK(u)'
  <2>1. ThreadOK(u) /\ pc'[u] = pc[u] /\ at'[u] = at[u] /\ pkt'[u] = pkt[u]
    BY <1>1 DEF StreamTypes
  <2>2. /\ tx_lock[at[u]] = u => tx_lock'[at[u]] = u
        /\ rx_lock[at[u]] = u => rx_lock'[at[u]] = u
    BY <1>1, StreamAssumption
  <2>3. QED BY <2>1, <2>2, OtherThread DEF Full, Empty
<1>6. SinkAtRest' /\ SignalsWired'
  BY <1>1, StreamAssumption DEF StreamTypes, ThreadOK, SideOK, SinkAtRest, SignalsWired, TxHeld, RxHeld, User
<1>7. QED BY <1>3, <1>2, <1>4, <1>5, <1>6 DEF StreamInv

\* acknowledge_packet
LEMMA AcknowledgePacketStep ==
  ASSUME StreamInv, NEW t \in User, AcknowledgePacket(t)
  PROVE  StreamInv'
<1>1. StreamTypes /\ RingTypes /\ (\A u \in User : ThreadOK(u)) /\ SinkAtRest /\ SignalsWired
  BY DEF StreamInv
<1> USE DEF AcknowledgePacket, Call, Goto, ringVars, signalVars, lockVars
<1>2. StreamTypes'
  BY <1>1 DEF StreamTypes, TxHeld, RxHeld, Queue
<1>3. RingTypes'
  BY <1>1 DEF RingTypes
<1>4. ThreadOK(t)'
  BY <1>1, StreamAssumption DEF StreamTypes, ThreadOK, SideOK, LockOK, ViewOK, PacketOK, TxHeld, RxHeld, Full, Empty
<1>5. ASSUME NEW u \in User \ {t} PROVE ThreadOK(u)'
  <2>1. ThreadOK(u) /\ pc'[u] = pc[u] /\ at'[u] = at[u] /\ pkt'[u] = pkt[u]
    BY <1>1 DEF StreamTypes
  <2>2. /\ tx_lock[at[u]] = u => tx_lock'[at[u]] = u
        /\ rx_lock[at[u]] = u => rx_lock'[at[u]] = u
    BY <1>1, StreamAssumption
  <2>3. QED BY <2>1, <2>2, OtherThread DEF Full, Empty
<1>6. SinkAtRest' /\ SignalsWired'
  BY <1>1, StreamAssumption DEF StreamTypes, ThreadOK, SideOK, SinkAtRest, SignalsWired, TxHeld, RxHeld, User
<1>7. QED BY <1>3, <1>2, <1>4, <1>5, <1>6 DEF StreamInv

---------------------------------------------------------------------------
(***************************************************************************)
(* Packet_descriptor_queue::add and get                                    *)
(***************************************************************************)

\* Two threads of one side are not both in the scope of the lock.
LEMMA OneTransmitter ==
  ASSUME StreamInv, NEW t \in User, NEW u \in User \ {t}, pc[t] \in TxHeld, pc[u] \in TxHeld
  PROVE  at[u] # at[t]
  BY DEF StreamInv, ThreadOK, LockOK

\* The same for the receivers
LEMMA OneReceiver ==
  ASSUME StreamInv, NEW t \in User, NEW u \in User \ {t}, pc[t] \in RxHeld, pc[u] \in RxHeld
  PROVE  at[u] # at[t]
  BY DEF StreamInv, ThreadOK, LockOK

\* The transmitter moves _head.
LEMMA StoreHeadStep ==
  ASSUME StreamInv, NEW t \in User, pc[t] \in {"tx_add", "tx_head"}, ~Full(at[t]),
         StoreHead(at[t]), UNCHANGED <<tail, signalVars, lockVars, wiring, unused, at>>,
         NEW w \in {"tx_slot", "tx_signal"}, Goto(t, w),
         pkt' \in [User -> Packet \cup {NoPacket}],
         \A u \in User \ {t} : pkt'[u] = pkt[u], w = "tx_slot" => pkt' = pkt
  PROVE  StreamInv'
<1>1. StreamTypes /\ RingTypes /\ (\A u \in User : ThreadOK(u)) /\ SinkAtRest /\ SignalsWired
  BY DEF StreamInv
<1>2. at[t] \in Queue /\ pc[t] \in TxHeld
  BY <1>1 DEF StreamTypes, TxHeld
<1>3. /\ head' \in [Queue -> Nat] /\ head'[at[t]] \in 0 .. QueueSize[at[t]] - 1
      /\ \A r \in Queue \ {at[t]} : head'[r] = head[r]
      /\ head'[at[t]] # tail[at[t]]
  <2>1. /\ head' \in [Queue -> Nat] /\ head'[at[t]] \in 0 .. QueueSize[at[t]] - 1
        /\ \A r \in Queue \ {at[t]} : head'[r] = head[r]
        /\ Empty(at[t])' = FALSE
    BY <1>1, <1>2, HeadMoves DEF Empty, SingleElement
  <2>2. QED BY <2>1 DEF Empty
<1>4. slot' = slot /\ tail' = tail /\ at' = at /\ pc' = [pc EXCEPT ![t] = w]
  BY DEF StoreHead, Goto
<1> USE DEF signalVars, lockVars
<1>5. StreamTypes'
  BY <1>1, <1>2, <1>3, <1>4 DEF StreamTypes, TxHeld
<1>6. RingTypes'
  BY <1>1, <1>3, <1>4 DEF RingTypes
<1>7. ThreadOK(t)'
  BY <1>1, <1>2, <1>4 DEF StreamTypes, ThreadOK, SideOK, LockOK, ViewOK, PacketOK, TxHeld, RxHeld
<1>8. ASSUME NEW u \in User \ {t} PROVE ThreadOK(u)'
  <2>1. ThreadOK(u) /\ pc'[u] = pc[u] /\ at'[u] = at[u] /\ pkt'[u] = pkt[u] /\ at[u] \in Queue
    BY <1>1, <1>4 DEF StreamTypes
  <2>2. pc[u] = "tx_head" => at[u] # at[t]
    BY <1>2, OneTransmitter DEF TxHeld
  <2>3. pc[u] = "tx_head" => head'[at[u]] = head[at[u]]
    BY <1>3, <2>1, <2>2
  <2>4. head'[at[u]] = tail[at[u]] => head[at[u]] = tail[at[u]]
    BY <1>3, <2>1
  <2>5. QED BY <1>4, <2>1, <2>3, <2>4, OtherThread DEF Full, Empty
<1>9. SinkAtRest' /\ SignalsWired'
  <2>1. wiring < 5 => t \notin Sink /\ at[t] = "submit"
    BY <1>1, <1>2 DEF SinkAtRest, ThreadOK, SideOK, TxHeld
  <2>2. wiring < 5 => head'["ack"] = head["ack"]
    BY <1>3, <2>1 DEF Queue
  <2>3. QED BY <1>1, <1>4, <2>1, <2>2, StreamAssumption DEF StreamTypes, SinkAtRest, SignalsWired, User
<1>10. QED BY <1>5, <1>6, <1>7, <1>8, <1>9 DEF StreamInv

\* The transmitter writes the packet descriptor.
LEMMA StoreSlotStep ==
  ASSUME StreamInv, NEW t \in User, pc[t] \in {"tx_add", "tx_slot"},
         NEW i, StoreSlot(at[t], i, pkt[t]),
         UNCHANGED <<tail, signalVars, lockVars, wiring, unused, at>>,
         NEW w \in {"tx_head", "tx_signal"}, Goto(t, w),
         pkt' \in [User -> Packet \cup {NoPacket}],
         \A u \in User \ {t} : pkt'[u] = pkt[u],
         w = "tx_head" => pkt' = pkt /\ ~Full(at[t])
  PROVE  StreamInv'
<1>1. StreamTypes /\ RingTypes /\ (\A u \in User : ThreadOK(u)) /\ SinkAtRest /\ SignalsWired
  BY DEF StreamInv
<1>2. at[t] \in Queue /\ pc[t] \in TxHeld /\ pkt[t] \in Packet \cup {NoPacket}
  BY <1>1 DEF StreamTypes, TxHeld
<1>3. /\ \A q \in Queue : slot'[q] \in [0 .. QueueSize[q] - 1 -> Packet \cup {NoPacket}]
      /\ slot' = [q \in Queue |-> slot'[q]]
  <2> DEFINE s == [slot[at[t]] EXCEPT ![i] = pkt[t]]
  <2>1. slot' = [slot EXCEPT ![at[t]] = s]
    BY DEF StoreSlot
  <2>2. slot[at[t]] \in [0 .. QueueSize[at[t]] - 1 -> Packet \cup {NoPacket}]
    BY <1>1, <1>2 DEF StreamTypes
  <2>3. s \in [0 .. QueueSize[at[t]] - 1 -> Packet \cup {NoPacket}]
    BY <1>2, <2>2
  <2> HIDE DEF s
  <2>4. DOMAIN slot = Queue
    BY <1>1 DEF RingTypes
  <2>5. /\ slot'[at[t]] = s /\ \A q \in Queue \ {at[t]} : slot'[q] = slot[q]
        /\ slot' = [q \in Queue |-> slot'[q]]
    BY <1>2, <2>1, <2>4
  <2>6. QED BY <1>1, <2>3, <2>5 DEF StreamTypes
<1>4. head' = head /\ tail' = tail /\ at' = at /\ pc' = [pc EXCEPT ![t] = w]
  BY DEF StoreSlot, Goto
<1> USE DEF signalVars, lockVars
<1>5. StreamTypes'
  BY <1>1, <1>2, <1>3, <1>4 DEF StreamTypes, TxHeld
<1>6. RingTypes'
  BY <1>1, <1>3, <1>4 DEF RingTypes
<1>7. ThreadOK(t)'
  BY <1>1, <1>2, <1>4 DEF StreamTypes, ThreadOK, SideOK, LockOK, ViewOK, PacketOK, TxHeld, RxHeld, Full
<1>8. ASSUME NEW u \in User \ {t} PROVE ThreadOK(u)'
  <2>1. ThreadOK(u) /\ pc'[u] = pc[u] /\ at'[u] = at[u] /\ pkt'[u] = pkt[u]
    BY <1>1, <1>4 DEF StreamTypes
  <2>2. QED BY <1>4, <2>1, OtherThread DEF Full, Empty
<1>9. SinkAtRest' /\ SignalsWired'
  <2>1. wiring < 5 => t \notin Sink
    BY <1>1, <1>2 DEF SinkAtRest, TxHeld
  <2>2. QED BY <1>1, <1>4, <2>1, StreamAssumption DEF StreamTypes, SinkAtRest, SignalsWired, User
<1>10. QED BY <1>5, <1>6, <1>7, <1>8, <1>9 DEF StreamInv

\* The receiver moves _tail.
LEMMA StoreTailStep ==
  ASSUME StreamInv, NEW t \in User, pc[t] \in {"rx_get", "rx_tail"},
         StoreTail(at[t]), UNCHANGED <<head, slot, signalVars, lockVars, wiring, unused, at>>,
         NEW w \in {"rx_slot", "rx_signal"}, Goto(t, w), w = "rx_slot" => pc[t] = "rx_get"
  PROVE  StreamInv'
<1>1. StreamTypes /\ RingTypes /\ (\A u \in User : ThreadOK(u)) /\ SinkAtRest /\ SignalsWired
  BY DEF StreamInv
<1>2. at[t] \in Queue /\ pc[t] \in RxHeld /\ ~Empty(at[t])
  BY <1>1 DEF StreamTypes, RxHeld, ThreadOK, ViewOK
<1>3. /\ tail' \in [Queue -> Nat] /\ tail'[at[t]] \in 0 .. QueueSize[at[t]] - 1
      /\ \A r \in Queue \ {at[t]} : tail'[r] = tail[r]
      /\ Step(at[t], head[at[t]], 1) # tail'[at[t]]
  <2>1. /\ tail' \in [Queue -> Nat] /\ tail'[at[t]] \in 0 .. QueueSize[at[t]] - 1
        /\ \A r \in Queue \ {at[t]} : tail'[r] = tail[r]
        /\ Full(at[t])' = FALSE
    BY <1>1, <1>2, TailMoves DEF StoreTail, Full, SingleSlotFree
  <2>2. QED BY <2>1 DEF Full, Step
<1>4. head' = head /\ slot' = slot /\ at' = at /\ pkt' = pkt /\ pc' = [pc EXCEPT ![t] = w]
  BY DEF StoreTail, Goto
<1> USE DEF signalVars, lockVars
<1>5. StreamTypes'
  BY <1>1, <1>2, <1>3, <1>4 DEF StreamTypes, RxHeld
<1>6. RingTypes'
  BY <1>1, <1>3, <1>4 DEF RingTypes
<1>7. ThreadOK(t)'
  BY <1>1, <1>2, <1>4 DEF StreamTypes, ThreadOK, SideOK, LockOK, ViewOK, PacketOK, TxHeld, RxHeld
<1>8. ASSUME NEW u \in User \ {t} PROVE ThreadOK(u)'
  <2>1. ThreadOK(u) /\ pc'[u] = pc[u] /\ at'[u] = at[u] /\ pkt'[u] = pkt[u] /\ at[u] \in Queue
    BY <1>1, <1>4 DEF StreamTypes
  <2>2. pc[u] \in {"rx_get", "rx_tail"} => at[u] # at[t]
    BY <1>2, OneReceiver DEF RxHeld
  <2>3. pc[u] \in {"rx_get", "rx_tail"} => tail'[at[u]] = tail[at[u]]
    BY <1>3, <2>1, <2>2
  <2>4. Step(at[u], head[at[u]], 1) = tail'[at[u]] => Step(at[u], head[at[u]], 1) = tail[at[u]]
    BY <1>3, <2>1
  <2>5. QED BY <1>4, <2>1, <2>3, <2>4, OtherThread DEF Full, Empty, Step
<1>9. SinkAtRest' /\ SignalsWired'
  <2>1. ~(wiring < 5)
    BY <1>1, <1>2 DEF SinkAtRest, ThreadOK, SideOK, RxHeld, Empty
  <2>2. QED BY <1>1, <1>4, <2>1 DEF SinkAtRest, SignalsWired
<1>10. QED BY <1>5, <1>6, <1>7, <1>8, <1>9 DEF StreamInv

\* The receiver reads the packet descriptor.
LEMMA LoadSlotStep ==
  ASSUME StreamInv, NEW t \in User, pc[t] \in {"rx_get", "rx_slot"},
         NEW i \in 0 .. QueueSize[at[t]] - 1, LoadSlot(t, i),
         UNCHANGED <<head, slot, signalVars, lockVars, wiring, unused, at>>,
         NEW w \in {"rx_tail", "rx_signal"}, Goto(t, w), w = "rx_tail" => pc[t] = "rx_get"
  PROVE  StreamInv'
<1>1. StreamTypes /\ RingTypes /\ (\A u \in User : ThreadOK(u)) /\ SinkAtRest /\ SignalsWired
  BY DEF StreamInv
<1>2. at[t] \in Queue /\ pc[t] \in RxHeld /\ slot[at[t]][i] \in Packet \cup {NoPacket}
  BY <1>1 DEF StreamTypes, RxHeld
<1>3. /\ head' = head /\ tail' = tail /\ slot' = slot /\ at' = at /\ pc' = [pc EXCEPT ![t] = w]
      /\ pkt' = [pkt EXCEPT ![t] = slot[at[t]][i]]
  BY DEF LoadSlot, Goto
<1> USE DEF signalVars, lockVars
<1>4. StreamTypes'
  BY <1>1, <1>2, <1>3 DEF StreamTypes, RxHeld
<1>5. RingTypes'
  BY <1>1, <1>3 DEF RingTypes
<1>6. ThreadOK(t)'
  BY <1>1, <1>2, <1>3 DEF StreamTypes, ThreadOK, SideOK, LockOK, ViewOK, PacketOK, TxHeld, RxHeld, Empty
<1>7. ASSUME NEW u \in User \ {t} PROVE ThreadOK(u)'
  <2>1. ThreadOK(u) /\ pc'[u] = pc[u] /\ at'[u] = at[u] /\ pkt'[u] = pkt[u]
    BY <1>1, <1>3 DEF StreamTypes
  <2>2. QED BY <1>3, <2>1, OtherThread DEF Full, Empty
<1>8. SinkAtRest' /\ SignalsWired'
  <2>1. wiring < 5 => t \notin Sink
    BY <1>1, <1>2 DEF SinkAtRest, RxHeld
  <2>2. QED BY <1>1, <1>3, <2>1, StreamAssumption DEF StreamTypes, SinkAtRest, SignalsWired, User
<1>9. QED BY <1>4, <1>5, <1>6, <1>7, <1>8 DEF StreamInv

\* 'add', first access
LEMMA TxAddStep ==
  ASSUME StreamInv, NEW t \in User, TxAdd(t)
  PROVE  StreamInv'
<1>1. /\ pc[t] = "tx_add" /\ ~Full(at[t]) /\ pkt' = pkt
      /\ UNCHANGED <<tail, signalVars, lockVars, wiring, unused, at>>
      /\ pkt \in [User -> Packet \cup {NoPacket}]
  BY DEF TxAdd, StreamInv, StreamTypes
<1>2. \/ StoreSlot(at[t], head[at[t]], pkt[t]) /\ Goto(t, "tx_head")
      \/ StoreHead(at[t]) /\ Goto(t, "tx_slot")
  BY DEF TxAdd
<1>3. CASE StoreSlot(at[t], head[at[t]], pkt[t]) /\ Goto(t, "tx_head")
  BY <1>1, <1>3, StoreSlotStep
<1>4. CASE StoreHead(at[t]) /\ Goto(t, "tx_slot")
  BY <1>1, <1>4, StoreHeadStep
<1>5. QED BY <1>2, <1>3, <1>4

\* 'add', second access
LEMMA TxAddedStep ==
  ASSUME StreamInv, NEW t \in User, TxAdded(t)
  PROVE  StreamInv'
<1>1. /\ UNCHANGED <<tail, signalVars, lockVars, wiring, unused, at>> /\ Goto(t, "tx_signal")
      /\ pkt' \in [User -> Packet \cup {NoPacket}] /\ \A u \in User \ {t} : pkt'[u] = pkt[u]
  BY DEF TxAdded, StreamInv, StreamTypes
<1>2. CASE pc[t] = "tx_head"
  <2>1. StoreHead(at[t]) /\ ~Full(at[t])
    BY <1>2 DEF TxAdded, StreamInv, ThreadOK, ViewOK
  <2>2. QED BY <1>1, <1>2, <2>1, StoreHeadStep
<1>3. CASE pc[t] = "tx_slot"
  <2>1. \E i : StoreSlot(at[t], i, pkt[t])
    BY <1>3 DEF TxAdded
  <2>2. QED BY <1>1, <1>3, <2>1, StoreSlotStep
<1>4. QED BY <1>2, <1>3 DEF TxAdded

\* 'get', first access
LEMMA RxGetStep ==
  ASSUME StreamInv, NEW t \in User, RxGet(t)
  PROVE  StreamInv'
<1>1. pc[t] = "rx_get" /\ UNCHANGED <<head, slot, signalVars, lockVars, wiring, unused, at>>
  BY DEF RxGet
<1>2. \/ LoadSlot(t, tail[at[t]]) /\ Goto(t, "rx_tail")
      \/ StoreTail(at[t]) /\ Goto(t, "rx_slot")
  BY DEF RxGet
<1>3. CASE LoadSlot(t, tail[at[t]]) /\ Goto(t, "rx_tail")
  <2>1. tail[at[t]] \in 0 .. QueueSize[at[t]] - 1
    BY DEF StreamInv, StreamTypes
  <2>2. QED BY <1>1, <1>3, <2>1, LoadSlotStep
<1>4. CASE StoreTail(at[t]) /\ Goto(t, "rx_slot")
  BY <1>1, <1>4, StoreTailStep
<1>5. QED BY <1>2, <1>3, <1>4

\* 'get', second access
LEMMA RxGotStep ==
  ASSUME StreamInv, NEW t \in User, RxGot(t)
  PROVE  StreamInv'
<1>1. UNCHANGED <<head, slot, signalVars, lockVars, wiring, unused, at>> /\ Goto(t, "rx_signal")
  BY DEF RxGot
<1>2. CASE pc[t] = "rx_tail"
  <2>1. StoreTail(at[t])
    BY <1>2 DEF RxGot
  <2>2. QED BY <1>1, <1>2, <2>1, StoreTailStep
<1>3. CASE pc[t] = "rx_slot"
  <2> DEFINE N == QueueSize[at[t]]
             i == (tail[at[t]] + (N - 1)) % N
  <2>1. LoadSlot(t, i)
    BY <1>3 DEF RxGot, Step
  <2>2. N \in Nat /\ N >= 2 /\ tail[at[t]] \in 0 .. N - 1
    BY StreamAssumption DEF StreamInv, StreamTypes
  <2>3. i \in 0 .. N - 1
    <3>1. tail[at[t]] + (N - 1) \in 0 .. 2 * N - 1
      BY <2>2
    <3>2. Mod(tail[at[t]] + (N - 1), N) \in 0 .. N - 1
      BY <2>2, <3>1, WrapIndex
    <3>3. QED BY <3>2 DEF Mod
  <2> HIDE DEF i
  <2>4. QED BY <1>1, <1>3, <2>1, <2>3, LoadSlotStep
<1>4. QED BY <1>2, <1>3 DEF RxGot

---------------------------------------------------------------------------
(***************************************************************************)
(* Constructor of Packet_stream_rx::Client                                 *)
(***************************************************************************)

\* The constructor of the sink resets indices that are at their start.
LEMMA ConstructSinkRings ==
  ASSUME StreamInv, ConstructSink
  PROVE  /\ head' = head /\ tail' = tail /\ DOMAIN slot' = Queue
         /\ slot'["submit"] = slot["submit"]
         /\ slot' = [q \in Queue |-> slot'[q]]
         /\ \A q \in Queue : slot'[q] \in [0 .. QueueSize[q] - 1 -> Packet \cup {NoPacket}]
<1>1. /\ head \in [Queue -> Nat] /\ tail \in [Queue -> Nat] /\ slot = [q \in Queue |-> slot[q]]
      /\ tail["submit"] = 0 /\ head["ack"] = 0 /\ "submit" \in Queue /\ "ack" \in Queue
  BY DEF StreamInv, RingTypes, SinkAtRest, ConstructSink, Queue
<1>2. head' = head /\ tail' = tail
  BY <1>1 DEF ConstructSink
<1> DEFINE s == [i \in DOMAIN slot["ack"] |-> NoPacket]
<1>3. slot' = [slot EXCEPT !["ack"] = s]
  BY DEF ConstructSink
<1>4. s \in [0 .. QueueSize["ack"] - 1 -> Packet \cup {NoPacket}]
  BY <1>1 DEF StreamInv, StreamTypes
<1> HIDE DEF s
<1>5. DOMAIN slot = Queue
  BY <1>1
<1>6. /\ slot'["ack"] = s /\ \A q \in Queue \ {"ack"} : slot'[q] = slot[q]
      /\ DOMAIN slot' = Queue /\ slot' = [q \in Queue |-> slot'[q]]
  BY <1>1, <1>3, <1>5
<1>7. \A q \in Queue : slot'[q] \in [0 .. QueueSize[q] - 1 -> Packet \cup {NoPacket}]
  BY <1>4, <1>6 DEF StreamInv, StreamTypes
<1>8. QED BY <1>1, <1>2, <1>6, <1>7

\* The constructor of the client
LEMMA WireStep ==
  ASSUME StreamInv, Wire
  PROVE  StreamInv'
<1>1. StreamTypes /\ RingTypes /\ (\A u \in User : ThreadOK(u)) /\ SinkAtRest /\ SignalsWired
  BY DEF StreamInv
<1>2. /\ head' = head /\ tail' = tail /\ slot' = [q \in Queue |-> slot'[q]]
      /\ \A q \in Queue : slot'[q] \in [0 .. QueueSize[q] - 1 -> Packet \cup {NoPacket}]
  <2>1. CASE ConstructSink
    BY <2>1, ConstructSinkRings
  <2>2. CASE ~ConstructSink
    BY <1>1, <2>2 DEF Wire, RegisterRxReadyCap, RegisterTxReadyCap, ringVars, RingTypes, StreamTypes
  <2>3. QED BY <2>1, <2>2
<1>3. /\ UNCHANGED <<tx_lock, rx_lock, unused, pc, at, pkt>>
      /\ wiring \in 0 .. 4 /\ wiring' = wiring + 1
  BY DEF Wire, ConstructSink, RegisterRxReadyCap, RegisterTxReadyCap, lockVars, threadVars
<1>4. /\ tx_ready' \in [Queue -> BOOLEAN] /\ rx_ready' \in [Queue -> BOOLEAN]
      /\ tx_wired' \in [Queue -> BOOLEAN] /\ rx_wired' \in [Queue -> BOOLEAN]
  BY <1>1 DEF Wire, ConstructSink, RegisterRxReadyCap, RegisterTxReadyCap, StreamTypes, signalVars
<1>5. StreamTypes'
  BY <1>1, <1>2, <1>3, <1>4 DEF StreamTypes
<1>6. RingTypes'
  BY <1>1, <1>2 DEF RingTypes
<1>7. ASSUME NEW u \in User PROVE ThreadOK(u)'
  <2>1. ThreadOK(u) /\ pc'[u] = pc[u] /\ at'[u] = at[u] /\ pkt'[u] = pkt[u]
    BY <1>1, <1>3
  <2>2. QED BY <1>2, <1>3, <2>1, OtherThread DEF Full, Empty
<1>8. SinkAtRest'
  BY <1>1, <1>2, <1>3 DEF SinkAtRest
<1>9. SignalsWired'
  BY <1>1 DEF Wire, ConstructSink, RegisterRxReadyCap, RegisterTxReadyCap, StreamTypes, signalVars, SignalsWired, Queue
<1>10. QED BY <1>5, <1>6, <1>7, <1>8, <1>9 DEF StreamInv

---------------------------------------------------------------------------
(***************************************************************************)
(* Theorems for both orders of the accesses                                *)
(***************************************************************************)

\* The rings are empty and no thread uses them.
LEMMA InitStream == Init => StreamInv
<1>1. SUFFICES ASSUME Init PROVE StreamInv
  OBVIOUS
<1>2. \A q \in Queue : QueueSize[q] \in Nat /\ QueueSize[q] >= 2 /\ 0 \in 0 .. QueueSize[q] - 1
  BY StreamAssumption
<1>3. StreamTypes
  BY <1>1, <1>2 DEF Init, StreamTypes, Queue
<1>4. RingTypes
  BY <1>1 DEF Init, RingTypes
<1>5. ASSUME NEW t \in User PROVE ThreadOK(t)
  BY <1>1 DEF Init, ThreadOK, SideOK, LockOK, ViewOK, PacketOK, TxHeld, RxHeld
<1>6. SinkAtRest /\ SignalsWired
  BY <1>1 DEF Init, SinkAtRest, SignalsWired, User, Queue
<1>7. QED BY <1>3, <1>4, <1>5, <1>6 DEF StreamInv

\* Every step preserves the invariant.
LEMMA StreamInvStep ==
  ASSUME StreamInv, [Next]_vars
  PROVE  StreamInv'
<1>1. CASE Wire
  BY <1>1, WireStep
<1>2. CASE \E t \in User : Locks(t)
  BY <1>2, TxFullStep, RxEmptyStep DEF Locks
<1>3. CASE \E t \in User : Works(t)
  BY <1>3, TxWaitStep, TxRetryStep, TxAddStep, TxAddedStep, TxSignalStep,
     RxWaitStep, RxGetStep, RxGotStep, RxSignalStep,
     SubmitPacketStep, GetAckedPacketStep, ReleasePacketStep, GetPacketStep, AcknowledgePacketStep
     DEF Works
<1>4. CASE UNCHANGED vars
  <2>1. UNCHANGED <<head, tail, slot, tx_ready, rx_ready, tx_wired, rx_wired, tx_lock, rx_lock,
                    wiring, unused, pc, at, pkt>>
    BY <1>4 DEF vars, ringVars, signalVars, lockVars, threadVars
  <2>2. StreamTypes' /\ RingTypes' /\ SinkAtRest' /\ SignalsWired'
    BY <2>1 DEF StreamInv, StreamTypes, RingTypes, SinkAtRest, SignalsWired
  <2>3. ASSUME NEW u \in User PROVE ThreadOK(u)'
    <3>1. ThreadOK(u)
      BY DEF StreamInv
    <3>2. QED BY <2>1, <3>1, OtherThread DEF Full, Empty
  <2>4. QED BY <2>2, <2>3 DEF StreamInv
<1>5. QED BY <1>1, <1>2, <1>3, <1>4 DEF Next

\* The invariant holds in every reachable state.
LEMMA StreamInvAlways == Spec => []StreamInv
<1>1. Init => StreamInv
  BY InitStream
<1>2. StreamInv /\ [Next]_vars => StreamInv'
  BY StreamInvStep
<1>3. QED BY <1>1, <1>2, PTL DEF Spec

\* The members of the rings, of the two sides and of their threads keep their
\* types; the indices stay within the rings.
THEOREM StreamTypeCorrect == Spec => []TypeOK
<1>1. StreamInv => TypeOK
  BY StreamTypesOK DEF StreamInv
<1>2. QED BY <1>1, StreamInvAlways, PTL

\* The indices move in 'add' and 'get' only, by one and when there is room.
LEMMA RingSteps ==
  ASSUME StreamInv, [Next]_vars
  PROVE  \/ head' = head /\ tail' = tail
         \/ \E t \in User : /\ pc[t] \in {"tx_add", "tx_head"} /\ ~Full(at[t])
                            /\ StoreHead(at[t]) /\ tail' = tail
         \/ \E t \in User : /\ pc[t] \in {"rx_get", "rx_tail"} /\ ~Empty(at[t])
                            /\ StoreTail(at[t]) /\ head' = head
<1>1. CASE Wire
  <2>1. CASE ConstructSink
    BY <2>1, ConstructSinkRings
  <2>2. CASE ~ConstructSink
    BY <1>1, <2>2 DEF Wire, RegisterRxReadyCap, RegisterTxReadyCap, ringVars
  <2>3. QED BY <2>1, <2>2
<1>2. CASE \E t \in User : Locks(t)
  BY <1>2 DEF Locks, TxFull, RxEmpty, ringVars
<1>3. ASSUME NEW t \in User, Works(t)
      PROVE  \/ head' = head /\ tail' = tail
             \/ /\ pc[t] \in {"tx_add", "tx_head"} /\ ~Full(at[t])
                /\ StoreHead(at[t]) /\ tail' = tail
             \/ /\ pc[t] \in {"rx_get", "rx_tail"} /\ ~Empty(at[t])
                /\ StoreTail(at[t]) /\ head' = head
  <2>1. ThreadOK(t)
    BY DEF StreamInv
  <2>2. CASE TxAdd(t)
    BY <2>2 DEF TxAdd, StoreSlot
  <2>3. CASE TxAdded(t)
    BY <2>1, <2>3 DEF TxAdded, StoreSlot, ThreadOK, ViewOK
  <2>4. CASE RxGet(t)
    BY <2>1, <2>4 DEF RxGet, LoadSlot, ThreadOK, ViewOK
  <2>5. CASE RxGot(t)
    BY <2>1, <2>5 DEF RxGot, LoadSlot, ThreadOK, ViewOK
  <2>6. CASE \/ TxWait(t) \/ TxRetry(t) \/ TxSignal(t) \/ RxWait(t) \/ RxSignal(t)
             \/ SubmitPacket(t) \/ GetAckedPacket(t) \/ ReleasePacket(t)
             \/ GetPacket(t) \/ AcknowledgePacket(t)
    BY <2>6 DEF TxWait, TxRetry, TxSignal, RxWait, RxSignal, SubmitPacket, GetAckedPacket,
                ReleasePacket, GetPacket, AcknowledgePacket, ringVars
  <2>7. QED BY <1>3, <2>2, <2>3, <2>4, <2>5, <2>6 DEF Works
<1>4. CASE UNCHANGED vars
  BY <1>4 DEF vars, ringVars
<1>5. QED BY <1>1, <1>2, <1>3, <1>4 DEF Next

\* For rings of any size and any number of threads at both sides, and also if
\* the accesses within 'add' and 'get' are swapped, what 'ready_to_submit' and
\* 'packet_avail' told a side stays true until that side itself acts.
THEOREM QueriesAreStable == Spec => QueriesStable
<1>1. ASSUME StreamInv, [Next]_vars, NEW q \in Queue
      PROVE  /\ ~Full(q) /\ Full(q)' => \E t \in User : pc[t] \in {"tx_add", "tx_head"} /\ at[t] = q
             /\ ~Empty(q) /\ Empty(q)' => \E t \in User : pc[t] \in {"rx_get", "rx_tail"} /\ at[t] = q
  <2>1. CASE head' = head /\ tail' = tail
    BY <2>1 DEF Full, Empty
  <2>2. StreamTypes /\ RingTypes /\ \A t \in User : at[t] \in Queue
    BY <1>1 DEF StreamInv, StreamTypes
  <2>3. ASSUME NEW t \in User, pc[t] \in {"tx_add", "tx_head"}, ~Full(at[t]),
               StoreHead(at[t]), tail' = tail
        PROVE  /\ ~Full(q) /\ Full(q)' => \E u \in User : pc[u] \in {"tx_add", "tx_head"} /\ at[u] = q
               /\ ~Empty(q) /\ Empty(q)' => \E u \in User : pc[u] \in {"rx_get", "rx_tail"} /\ at[u] = q
    <3>1. CASE at[t] = q
      <4>1. Empty(q)' = FALSE
        BY <2>2, <2>3, <3>1, HeadMoves
      <4>2. QED BY <2>3, <3>1, <4>1
    <3>2. CASE at[t] # q
      <4>1. head'[q] = head[q]
        BY <2>3, <3>2 DEF StoreHead
      <4>2. QED BY <2>3, <4>1 DEF Full, Empty
    <3>3. QED BY <3>1, <3>2
  <2>4. ASSUME NEW t \in User, pc[t] \in {"rx_get", "rx_tail"}, ~Empty(at[t]),
               StoreTail(at[t]), head' = head
        PROVE  /\ ~Full(q) /\ Full(q)' => \E u \in User : pc[u] \in {"tx_add", "tx_head"} /\ at[u] = q
               /\ ~Empty(q) /\ Empty(q)' => \E u \in User : pc[u] \in {"rx_get", "rx_tail"} /\ at[u] = q
    <3>1. CASE at[t] = q
      <4>1. Full(q)' = FALSE
        BY <2>2, <2>4, <3>1, TailMoves DEF StoreTail
      <4>2. QED BY <2>4, <3>1, <4>1
    <3>2. CASE at[t] # q
      <4>1. tail'[q] = tail[q]
        BY <2>4, <3>2 DEF StoreTail
      <4>2. QED BY <2>4, <4>1 DEF Full, Empty
    <3>3. QED BY <3>1, <3>2
  <2>5. QED BY <1>1, <2>1, <2>3, <2>4, RingSteps
<1>2. StreamInv /\ [Next]_vars =>
        [\A q \in Queue :
           /\ ~Full(q) /\ Full(q)' => \E t \in User : pc[t] \in {"tx_add", "tx_head"} /\ at[t] = q
           /\ ~Empty(q) /\ Empty(q)' => \E t \in User : pc[t] \in {"rx_get", "rx_tail"} /\ at[t] = q
        ]_vars
  BY <1>1
<1>3. QED BY <1>2, StreamInvAlways, PTL DEF Spec, QueriesStable

---------------------------------------------------------------------------
(***************************************************************************)
(* The invariant for accesses in program order                             *)
(***************************************************************************)

\* Between the two accesses of 'add' and 'get', the slot has the packet.
SlotOK(t) ==
  /\ pc[t] \notin {"tx_slot", "rx_slot"}
  /\ pc[t] = "tx_head" => slot[at[t]][head[at[t]]] = pkt[t]
  /\ pc[t] = "rx_tail" => slot[at[t]][tail[at[t]]] = pkt[t]

\* A thread that is about to signal a sleeper finds the condition satisfied.
DueOK(t) ==
  /\ pc[t] = "tx_wait" /\ ~Full(at[t]) =>
       \/ tx_ready[at[t]]
       \/ /\ \E u \in User : pc[u] = "rx_signal" /\ at[u] = at[t]
          /\ SingleSlotFree(at[t]) /\ wiring = 5
  /\ pc[t] = "rx_wait" /\ ~Empty(at[t]) =>
       \/ rx_ready[at[t]]
       \/ /\ \E u \in User : pc[u] = "tx_signal" /\ at[u] = at[t]
          /\ SingleElement(at[t]) /\ wiring = 5

OrderedInv == StreamInv /\ \A t \in User : SlotOK(t) /\ DueOK(t)

\* A thread is not affected by what another one does to other slots.
LEMMA OtherSlot ==
  ASSUME NEW u \in User, SlotOK(u),
         pc'[u] = pc[u], at'[u] = at[u], pkt'[u] = pkt[u],
         pc[u] = "tx_head" => slot'[at[u]][head'[at[u]]] = slot[at[u]][head[at[u]]],
         pc[u] = "rx_tail" => slot'[at[u]][tail'[at[u]]] = slot[at[u]][tail[at[u]]]
  PROVE  SlotOK(u)'
  BY DEF SlotOK

\* A sleeper is not affected by what happens to other rings and before a thread
\* is about to signal.
LEMMA OtherDue ==
  ASSUME NEW u \in User, DueOK(u), pc'[u] = pc[u], at'[u] = at[u],
         pc[u] \in {"tx_wait", "rx_wait"} => head'[at[u]] = head[at[u]] /\ tail'[at[u]] = tail[at[u]],
         pc[u] = "tx_wait" /\ tx_ready[at[u]] => tx_ready'[at[u]],
         pc[u] = "rx_wait" /\ rx_ready[at[u]] => rx_ready'[at[u]],
         wiring = 5 => wiring' = 5,
         \A v \in User : /\ pc[v] = "rx_signal" /\ pc[u] = "tx_wait" /\ at[v] = at[u] =>
                            pc'[v] = "rx_signal" /\ at'[v] = at[v]
                         /\ pc[v] = "tx_signal" /\ pc[u] = "rx_wait" /\ at[v] = at[u] =>
                            pc'[v] = "tx_signal" /\ at'[v] = at[v]
  PROVE  DueOK(u)'
<1>1. CASE pc[u] = "tx_wait"
  <2>1. Full(at[u])' <=> Full(at[u])
    BY <1>1 DEF Full, Step
  <2>2. SingleSlotFree(at[u])' <=> SingleSlotFree(at[u])
    BY <1>1 DEF SingleSlotFree, Step
  <2>3. QED BY <1>1, <2>1, <2>2 DEF DueOK, Full, SingleSlotFree, Step
<1>2. CASE pc[u] = "rx_wait"
  <2>1. Empty(at[u])' <=> Empty(at[u])
    BY <1>2 DEF Empty
  <2>2. SingleElement(at[u])' <=> SingleElement(at[u])
    BY <1>2 DEF SingleElement, Step
  <2>3. QED BY <1>2, <2>1, <2>2 DEF DueOK, Empty, SingleElement, Step
<1>3. CASE pc[u] \notin {"tx_wait", "rx_wait"}
  BY <1>3 DEF DueOK
<1>4. QED BY <1>1, <1>2, <1>3

\* A step of thread t that neither moves an index nor accesses a slot
Quiet(t) ==
  /\ head' = head /\ tail' = tail /\ slot' = slot /\ wiring' = wiring
  /\ pc[t] \notin {"tx_slot", "rx_tail"}
  /\ pc'[t] \notin {"tx_head", "tx_slot", "rx_tail", "rx_slot"}
  /\ \A u \in User \ {t} : pc'[u] = pc[u] /\ at'[u] = at[u] /\ pkt'[u] = pkt[u]

\* The steps outside of 'add' and 'get'
Outside(t) ==
  \/ Locks(t)
  \/ TxWait(t) \/ TxRetry(t) \/ TxSignal(t) \/ RxWait(t) \/ RxSignal(t)
  \/ SubmitPacket(t) \/ GetAckedPacket(t) \/ ReleasePacket(t)
  \/ GetPacket(t) \/ AcknowledgePacket(t)

\* They are quiet.
LEMMA OutsideQuiet ==
  ASSUME StreamInv, NEW t \in User, Outside(t)
  PROVE  Quiet(t)
<1>1. DOMAIN pc = User /\ DOMAIN at = User /\ DOMAIN pkt = User
  BY DEF StreamInv, StreamTypes
<1> USE DEF Quiet, ringVars, Goto
<1>2. CASE Locks(t)
  <2>1. CASE TxFull(t)
    BY <1>1, <2>1 DEF TxFull
  <2>2. CASE RxEmpty(t)
    BY <1>1, <2>2 DEF RxEmpty
  <2>3. QED BY <1>2, <2>1, <2>2 DEF Locks
<1>3. CASE TxWait(t) \/ TxRetry(t) \/ TxSignal(t)
  BY <1>1, <1>3 DEF TxWait, TxRetry, TxSignal
<1>4. CASE RxWait(t) \/ RxSignal(t)
  BY <1>1, <1>4 DEF RxWait, RxSignal
<1>5. CASE SubmitPacket(t) \/ GetAckedPacket(t) \/ ReleasePacket(t)
  BY <1>1, <1>5 DEF SubmitPacket, GetAckedPacket, ReleasePacket, Call
<1>6. CASE GetPacket(t) \/ AcknowledgePacket(t)
  BY <1>1, <1>6 DEF GetPacket, AcknowledgePacket, Call
<1>7. QED BY <1>2, <1>3, <1>4, <1>5, <1>6 DEF Outside

\* 'add' and 'get' in program order: what they access first and then
InOrder(t) ==
  /\ \A u \in User \ {t} : pc'[u] = pc[u] /\ pkt'[u] = pkt[u]
  /\ at' = at /\ wiring' = wiring /\ tx_ready' = tx_ready /\ rx_ready' = rx_ready /\ unused' = unused
  /\ \/ /\ pc[t] = "tx_add" /\ ~Full(at[t]) /\ pc'[t] = "tx_head"
        /\ head' = head /\ tail' = tail /\ pkt' = pkt
        /\ slot' = [slot EXCEPT ![at[t]][head[at[t]]] = pkt[t]]
     \/ /\ pc[t] = "tx_head" /\ pc'[t] = "tx_signal" /\ ~Full(at[t])
        /\ StoreHead(at[t]) /\ tail' = tail /\ slot' = slot /\ pkt'[t] = NoPacket
     \/ /\ pc[t] = "rx_get" /\ pc'[t] = "rx_tail"
        /\ head' = head /\ tail' = tail /\ slot' = slot /\ pkt'[t] = slot[at[t]][tail[at[t]]]
     \/ /\ pc[t] = "rx_tail" /\ pc'[t] = "rx_signal" /\ ~Empty(at[t])
        /\ StoreTail(at[t]) /\ head' = head /\ slot' = slot /\ pkt' = pkt

\* They take these forms if nothing is reordered.
LEMMA InsideInOrder ==
  ASSUME Reorders = FALSE, OrderedInv, NEW t \in User,
         TxAdd(t) \/ TxAdded(t) \/ RxGet(t) \/ RxGot(t)
  PROVE  InOrder(t)
<1>1. StreamTypes /\ ThreadOK(t) /\ SlotOK(t)
  BY DEF OrderedInv, StreamInv
<1> USE DEF InOrder, signalVars, StreamTypes, Goto
<1>2. CASE TxAdd(t)
  <2>1. StoreSlot(at[t], head[at[t]], pkt[t]) /\ Goto(t, "tx_head")
    BY <1>2 DEF TxAdd
  <2>2. QED BY <1>1, <1>2, <2>1 DEF TxAdd, StoreSlot
<1>3. CASE TxAdded(t)
  <2>1. pc[t] = "tx_head" /\ ~Full(at[t])
    BY <1>1, <1>3 DEF TxAdded, SlotOK, ThreadOK, ViewOK
  <2>2. QED BY <1>1, <1>3, <2>1 DEF TxAdded, StoreHead
<1>4. CASE RxGet(t)
  <2>1. LoadSlot(t, tail[at[t]]) /\ Goto(t, "rx_tail")
    BY <1>4 DEF RxGet
  <2>2. QED BY <1>1, <1>4, <2>1 DEF RxGet, LoadSlot
<1>5. CASE RxGot(t)
  <2>1. pc[t] = "rx_tail" /\ ~Empty(at[t])
    BY <1>1, <1>5 DEF RxGot, SlotOK, ThreadOK, ViewOK
  <2>2. QED BY <1>1, <1>5, <2>1 DEF RxGot, StoreTail
<1>6. QED BY <1>2, <1>3, <1>4, <1>5

\* What the steps of a stream are, if nothing is reordered
LEMMA StepKinds ==
  ASSUME Reorders = FALSE, OrderedInv, [Next]_vars
  PROVE  \/ Wire
         \/ \E t \in User : Outside(t) /\ Quiet(t)
         \/ \E t \in User : InOrder(t)
         \/ UNCHANGED vars
<1>1. StreamInv
  BY DEF OrderedInv
<1>2. CASE \E t \in User : Locks(t) \/ Works(t)
  <2>1. PICK t \in User : Locks(t) \/ Works(t)
    BY <1>2
  <2>2. CASE Outside(t)
    BY <1>1, <2>2, OutsideQuiet
  <2>3. CASE TxAdd(t) \/ TxAdded(t) \/ RxGet(t) \/ RxGot(t)
    BY <2>3, InsideInOrder
  <2>4. QED BY <2>1, <2>2, <2>3 DEF Works, Outside
<1>3. QED BY <1>2 DEF Next

\* The slots that threads are at keep their packets.
LEMMA OrderedSlots ==
  ASSUME OrderedInv,
         \/ Wire
         \/ \E t \in User : Quiet(t)
         \/ \E t \in User : InOrder(t)
         \/ UNCHANGED vars,
         NEW u \in User
  PROVE  SlotOK(u)'
<1>1. StreamInv /\ StreamTypes /\ RingTypes /\ ThreadOK(u) /\ SlotOK(u) /\ at[u] \in Queue
  BY DEF OrderedInv, StreamInv, StreamTypes
<1>2. CASE Wire
  <2>1. /\ UNCHANGED <<pc, at, pkt>> /\ head' = head /\ tail' = tail
        /\ slot'["submit"] = slot["submit"] /\ (wiring # 0 => slot' = slot)
    <3>1. CASE ConstructSink
      BY <1>1, <3>1, ConstructSinkRings DEF ConstructSink, threadVars
    <3>2. CASE ~ConstructSink
      BY <1>2, <3>2 DEF Wire, RegisterRxReadyCap, RegisterTxReadyCap, ringVars, threadVars
    <3>3. QED BY <3>1, <3>2
  <2>2. wiring = 0 /\ pc[u] \in {"tx_head", "rx_tail"} => at[u] = "submit"
    BY <1>1 DEF StreamInv, SinkAtRest, ThreadOK, SideOK, ViewOK, Empty, TxHeld, RxHeld, Queue
  <2>3. pc[u] \in {"tx_head", "rx_tail"} => slot'[at[u]] = slot[at[u]]
    BY <2>1, <2>2
  <2>4. QED BY <1>1, <2>1, <2>3, OtherSlot
<1>3. ASSUME NEW t \in User, Quiet(t) PROVE SlotOK(u)'
  <2>1. CASE u = t
    BY <1>3, <2>1 DEF Quiet, SlotOK
  <2>2. CASE u # t
    BY <1>1, <1>3, <2>2, OtherSlot DEF Quiet
  <2>3. QED BY <2>1, <2>2
<1>4. ASSUME NEW t \in User, InOrder(t) PROVE SlotOK(u)'
  <2>1. /\ at' = at /\ (u # t => pc'[u] = pc[u] /\ pkt'[u] = pkt[u]) /\ at[t] \in Queue
    BY <1>1, <1>4 DEF InOrder, StreamTypes
  <2>2. CASE pc[t] = "tx_add"
    <3> DEFINE q == at[t]
               h == head[at[t]]
    <3>1. /\ head' = head /\ tail' = tail /\ pkt' = pkt /\ pc'[t] = "tx_head"
          /\ slot' = [slot EXCEPT ![q] = [slot[q] EXCEPT ![h] = pkt[t]]]
      BY <1>4, <2>2 DEF InOrder
    <3>2. /\ DOMAIN slot = Queue /\ h \in DOMAIN slot[q]
      BY <1>1, <2>1 DEF RingTypes, StreamTypes
    <3>3. /\ slot'[q][h] = pkt[t] /\ (\A r \in Queue \ {q} : slot'[r] = slot[r])
          /\ \A i : i # h => slot'[q][i] = slot[q][i]
      <4>1. slot'[q] = [slot[q] EXCEPT ![h] = pkt[t]]
        BY <2>1, <3>1, <3>2
      <4>2. QED BY <2>1, <3>1, <3>2, <4>1
    <3>4. CASE u = t
      BY <2>1, <3>1, <3>3, <3>4 DEF SlotOK
    <3>5. CASE u # t
      <4>1. pc[u] = "tx_head" => at[u] # q
        BY <1>1, <2>2, <3>5, OneTransmitter DEF TxHeld
      <4>2. pc[u] = "rx_tail" => at[u] # q \/ tail[at[u]] # h
        BY <1>1 DEF ThreadOK, ViewOK, Empty
      <4>3. QED BY <1>1, <2>1, <3>1, <3>3, <3>5, <4>1, <4>2, OtherSlot
    <3>6. QED BY <3>4, <3>5
  <2>3. CASE pc[t] = "tx_head"
    <3>1. tail' = tail /\ slot' = slot /\ pc'[t] = "tx_signal" /\ StoreHead(at[t])
      BY <1>4, <2>3 DEF InOrder
    <3>2. CASE u = t
      BY <3>1, <3>2 DEF SlotOK
    <3>3. CASE u # t
      <4>1. pc[u] = "tx_head" => at[u] # at[t]
        BY <1>1, <2>3, <3>3, OneTransmitter DEF TxHeld
      <4>2. pc[u] = "tx_head" => head'[at[u]] = head[at[u]]
        BY <1>1, <3>1, <4>1 DEF StoreHead, RingTypes
      <4>3. QED BY <1>1, <2>1, <3>1, <3>3, <4>2, OtherSlot
    <3>4. QED BY <3>2, <3>3
  <2>4. CASE pc[t] = "rx_get"
    <3>1. head' = head /\ tail' = tail /\ slot' = slot /\ pc'[t] = "rx_tail" /\ pkt'[t] = slot[at[t]][tail[at[t]]]
      BY <1>4, <2>4 DEF InOrder
    <3>2. CASE u = t
      BY <2>1, <3>1, <3>2 DEF SlotOK
    <3>3. CASE u # t
      BY <1>1, <2>1, <3>1, <3>3, OtherSlot
    <3>4. QED BY <3>2, <3>3
  <2>5. CASE pc[t] = "rx_tail"
    <3>1. head' = head /\ slot' = slot /\ pkt' = pkt /\ pc'[t] = "rx_signal" /\ StoreTail(at[t])
      BY <1>4, <2>5 DEF InOrder
    <3>2. CASE u = t
      BY <3>1, <3>2 DEF SlotOK
    <3>3. CASE u # t
      <4>1. pc[u] = "rx_tail" => at[u] # at[t]
        BY <1>1, <2>5, <3>3, OneReceiver DEF RxHeld
      <4>2. pc[u] = "rx_tail" => tail'[at[u]] = tail[at[u]]
        BY <1>1, <3>1, <4>1 DEF StoreTail, RingTypes
      <4>3. QED BY <1>1, <2>1, <3>1, <3>3, <4>2, OtherSlot
    <3>4. QED BY <3>2, <3>3
  <2>6. QED BY <1>4, <2>2, <2>3, <2>4, <2>5 DEF InOrder
<1>5. CASE UNCHANGED vars
  BY <1>1, <1>5, OtherSlot DEF vars, ringVars, threadVars
<1>6. QED BY <1>2, <1>3, <1>4, <1>5

\* The side that a thread is in, once its queue has threads of both sides in it
LEMMA BothSidesWired ==
  ASSUME StreamInv, NEW t \in User, NEW u \in User, at[t] = at[u],
         pc[t] \in TxHeld, pc[u] \in RxHeld
  PROVE  wiring = 5 /\ tx_wired[at[t]] /\ rx_wired[at[t]]
<1>1. ThreadOK(t) /\ ThreadOK(u) /\ SinkAtRest /\ SignalsWired /\ wiring \in 0 .. 5 /\ at[t] \in Queue
  BY DEF StreamInv, StreamTypes
<1>2. t \in Sink \/ u \in Sink
  BY <1>1 DEF ThreadOK, SideOK
<1>3. wiring = 5
  BY <1>1, <1>2 DEF SinkAtRest, TxHeld, RxHeld
<1>4. QED BY <1>1, <1>3 DEF SignalsWired, Queue

\* Sleepers are signalled when the thread that moves the index of the other
\* side leaves, whoever acts in between.
LEMMA OutsideDue ==
  ASSUME OrderedInv, NEW t \in User, Outside(t), Quiet(t), NEW u \in User
  PROVE  DueOK(u)'
<1>1. /\ StreamInv /\ ThreadOK(u) /\ ThreadOK(t) /\ DueOK(u) /\ DueOK(t)
      /\ at[u] \in Queue /\ at[t] \in Queue
      /\ tx_ready \in [Queue -> BOOLEAN] /\ rx_ready \in [Queue -> BOOLEAN]
      /\ DOMAIN pc = User
  BY DEF OrderedInv, StreamInv, StreamTypes
<1>2. /\ head' = head /\ tail' = tail /\ wiring' = wiring
      /\ \A v \in User \ {t} : pc'[v] = pc[v] /\ at'[v] = at[v]
  BY DEF Quiet
<1>3. CASE TxSignal(t)
  <2>1. /\ pc[t] = "tx_signal" /\ pc'[t] = "idle" /\ at' = at /\ tx_ready' = tx_ready
        /\ rx_ready' = [rx_ready EXCEPT ![at[t]] = @ \/ (SingleElement(at[t]) /\ rx_wired[at[t]])]
    BY <1>1, <1>3 DEF TxSignal, Goto
  <2>2. \A q \in Queue : rx_ready[q] => rx_ready'[q]
    BY <1>1, <2>1
  <2>3. CASE u = t
    BY <2>1, <2>3 DEF DueOK
  <2>4. CASE u # t /\ pc[u] = "rx_wait" /\ at[u] = at[t]
    <3>1. CASE Empty(at[u])
      BY <1>2, <2>1, <2>4, <3>1 DEF DueOK, Empty
    <3>2. CASE rx_ready[at[u]]
      BY <1>1, <1>2, <2>1, <2>2, <2>4, <3>2 DEF DueOK
    <3>3. CASE ~Empty(at[u]) /\ ~rx_ready[at[u]]
      <4>1. SingleElement(at[t])
        BY <1>1, <2>4, <3>3 DEF DueOK
      <4>2. rx_wired[at[t]]
        BY <1>1, <2>1, <2>4, BothSidesWired DEF TxHeld, RxHeld
      <4>3. rx_ready'[at[t]]
        BY <1>1, <2>1, <4>1, <4>2
      <4>4. QED BY <1>2, <2>1, <2>4, <4>3 DEF DueOK
    <3>4. QED BY <3>1, <3>2, <3>3
  <2>5. CASE u # t /\ ~(pc[u] = "rx_wait" /\ at[u] = at[t])
    BY <1>1, <1>2, <2>1, <2>2, <2>5, OtherDue
  <2>6. QED BY <2>3, <2>4, <2>5
<1>4. CASE RxSignal(t)
  <2>1. /\ pc[t] = "rx_signal" /\ pc'[t] = "idle" /\ at' = at /\ rx_ready' = rx_ready
        /\ tx_ready' = [tx_ready EXCEPT ![at[t]] = @ \/ (SingleSlotFree(at[t]) /\ tx_wired[at[t]])]
    BY <1>1, <1>4 DEF RxSignal, Goto
  <2>2. \A q \in Queue : tx_ready[q] => tx_ready'[q]
    BY <1>1, <2>1
  <2>3. CASE u = t
    BY <2>1, <2>3 DEF DueOK
  <2>4. CASE u # t /\ pc[u] = "tx_wait" /\ at[u] = at[t]
    <3>1. CASE Full(at[u])
      BY <1>2, <2>1, <2>4, <3>1 DEF DueOK, Full, Step
    <3>2. CASE tx_ready[at[u]]
      BY <1>1, <1>2, <2>1, <2>2, <2>4, <3>2 DEF DueOK
    <3>3. CASE ~Full(at[u]) /\ ~tx_ready[at[u]]
      <4>1. SingleSlotFree(at[t])
        BY <1>1, <2>4, <3>3 DEF DueOK
      <4>2. tx_wired[at[t]]
        BY <1>1, <2>1, <2>4, BothSidesWired DEF TxHeld, RxHeld
      <4>3. tx_ready'[at[t]]
        BY <1>1, <2>1, <4>1, <4>2
      <4>4. QED BY <1>2, <2>1, <2>4, <4>3 DEF DueOK
    <3>4. QED BY <3>1, <3>2, <3>3
  <2>5. CASE u # t /\ ~(pc[u] = "tx_wait" /\ at[u] = at[t])
    BY <1>1, <1>2, <2>1, <2>2, <2>5, OtherDue
  <2>6. QED BY <2>3, <2>4, <2>5
<1>5. CASE TxWait(t)
  <2>1. /\ pc[t] = "tx_wait" /\ pc'[t] = "tx_add" /\ at' = at /\ rx_ready' = rx_ready
        /\ tx_ready' = [tx_ready EXCEPT ![at[t]] = FALSE]
    BY <1>1, <1>5 DEF TxWait, Goto
  <2>2. CASE u = t
    BY <2>1, <2>2 DEF DueOK
  <2>3. CASE u # t
    <3>1. pc[u] = "tx_wait" => at[u] # at[t]
      BY <1>1, <2>1, <2>3, OneTransmitter DEF TxHeld
    <3>2. pc[u] = "tx_wait" /\ tx_ready[at[u]] => tx_ready'[at[u]]
      BY <1>1, <2>1, <3>1
    <3>3. QED BY <1>1, <1>2, <2>1, <2>3, <3>2, OtherDue
  <2>4. QED BY <2>2, <2>3
<1>6. CASE RxWait(t)
  <2>1. /\ pc[t] = "rx_wait" /\ pc'[t] = "rx_empty" /\ at' = at /\ tx_ready' = tx_ready
        /\ rx_ready' = [rx_ready EXCEPT ![at[t]] = FALSE]
    BY <1>1, <1>6 DEF RxWait, Goto
  <2>2. CASE u = t
    BY <2>1, <2>2 DEF DueOK
  <2>3. CASE u # t
    <3>1. pc[u] = "rx_wait" => at[u] # at[t]
      BY <1>1, <2>1, <2>3, OneReceiver DEF RxHeld
    <3>2. pc[u] = "rx_wait" /\ rx_ready[at[u]] => rx_ready'[at[u]]
      BY <1>1, <2>1, <3>1
    <3>3. QED BY <1>1, <1>2, <2>1, <2>3, <3>2, OtherDue
  <2>4. QED BY <2>2, <2>3
<1>7. CASE Locks(t)
  <2>1. /\ pc[t] \in {"tx_full", "rx_empty"} /\ at' = at /\ tx_ready' = tx_ready /\ rx_ready' = rx_ready
        /\ pc'[t] = "tx_wait" => Full(at[t])
        /\ pc'[t] = "rx_wait" => Empty(at[t])
    BY <1>1, <1>7 DEF Locks, TxFull, RxEmpty, signalVars, Goto
  <2>2. CASE u = t
    BY <1>2, <2>1, <2>2 DEF DueOK, Full, Empty, Step
  <2>3. CASE u # t
    BY <1>1, <1>2, <2>1, <2>3, OtherDue
  <2>4. QED BY <2>2, <2>3
<1>8. CASE \/ TxRetry(t) \/ SubmitPacket(t) \/ GetAckedPacket(t) \/ ReleasePacket(t)
           \/ GetPacket(t) \/ AcknowledgePacket(t)
  <2>1. /\ pc[t] \in {"tx_add", "idle"} /\ tx_ready' = tx_ready /\ rx_ready' = rx_ready
        /\ pc'[t] \in {"tx_full", "rx_empty", "idle"}
    BY <1>1, <1>8 DEF TxRetry, SubmitPacket, GetAckedPacket, ReleasePacket, GetPacket,
                      AcknowledgePacket, signalVars, Goto, Call
  <2>2. CASE u = t
    BY <2>1, <2>2 DEF DueOK
  <2>3. CASE u # t
    BY <1>1, <1>2, <2>1, <2>3, OtherDue
  <2>4. QED BY <2>2, <2>3
<1>9. QED BY <1>3, <1>4, <1>5, <1>6, <1>7, <1>8 DEF Outside

\* The same for 'add' and 'get': a full ring that gets a free slot, or an empty
\* one that gets a packet, makes a signal due.
LEMMA InOrderDue ==
  ASSUME OrderedInv, NEW t \in User, InOrder(t), NEW u \in User
  PROVE  DueOK(u)'
<1>1. /\ StreamInv /\ StreamTypes /\ RingTypes /\ ThreadOK(u) /\ ThreadOK(t) /\ DueOK(u)
      /\ at[u] \in Queue /\ at[t] \in Queue
  BY DEF OrderedInv, StreamInv, StreamTypes
<1>2. /\ at' = at /\ wiring' = wiring /\ tx_ready' = tx_ready /\ rx_ready' = rx_ready
      /\ \A v \in User \ {t} : pc'[v] = pc[v]
  BY DEF InOrder
<1>3. CASE pc[t] \in {"tx_add", "rx_get"}
  <2>1. head' = head /\ tail' = tail /\ pc'[t] \in {"tx_head", "rx_tail"}
    BY <1>3 DEF InOrder
  <2>2. CASE u = t
    BY <2>1, <2>2 DEF DueOK
  <2>3. CASE u # t
    BY <1>1, <1>2, <1>3, <2>1, <2>3, OtherDue
  <2>4. QED BY <2>2, <2>3
<1>4. CASE pc[t] = "tx_head"
  <2>1. pc'[t] = "tx_signal" /\ ~Full(at[t]) /\ StoreHead(at[t]) /\ tail' = tail
    BY <1>4 DEF InOrder
  <2>2. \A q \in Queue \ {at[t]} : head'[q] = head[q]
    BY <1>1, <2>1 DEF StoreHead, RingTypes
  <2>3. CASE u = t
    BY <2>1, <2>3 DEF DueOK
  <2>4. CASE u # t /\ pc[u] = "rx_wait" /\ at[u] = at[t]
    <3>1. wiring = 5
      BY <1>1, <1>4, <2>4, BothSidesWired DEF TxHeld, RxHeld
    <3>2. CASE Empty(at[u])
      <4>1. PICK q \in Queue : q = at[t]
        BY <1>1
      <4>2. SingleElement(q)'
        BY <1>1, <2>1, <2>4, <3>2, <4>1, HeadMoves
      <4>3. SingleElement(at[u])'
        BY <1>2, <2>4, <4>1, <4>2 DEF SingleElement, Step
      <4>4. pc'[t] = "tx_signal" /\ at'[t] = at'[u]
        BY <1>2, <2>1, <2>4
      <4>5. QED BY <1>2, <2>4, <3>1, <4>3, <4>4 DEF DueOK
    <3>3. CASE ~Empty(at[u])
      <4>1. \A v \in User : ~(pc[v] = "tx_signal" /\ at[v] = at[t])
        BY <1>1, <1>4, OneTransmitter DEF TxHeld
      <4>2. rx_ready[at[u]]
        BY <1>1, <2>4, <3>3, <4>1 DEF DueOK
      <4>3. QED BY <1>2, <2>4, <4>2 DEF DueOK
    <3>4. QED BY <3>2, <3>3
  <2>5. CASE u # t /\ ~(pc[u] = "rx_wait" /\ at[u] = at[t])
    <3>1. pc[u] = "tx_wait" => at[u] # at[t]
      BY <1>1, <1>4, <2>5, OneTransmitter DEF TxHeld
    <3>2. pc[u] \in {"tx_wait", "rx_wait"} => head'[at[u]] = head[at[u]]
      BY <1>1, <2>2, <2>5, <3>1
    <3>3. QED BY <1>1, <1>2, <1>4, <2>1, <2>5, <3>2, OtherDue
  <2>6. QED BY <2>3, <2>4, <2>5
<1>5. CASE pc[t] = "rx_tail"
  <2>1. pc'[t] = "rx_signal" /\ ~Empty(at[t]) /\ StoreTail(at[t]) /\ head' = head
    BY <1>5 DEF InOrder
  <2>2. \A q \in Queue \ {at[t]} : tail'[q] = tail[q]
    BY <1>1, <2>1 DEF StoreTail, RingTypes
  <2>3. CASE u = t
    BY <2>1, <2>3 DEF DueOK
  <2>4. CASE u # t /\ pc[u] = "tx_wait" /\ at[u] = at[t]
    <3>1. wiring = 5
      BY <1>1, <1>5, <2>4, BothSidesWired DEF TxHeld, RxHeld
    <3>2. CASE Full(at[u])
      <4>1. PICK q \in Queue : q = at[t]
        BY <1>1
      <4>2. SingleSlotFree(q)'
        BY <1>1, <2>1, <2>4, <3>2, <4>1, TailMoves DEF StoreTail
      <4>3. SingleSlotFree(at[u])'
        BY <1>2, <2>4, <4>1, <4>2 DEF SingleSlotFree, Step
      <4>4. pc'[t] = "rx_signal" /\ at'[t] = at'[u]
        BY <1>2, <2>1, <2>4
      <4>5. QED BY <1>2, <2>4, <3>1, <4>3, <4>4 DEF DueOK
    <3>3. CASE ~Full(at[u])
      <4>1. \A v \in User : ~(pc[v] = "rx_signal" /\ at[v] = at[t])
        BY <1>1, <1>5, OneReceiver DEF RxHeld
      <4>2. tx_ready[at[u]]
        BY <1>1, <2>4, <3>3, <4>1 DEF DueOK
      <4>3. QED BY <1>2, <2>4, <4>2 DEF DueOK
    <3>4. QED BY <3>2, <3>3
  <2>5. CASE u # t /\ ~(pc[u] = "tx_wait" /\ at[u] = at[t])
    <3>1. pc[u] = "rx_wait" => at[u] # at[t]
      BY <1>1, <1>5, <2>5, OneReceiver DEF RxHeld
    <3>2. pc[u] \in {"tx_wait", "rx_wait"} => tail'[at[u]] = tail[at[u]]
      BY <1>1, <2>2, <2>5, <3>1
    <3>3. QED BY <1>1, <1>2, <1>5, <2>1, <2>5, <3>2, OtherDue
  <2>6. QED BY <2>3, <2>4, <2>5
<1>6. QED BY <1>3, <1>4, <1>5 DEF InOrder

\* The constructor of the client makes signals pending and takes none away.
LEMMA WireDue ==
  ASSUME OrderedInv, Wire, NEW u \in User
  PROVE  DueOK(u)'
<1>1. /\ StreamInv /\ DueOK(u) /\ at[u] \in Queue
      /\ tx_ready \in [Queue -> BOOLEAN] /\ rx_ready \in [Queue -> BOOLEAN]
  BY DEF OrderedInv, StreamInv, StreamTypes
<1>2. head' = head /\ tail' = tail
  <2>1. CASE ConstructSink
    BY <1>1, <2>1, ConstructSinkRings
  <2>2. CASE ~ConstructSink
    BY <2>2 DEF Wire, RegisterRxReadyCap, RegisterTxReadyCap, ringVars
  <2>3. QED BY <2>1, <2>2
<1>3. /\ pc' = pc /\ at' = at /\ wiring # 5
      /\ \A q \in Queue : (tx_ready[q] => tx_ready'[q]) /\ (rx_ready[q] => rx_ready'[q])
  BY <1>1 DEF Wire, ConstructSink, RegisterRxReadyCap, RegisterTxReadyCap, threadVars, signalVars
<1>4. QED BY <1>1, <1>2, <1>3, OtherDue

---------------------------------------------------------------------------
(***************************************************************************)
(* No signal is missed                                                     *)
(***************************************************************************)

\* The invariant for accesses in program order holds in every reachable state.
LEMMA OrderedInvAlways ==
  ASSUME Reorders = FALSE
  PROVE  Spec => []OrderedInv
<1>1. Init => OrderedInv
  <2>1. SUFFICES ASSUME Init PROVE OrderedInv
    OBVIOUS
  <2>2. \A t \in User : SlotOK(t) /\ DueOK(t)
    BY <2>1 DEF Init, SlotOK, DueOK
  <2>3. QED BY <2>1, <2>2, InitStream DEF OrderedInv
<1>2. ASSUME OrderedInv, [Next]_vars PROVE OrderedInv'
  <2>1. StreamInv'
    BY <1>2, StreamInvStep DEF OrderedInv
  <2>2. /\ \/ Wire
           \/ \E t \in User : Outside(t) /\ Quiet(t)
           \/ \E t \in User : InOrder(t)
           \/ UNCHANGED vars
    BY <1>2, StepKinds
  <2>3. ASSUME NEW u \in User PROVE SlotOK(u)'
    BY <1>2, <2>2, OrderedSlots
  <2>4. ASSUME NEW u \in User PROVE DueOK(u)'
    <3>1. CASE UNCHANGED vars
      <4>1. DueOK(u) /\ UNCHANGED <<head, tail, pc, at, tx_ready, rx_ready, wiring>>
        BY <1>2, <3>1 DEF OrderedInv, vars, ringVars, threadVars, signalVars
      <4>2. QED BY <4>1, OtherDue
    <3>2. QED BY <1>2, <2>2, <3>1, WireDue, OutsideDue, InOrderDue
  <2>5. QED BY <2>1, <2>3, <2>4 DEF OrderedInv
<1>3. QED BY <1>1, <1>2, PTL DEF Spec

\* As long as the accesses of 'add' and 'get' are not swapped, nobody sleeps for
\* a queue that is no longer full or empty without a signal that is pending or
\* about to be submitted, whatever the sizes of the rings and the number of
\* threads at both sides, and also while the client is being constructed.
THEOREM NoSignalMissed ==
  ASSUME Reorders = FALSE
  PROVE  Spec => []NoMissedSignal
<1>1. OrderedInv => NoMissedSignal
  BY DEF OrderedInv, DueOK, NoMissedSignal
<1>2. QED BY <1>1, OrderedInvAlways, PTL

---------------------------------------------------------------------------
(***************************************************************************)
(* The stream implements two FIFO channels                                 *)
(***************************************************************************)

\* The refinement mapping: the packets under way, and those that threads work on
Channel == [q \in Queue |-> Content(q)]
Holds == [t \in User |-> IF pc[t] \in {"tx_slot", "rx_tail"} THEN NoPacket ELSE pkt[t]]

\* The packets under way are the content of the rings, before and after a step.
LEMMA ContentIsRing ==
  ASSUME NEW q \in Queue
  PROVE  /\ Channel[q] = Ring(QueueSize[q], head[q], tail[q], slot[q])
         /\ Channel'[q] = Ring(QueueSize[q], head'[q], tail'[q], slot'[q])
<1>1. Content(q) = Ring(QueueSize[q], head[q], tail[q], slot[q])
  BY DEF Content, Step, Ring, Used, Place, Mod
<1>2. Content(q)' = Ring(QueueSize[q], head'[q], tail'[q], slot'[q])
  BY DEF Content, Step, Ring, Used, Place, Mod
<1>3. Channel[q] = Content(q)
  BY DEF Channel
<1>4. Channel'[q] = Content(q)'
  BY DEF Channel
<1>5. QED BY <1>1, <1>2, <1>3, <1>4

\* A step that changes no ring, or only the one at q
LEMMA ChannelChanges ==
  ASSUME NEW q \in Queue, \A r \in Queue \ {q} : Channel'[r] = Channel[r], NEW s, Channel'[q] = s
  PROVE  Channel' = [Channel EXCEPT ![q] = s]
<1>1. Channel = [r \in Queue |-> Channel[r]]
  BY DEF Channel
<1>2. Channel' = [r \in Queue |-> Channel'[r]]
  BY DEF Channel
<1>3. QED BY <1>1, <1>2

\* A step that changes what the thread t works on
LEMMA HoldsChanges ==
  ASSUME NEW t \in User, \A u \in User \ {t} : pc'[u] = pc[u] /\ pkt'[u] = pkt[u],
         NEW p, p = IF pc'[t] \in {"tx_slot", "rx_tail"} THEN NoPacket ELSE pkt'[t]
  PROVE  Holds' = [Holds EXCEPT ![t] = p]
<1>1. Holds = [u \in User |-> Holds[u]] /\ \A u \in User :
        Holds[u] = IF pc[u] \in {"tx_slot", "rx_tail"} THEN NoPacket ELSE pkt[u]
  BY DEF Holds
<1>2. Holds' = [u \in User |-> Holds'[u]] /\ \A u \in User :
        Holds'[u] = IF pc'[u] \in {"tx_slot", "rx_tail"} THEN NoPacket ELSE pkt'[u]
  BY DEF Holds
<1>3. QED BY <1>1, <1>2

\* 'add' in program order: the packet is sent when _head moves.
LEMMA AddSends ==
  ASSUME OrderedInv, NEW t \in User, InOrder(t), pc[t] \in {"tx_add", "tx_head"}
  PROVE  IF pc[t] = "tx_add" THEN Channel' = Channel /\ Holds' = Holds
         ELSE /\ Holds[t] # NoPacket /\ Len(Channel[at[t]]) < QueueSize[at[t]] - 1
              /\ Channel' = [Channel EXCEPT ![at[t]] = Append(@, Holds[t])]
              /\ Holds' = [Holds EXCEPT ![t] = NoPacket]
<1>1. /\ StreamTypes /\ RingTypes /\ ThreadOK(t) /\ SlotOK(t) /\ at[t] \in Queue
  BY DEF OrderedInv, StreamInv, StreamTypes
<1>2. PICK q \in Queue : q = at[t]
  BY <1>1
<1> DEFINE N == QueueSize[q]
           h == head[q]
           l == tail[q]
           s == slot[q]
<1>3. /\ N \in Nat /\ N >= 2 /\ h \in 0 .. N - 1 /\ l \in 0 .. N - 1
      /\ s \in [0 .. N - 1 -> Packet \cup {NoPacket}] /\ (Full(q) <=> Mod(h + 1, N) = l)
  BY <1>1, RingState
<1>4. Channel[q] = Ring(N, h, l, s) /\ Holds[t] = pkt[t]
  BY ContentIsRing DEF Holds
<1>5. CASE pc[t] = "tx_add"
  <2>1. /\ head' = head /\ tail' = tail /\ pkt' = pkt /\ pc'[t] = "tx_head"
        /\ slot' = [slot EXCEPT ![q] = [slot[q] EXCEPT ![h] = pkt[t]]]
        /\ \A u \in User \ {t} : pc'[u] = pc[u] /\ pkt'[u] = pkt[u]
    BY <1>2, <1>5 DEF InOrder
  <2>2. DOMAIN slot = Queue
    BY <1>1 DEF RingTypes
  <2>3. slot'[q] = [s EXCEPT ![h] = pkt[t]] /\ \A r \in Queue \ {q} : slot'[r] = slot[r]
    BY <2>1, <2>2
  <2>4. Channel'[q] = Ring(N, h, l, [s EXCEPT ![h] = pkt[t]])
    BY <2>1, <2>3, ContentIsRing
  <2>5. Channel'[q] = Channel[q]
    <3> DEFINE z == [s EXCEPT ![h] = pkt[t]]
    <3>1. \A i \in 0 .. N - 1 : i # h => z[i] = s[i]
      BY <1>3
    <3> HIDE DEF N, h, l, s, z
    <3>2. Ring(N, h, l, z) = Ring(N, h, l, s)
      BY <1>3, <3>1, RingWrite
    <3>3. QED BY <1>4, <2>4, <3>2 DEF z
  <2>6. \A r \in Queue \ {q} : Channel'[r] = Channel[r]
    BY <2>1, <2>3, ContentIsRing
  <2>7. Channel' = [Channel EXCEPT ![q] = Channel[q]]
    BY <2>5, <2>6, ChannelChanges
  <2>8. Holds' = [Holds EXCEPT ![t] = Holds[t]]
    BY <1>4, <2>1, HoldsChanges
  <2>9. QED BY <1>5, <2>7, <2>8 DEF Channel, Holds
<1>6. CASE pc[t] = "tx_head"
  <2>1. /\ ~Full(q) /\ StoreHead(q) /\ tail' = tail /\ slot' = slot
        /\ pkt'[t] = NoPacket /\ pc'[t] = "tx_signal"
        /\ \A u \in User \ {t} : pc'[u] = pc[u] /\ pkt'[u] = pkt[u]
    BY <1>2, <1>6 DEF InOrder
  <2>2. pkt[t] # NoPacket /\ s[h] = pkt[t]
    BY <1>1, <1>2, <1>6 DEF ThreadOK, PacketOK, SlotOK
  <2>3. head'[q] = Mod(h + 1, N) /\ \A r \in Queue \ {q} : head'[r] = head[r]
    BY <1>1, <2>1, HeadMoves DEF Empty, SingleElement, Step
  <2>4. Channel'[q] = Ring(N, Mod(h + 1, N), l, s)
    BY <2>1, <2>3, ContentIsRing
  <2> HIDE DEF N, h, l, s
  <2>5. Channel'[q] = Append(Channel[q], pkt[t]) /\ Len(Channel[q]) < N - 1
    <3>1. Mod(h + 1, N) # l
      BY <1>3, <2>1
    <3>2. Ring(N, Mod(h + 1, N), l, s) = Append(Ring(N, h, l, s), s[h])
      BY <1>3, <3>1, RingAdd, ZenonT(60)
    <3>3. Len(Ring(N, h, l, s)) < N - 1
      BY <1>3, <3>1, RingProps
    <3>4. QED BY <1>4, <2>2, <2>4, <3>2, <3>3
  <2>6. \A r \in Queue \ {q} : Channel'[r] = Channel[r]
    BY <2>1, <2>3, ContentIsRing
  <2>7. Channel' = [Channel EXCEPT ![q] = Append(Channel[q], pkt[t])]
    BY <2>5, <2>6, ChannelChanges
  <2>8. Holds' = [Holds EXCEPT ![t] = NoPacket]
    BY <2>1, HoldsChanges
  <2>9. QED BY <1>2, <1>4, <1>6, <2>2, <2>5, <2>7, <2>8 DEF N
<1>7. QED BY <1>5, <1>6

\* 'get' in program order: the packet is received when _tail moves.
LEMMA GetReceives ==
  ASSUME OrderedInv, NEW t \in User, InOrder(t), pc[t] \in {"rx_get", "rx_tail"}
  PROVE  IF pc[t] = "rx_get" THEN Channel' = Channel /\ Holds' = Holds
         ELSE /\ Holds[t] = NoPacket /\ Channel[at[t]] # <<>>
              /\ Channel' = [Channel EXCEPT ![at[t]] = Tail(@)]
              /\ Holds' = [Holds EXCEPT ![t] = Head(Channel[at[t]])]
<1>1. /\ StreamTypes /\ RingTypes /\ ThreadOK(t) /\ SlotOK(t) /\ at[t] \in Queue
  BY DEF OrderedInv, StreamInv, StreamTypes
<1>2. PICK q \in Queue : q = at[t]
  BY <1>1
<1> DEFINE N == QueueSize[q]
           h == head[q]
           l == tail[q]
           s == slot[q]
<1>3. /\ N \in Nat /\ N >= 2 /\ h \in 0 .. N - 1 /\ l \in 0 .. N - 1
      /\ s \in [0 .. N - 1 -> Packet \cup {NoPacket}]
  BY <1>1, RingState
<1>4. Channel[q] = Ring(N, h, l, s)
  BY ContentIsRing
<1>5. CASE pc[t] = "rx_get"
  <2>1. /\ head' = head /\ tail' = tail /\ slot' = slot /\ pc'[t] = "rx_tail"
        /\ \A u \in User \ {t} : pc'[u] = pc[u] /\ pkt'[u] = pkt[u]
    BY <1>5 DEF InOrder
  <2>2. \A r \in Queue : Channel'[r] = Channel[r]
    BY <2>1, ContentIsRing
  <2>3. Channel' = [Channel EXCEPT ![q] = Channel[q]]
    BY <2>2, ChannelChanges
  <2>4. Holds[t] = NoPacket
    BY <1>1, <1>5 DEF Holds, ThreadOK, PacketOK
  <2>5. Holds' = [Holds EXCEPT ![t] = Holds[t]]
    BY <2>1, <2>4, HoldsChanges
  <2>6. QED BY <1>5, <2>3, <2>5 DEF Channel, Holds
<1>6. CASE pc[t] = "rx_tail"
  <2>1. /\ ~Empty(q) /\ StoreTail(q) /\ head' = head /\ slot' = slot
        /\ pkt' = pkt /\ pc'[t] = "rx_signal"
        /\ \A u \in User \ {t} : pc'[u] = pc[u] /\ pkt'[u] = pkt[u]
    BY <1>2, <1>6 DEF InOrder
  <2>2. s[l] = pkt[t] /\ h # l /\ Holds[t] = NoPacket
    BY <1>1, <1>2, <1>6, <2>1 DEF SlotOK, Empty, Holds
  <2>3. tail'[q] = Mod(l + 1, N) /\ \A r \in Queue \ {q} : tail'[r] = tail[r]
    BY <1>1, <2>1, TailMoves DEF StoreTail, Full, SingleSlotFree, Step
  <2>4. Channel'[q] = Ring(N, h, Mod(l + 1, N), s)
    BY <2>1, <2>3, ContentIsRing
  <2> HIDE DEF N, h, l, s
  <2>5. Channel'[q] = Tail(Channel[q]) /\ Head(Channel[q]) = pkt[t] /\ Channel[q] # <<>>
    <3>1. h # l
      BY <2>2
    <3>2. /\ Ring(N, h, Mod(l + 1, N), s) = Tail(Ring(N, h, l, s))
          /\ Head(Ring(N, h, l, s)) = s[l] /\ Ring(N, h, l, s) # <<>>
      BY <1>3, <3>1, RingGet, ZenonT(60)
    <3>3. QED BY <1>4, <2>2, <2>4, <3>2
  <2>6. \A r \in Queue \ {q} : Channel'[r] = Channel[r]
    BY <2>1, <2>3, ContentIsRing
  <2>7. Channel' = [Channel EXCEPT ![q] = Tail(Channel[q])]
    BY <2>5, <2>6, ChannelChanges
  <2>8. Holds' = [Holds EXCEPT ![t] = pkt[t]]
    BY <2>1, HoldsChanges
  <2>9. QED BY <1>2, <1>6, <2>2, <2>5, <2>7, <2>8
<1>7. QED BY <1>5, <1>6

\* The constructor of the client changes neither: it clears an empty ring.
LEMMA WireMaps ==
  ASSUME OrderedInv, Wire
  PROVE  Channel' = Channel /\ Holds' = Holds /\ unused' = unused
<1>1. StreamInv /\ StreamTypes /\ RingTypes /\ SinkAtRest
  BY DEF OrderedInv, StreamInv
<1>2. UNCHANGED <<unused, pc, pkt>>
  BY DEF Wire, ConstructSink, RegisterRxReadyCap, RegisterTxReadyCap, threadVars
<1>3. ASSUME NEW q \in Queue PROVE Channel'[q] = Channel[q]
  <2>1. CASE ConstructSink
    <3>1. /\ head' = head /\ tail' = tail /\ slot'["submit"] = slot["submit"]
          /\ slot'[q] \in [0 .. QueueSize[q] - 1 -> Packet \cup {NoPacket}]
      BY <1>1, <2>1, ConstructSinkRings
    <3>2. q = "ack" => head[q] = tail[q]
      BY <1>1, <2>1 DEF ConstructSink, SinkAtRest
    <3>3. CASE q = "submit"
      BY <3>1, <3>3, ContentIsRing
    <3>4. CASE q = "ack"
      <4> DEFINE N == QueueSize[q]
                 h == head[q]
      <4>1. N \in Nat /\ N >= 2 /\ h \in 0 .. N - 1
        BY <1>1, RingState
      <4>2. Channel[q] = Ring(N, h, h, slot[q]) /\ Channel'[q] = Ring(N, h, h, slot'[q])
        BY <3>1, <3>2, <3>4, ContentIsRing
      <4> HIDE DEF N, h
      <4>3. \A s : Ring(N, h, h, s) = <<>>
        BY <4>1, RingEmpty
      <4>4. QED BY <4>2, <4>3
    <3>5. QED BY <3>3, <3>4 DEF Queue
  <2>2. CASE ~ConstructSink
    <3>1. head' = head /\ tail' = tail /\ slot' = slot
      BY <2>2 DEF Wire, RegisterRxReadyCap, RegisterTxReadyCap, ringVars
    <3>2. QED BY <3>1, ContentIsRing
  <2>3. QED BY <2>1, <2>2
<1>4. Channel' = Channel
  BY <1>3 DEF Channel
<1>5. QED BY <1>2, <1>4 DEF Holds

\* Outside of 'add' and 'get', the source allocates and releases packets, and
\* nothing else happens to them.
LEMMA OutsideMaps ==
  ASSUME OrderedInv, NEW t \in User, Outside(t), Quiet(t)
  PROVE  /\ Channel' = Channel
         /\ \/ /\ t \in Source /\ Holds[t] = NoPacket
               /\ \E p \in Packet : /\ p \in unused /\ unused' = unused \ {p}
                                    /\ Holds' = [Holds EXCEPT ![t] = p]
            \/ /\ t \in Source /\ Holds[t] # NoPacket
               /\ unused' = unused \cup {Holds[t]} /\ Holds' = [Holds EXCEPT ![t] = NoPacket]
            \/ unused' = unused /\ Holds' = Holds
<1>1. StreamTypes
  BY DEF OrderedInv, StreamInv
<1>2. Channel' = Channel
  <2>1. head' = head /\ tail' = tail /\ slot' = slot
    BY DEF Quiet
  <2>2. \A q \in Queue : Channel'[q] = Channel[q]
    BY <2>1, ContentIsRing
  <2>3. QED BY <2>2 DEF Channel
<1>3. /\ pc[t] \notin {"tx_slot", "rx_tail"} /\ pc'[t] \notin {"tx_slot", "rx_tail"}
      /\ \A u \in User \ {t} : pc'[u] = pc[u] /\ pkt'[u] = pkt[u]
  BY DEF Quiet
<1>4. Holds[t] = pkt[t] /\ Holds' = [Holds EXCEPT ![t] = pkt'[t]]
  <2>1. Holds[t] = pkt[t]
    BY <1>3 DEF Holds
  <2>2. QED BY <1>3, <2>1, HoldsChanges
<1>5. CASE SubmitPacket(t)
  <2> DEFINE p == AllocPacket(unused)
  <2>1. p \in unused /\ p \in Packet
    BY <1>1, <1>5 DEF SubmitPacket, AllocPacket, StreamTypes
  <2>2. t \in Source /\ pkt[t] = NoPacket /\ unused' = unused \ {p} /\ pkt'[t] = p
    BY <1>1, <1>5 DEF SubmitPacket, StreamTypes
  <2> HIDE DEF p
  <2>3. QED BY <1>2, <1>4, <2>1, <2>2
<1>6. CASE ReleasePacket(t)
  <2>1. t \in Source /\ pkt[t] # NoPacket /\ unused' = unused \cup {pkt[t]} /\ pkt'[t] = NoPacket
    BY <1>1, <1>6 DEF ReleasePacket, StreamTypes
  <2>2. QED BY <1>2, <1>4, <2>1
<1>7. CASE ~SubmitPacket(t) /\ ~ReleasePacket(t)
  <2>1. unused' = unused /\ pkt' = pkt
    BY <1>7 DEF Outside, Locks, TxFull, RxEmpty, TxWait, TxRetry, TxSignal, RxWait, RxSignal,
                GetAckedPacket, GetPacket, AcknowledgePacket
  <2>2. Holds' = [Holds EXCEPT ![t] = Holds[t]]
    BY <1>4, <2>1
  <2>3. Holds' = Holds
    BY <2>2 DEF Holds
  <2>4. QED BY <1>2, <2>1, <2>3
<1>8. QED BY <1>5, <1>6, <1>7

\* A step of the stream is a step of the channels, or none.
LEMMA StepMaps ==
  ASSUME Reorders = FALSE, OrderedInv, [Next]_vars
  PROVE  [Flow!Next]_(Flow!vars)
<1>1. CASE Wire
  <2>1. Channel' = Channel /\ Holds' = Holds /\ unused' = unused
    BY <1>1, WireMaps
  <2>2. QED BY <2>1 DEF Flow!vars, Channel, Holds, User
<1>2. ASSUME NEW t \in User, Outside(t), Quiet(t) PROVE [Flow!Next]_(Flow!vars)
  <2>1. CASE /\ t \in Source /\ Holds[t] = NoPacket
             /\ \E p \in Packet : /\ p \in unused /\ unused' = unused \ {p}
                                  /\ Holds' = [Holds EXCEPT ![t] = p]
    <3>1. PICK p \in Packet : /\ p \in unused /\ unused' = unused \ {p}
                              /\ Holds' = [Holds EXCEPT ![t] = p]
      BY <2>1
    <3>2. Channel' = Channel
      BY <1>2, OutsideMaps
    <3>3. Flow!Alloc(t, p)
      BY <2>1, <3>1, <3>2 DEF Flow!Alloc, Channel, Holds, User
    <3>4. QED BY <2>1, <3>3 DEF Flow!Next
  <2>2. CASE /\ t \in Source /\ Holds[t] # NoPacket
             /\ unused' = unused \cup {Holds[t]} /\ Holds' = [Holds EXCEPT ![t] = NoPacket]
    <3>1. Channel' = Channel
      BY <1>2, OutsideMaps
    <3>2. Flow!Free(t)
      BY <2>2, <3>1 DEF Flow!Free, Channel, Holds, User
    <3>3. QED BY <2>2, <3>2 DEF Flow!Next
  <2>3. CASE unused' = unused /\ Holds' = Holds
    <3>1. Channel' = Channel
      BY <1>2, OutsideMaps
    <3>2. QED BY <2>3, <3>1 DEF Flow!vars, Channel, Holds, User
  <2>4. QED BY <1>2, <2>1, <2>2, <2>3, OutsideMaps
<1>3. ASSUME NEW t \in User, InOrder(t) PROVE [Flow!Next]_(Flow!vars)
  <2>1. unused' = unused /\ pc[t] \in {"tx_add", "tx_head", "rx_get", "rx_tail"} /\ at[t] \in Queue
    BY <1>3 DEF InOrder, OrderedInv, StreamInv, StreamTypes
  <2>2. CASE pc[t] \in {"tx_add", "rx_get"}
    <3>1. Channel' = Channel /\ Holds' = Holds
      BY <1>3, <2>2, AddSends, GetReceives
    <3>2. QED BY <2>1, <3>1 DEF Flow!vars, Channel, Holds, User
  <2>3. CASE pc[t] = "tx_head"
    <3>1. PICK q \in Queue : q = at[t]
      BY <2>1
    <3>2. /\ Holds[t] # NoPacket /\ Len(Channel[q]) < QueueSize[q] - 1
          /\ Channel' = [Channel EXCEPT ![q] = Append(@, Holds[t])]
          /\ Holds' = [Holds EXCEPT ![t] = NoPacket]
      BY <1>3, <2>3, <3>1, AddSends
    <3>3. Flow!Send(t, q)
      BY <2>1, <3>2, Zenon DEF Flow!Send, Channel, Holds, User
    <3>4. (t \in Source /\ q = "submit") \/ (t \in Sink /\ q = "ack")
      BY <2>3, <3>1 DEF OrderedInv, StreamInv, ThreadOK, SideOK, TxHeld
    <3>5. QED BY <3>3, <3>4 DEF Flow!Next
  <2>4. CASE pc[t] = "rx_tail"
    <3>1. PICK q \in Queue : q = at[t]
      BY <2>1
    <3>2. /\ Holds[t] = NoPacket /\ Channel[q] # <<>>
          /\ Channel' = [Channel EXCEPT ![q] = Tail(@)]
          /\ Holds' = [Holds EXCEPT ![t] = Head(Channel[q])]
      BY <1>3, <2>4, <3>1, GetReceives
    <3>3. Flow!Receive(t, q)
      BY <2>1, <3>2, Zenon DEF Flow!Receive, Channel, Holds, User
    <3>4. (t \in Source /\ q = "ack") \/ (t \in Sink /\ q = "submit")
      BY <2>4, <3>1 DEF OrderedInv, StreamInv, ThreadOK, SideOK, RxHeld
    <3>5. QED BY <3>3, <3>4 DEF Flow!Next
  <2>5. QED BY <2>1, <2>2, <2>3, <2>4
<1>4. CASE UNCHANGED vars
  <2>1. head' = head /\ tail' = tail /\ slot' = slot /\ UNCHANGED <<unused, pc, pkt>>
    BY <1>4 DEF vars, ringVars, threadVars
  <2>2. \A q \in Queue : Channel'[q] = Channel[q]
    BY <2>1, ContentIsRing
  <2>3. Channel' = Channel
    BY <2>2 DEF Channel
  <2>4. Holds' = Holds
    BY <2>1 DEF Holds
  <2>5. QED BY <2>1, <2>3, <2>4 DEF Flow!vars, Channel, Holds, User
<1>5. QED BY <1>1, <1>2, <1>3, <1>4, StepKinds

\* As long as the accesses of 'add' and 'get' are not swapped, a packet stream
\* is two bounded FIFO channels, whatever the sizes of its rings and the number
\* of threads at both sides: no packet is lost, duplicated, overtaken, read
\* before it is written or overwritten before it is read.
THEOREM StreamImplementsFlow ==
  ASSUME Reorders = FALSE
  PROVE  Spec => ImplementsFlow
<1>1. Init => Flow!Init
  <2>1. SUFFICES ASSUME Init PROVE Flow!Init
    OBVIOUS
  <2>2. ASSUME NEW q \in Queue PROVE Channel[q] = <<>>
    <3> DEFINE N == QueueSize[q]
    <3>1. N \in Nat /\ N >= 2 /\ 0 \in 0 .. N - 1 /\ head[q] = 0 /\ tail[q] = 0
      BY <2>1, StreamAssumption DEF Init
    <3>2. Channel[q] = Ring(N, 0, 0, slot[q])
      BY <3>1, ContentIsRing
    <3> HIDE DEF N
    <3>3. QED BY <3>1, <3>2, RingEmpty
  <2>3. Channel = [q \in {"submit", "ack"} |-> <<>>]
    BY <2>2 DEF Channel, Queue
  <2>4. Holds = [t \in Source \cup Sink |-> NoPacket] /\ unused = Packet
    BY <2>1 DEF Init, Holds, User
  <2>5. QED BY <2>3, <2>4 DEF Flow!Init, Channel, Holds, User
<1>2. Reorders = FALSE /\ OrderedInv /\ [Next]_vars => [Flow!Next]_(Flow!vars)
  BY StepMaps
<1>3. QED BY <1>1, <1>2, OrderedInvAlways, PTL DEF Spec, ImplementsFlow, Flow!Spec
=============================================================================
