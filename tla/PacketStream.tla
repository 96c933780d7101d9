---------------------------- MODULE PacketStream ----------------------------
(***************************************************************************)
(* Genode::Packet_stream_source and Packet_stream_sink, the bulk transfer  *)
(* between components (repos/os/include/os/packet_stream.h), wired by      *)
(* Packet_stream_rx::Client (repos/os/include/packet_stream_rx/client.h):  *)
(* the source is in the server and may submit packets before the client    *)
(* has connected its sink.                                                 *)
(*                                                                         *)
(* Source and sink share two rings of packet descriptors.  Nothing but the *)
(* order of accesses protects them from each other: each access to the     *)
(* other side's index is a step of its own.  A side that finds its ring    *)
(* full (transmitter) or empty (receiver) sleeps until the other side      *)
(* submits a signal, which it does only on the transition that matters.    *)
(* Threads of one side exclude each other by a lock that they keep while   *)
(* they sleep.                                                             *)
(*                                                                         *)
(* Packets are the equally sized buffers of the bulk buffer.  Signals are  *)
(* those of SignalReceiver: not lost, and merged while pending.            *)
(***************************************************************************)
EXTENDS Naturals, Sequences, FiniteSets

CONSTANTS
  Packet,       \* packets that fit into the bulk buffer
  Source,       \* threads that submit packets and collect acknowledgements
  Sink,         \* threads that get packets and acknowledge them
  QueueSize,    \* QUEUE_SIZE of the submit and the ack queue
  Reorders,     \* whether the two accesses of 'add' and 'get' may swap: no barrier orders them
  NoPacket,     \* packet descriptor of zeros
  NoThread

Queue == {"submit", "ack"}
User == Source \cup Sink

ASSUME StreamAssumption ==
  /\ Source \cap Sink = {}
  /\ NoPacket \notin Packet /\ NoThread \notin User
  /\ QueueSize \in [Queue -> Nat] /\ \A q \in Queue : QueueSize[q] >= 2
  /\ Reorders \in BOOLEAN

VARIABLES
  head, tail, slot,  \* _head, _tail and _queue of each ring
  tx_ready,          \* a ready-to-transmit signal is pending at the transmitter
  rx_ready,          \* a ready-to-receive signal is pending at the receiver
  tx_wired,          \* the receiver knows whom to send ready-to-transmit signals
  rx_wired,          \* the transmitter knows whom to send ready-to-receive signals
  tx_lock, rx_lock,  \* holder of _tx_queue_lock and _rx_queue_lock
  wiring,            \* steps of the client's constructor that are done
  unused,            \* packets not allocated
  pc, at,            \* what a thread does next, and at which queue
  pkt                \* the packet it does it with

ringVars == <<head, tail, slot>>
signalVars == <<tx_ready, rx_ready, tx_wired, rx_wired>>
lockVars == <<tx_lock, rx_lock>>
threadVars == <<pc, at, pkt>>
vars == <<ringVars, signalVars, lockVars, wiring, unused, threadVars>>

\* Type invariant
TypeOK ==
  /\ \A q \in Queue : head[q] \in 0 .. QueueSize[q] - 1 /\ tail[q] \in 0 .. QueueSize[q] - 1
  /\ \A q \in Queue : slot[q] \in [0 .. QueueSize[q] - 1 -> Packet \cup {NoPacket}]
  /\ {tx_ready, rx_ready, tx_wired, rx_wired} \subseteq [Queue -> BOOLEAN]
  /\ {tx_lock, rx_lock} \subseteq [Queue -> User \cup {NoThread}]
  /\ wiring \in 0 .. 5
  /\ unused \subseteq Packet
  /\ pc \in [User -> {"idle",
       "tx_full", "tx_wait", "tx_add", "tx_head", "tx_slot", "tx_signal",
       "rx_empty", "rx_wait", "rx_get", "rx_tail", "rx_slot", "rx_signal"}]
  /\ at \in [User -> Queue]
  /\ pkt \in [User -> Packet \cup {NoPacket}]

Init ==
  /\ head = [q \in Queue |-> 0]
  /\ tail = [q \in Queue |-> 0]
  /\ slot = [q \in Queue |-> [i \in 0 .. QueueSize[q] - 1 |-> NoPacket]]
  /\ tx_ready = [q \in Queue |-> FALSE] /\ rx_ready = tx_ready
  /\ tx_wired = [q \in Queue |-> FALSE] /\ rx_wired = tx_wired
  /\ tx_lock = [q \in Queue |-> NoThread] /\ rx_lock = tx_lock
  /\ wiring = 0
  /\ unused = Packet
  /\ pc = [t \in User |-> "idle"]
  /\ at = [t \in User |-> "submit"]
  /\ pkt = [t \in User |-> NoPacket]

---------------------------------------------------------------------------
(* Packet_descriptor_queue *)

Step(q, i, n) == (i + n) % QueueSize[q]

Empty(q) == tail[q] = head[q]

\* Mutant: the wrap-around is forgotten
FullUnwrapped(q) == head[q] + 1 = tail[q]

Full(q) == Step(q, head[q], 1) = tail[q]

\* Mutant: the roles of _head and _tail are swapped
SingleElementSwapped(q) == Step(q, head[q], 1) = tail[q]

SingleElement(q) == Step(q, tail[q], 1) = head[q]

\* Mutant: the receiver signals when it has emptied the ring
SingleSlotFreeEmpty(q) == Empty(q)

SingleSlotFree(q) == Step(q, head[q], 2) = tail[q]

Goto(t, where) == pc' = [pc EXCEPT ![t] = where]

---------------------------------------------------------------------------
(* Packet_descriptor_transmitter::tx *)

\* The lock, and the first look at the queue
TxFull(t) ==
  /\ pc[t] = "tx_full" /\ tx_lock[at[t]] \in {NoThread, t}
  /\ tx_lock' = [tx_lock EXCEPT ![at[t]] = t]
  /\ Goto(t, IF Full(at[t]) THEN "tx_wait" ELSE "tx_add")
  /\ UNCHANGED <<ringVars, signalVars, rx_lock, wiring, unused, at, pkt>>

\* wait_for_signal returns
TxWait(t) ==
  /\ pc[t] = "tx_wait" /\ tx_ready[at[t]]
  /\ tx_ready' = [tx_ready EXCEPT ![at[t]] = FALSE]
  /\ Goto(t, "tx_add")
  /\ UNCHANGED <<ringVars, rx_ready, tx_wired, rx_wired, lockVars, wiring, unused, at, pkt>>

\* 'add' of a full queue: the signal was an old one
TxRetry(t) ==
  /\ pc[t] = "tx_add" /\ Full(at[t])
  /\ Goto(t, "tx_full")
  /\ UNCHANGED <<ringVars, signalVars, lockVars, wiring, unused, at, pkt>>

\* The two stores of 'add': the descriptor into the slot at _head, and the new _head
StoreSlot(q, i, p) == slot' = [slot EXCEPT ![q][i] = p] /\ UNCHANGED head
StoreHead(q) == head' = [head EXCEPT ![q] = Step(q, @, 1)] /\ UNCHANGED slot

TxAdd(t) ==
  /\ pc[t] = "tx_add" /\ ~Full(at[t])
  /\ \E ordered \in {TRUE, ~Reorders} :
       /\ IF ordered THEN StoreSlot(at[t], head[at[t]], pkt[t]) ELSE StoreHead(at[t])
       /\ Goto(t, IF ordered THEN "tx_head" ELSE "tx_slot")
  /\ UNCHANGED <<tail, signalVars, lockVars, wiring, unused, at, pkt>>

TxAdded(t) ==
  /\ pc[t] \in {"tx_head", "tx_slot"}
  /\ IF pc[t] = "tx_head" THEN StoreHead(at[t])
     ELSE StoreSlot(at[t], Step(at[t], head[at[t]], QueueSize[at[t]] - 1), pkt[t])
  /\ pkt' = [pkt EXCEPT ![t] = NoPacket]
  /\ Goto(t, "tx_signal")
  /\ UNCHANGED <<tail, signalVars, lockVars, wiring, unused, at>>

\* The end of tx: a signal for the first element, and the release of the lock
TxSignal(t) ==
  /\ pc[t] = "tx_signal"
  /\ rx_ready' = [rx_ready EXCEPT ![at[t]] = @ \/ (SingleElement(at[t]) /\ rx_wired[at[t]])]
  /\ tx_lock' = [tx_lock EXCEPT ![at[t]] = NoThread]
  /\ Goto(t, "idle")
  /\ UNCHANGED <<ringVars, tx_ready, tx_wired, rx_wired, rx_lock, wiring, unused, at, pkt>>

---------------------------------------------------------------------------
(* Packet_descriptor_receiver::rx *)

RxEmpty(t) ==
  /\ pc[t] = "rx_empty" /\ rx_lock[at[t]] \in {NoThread, t}
  /\ rx_lock' = [rx_lock EXCEPT ![at[t]] = t]
  /\ Goto(t, IF Empty(at[t]) THEN "rx_wait" ELSE "rx_get")
  /\ UNCHANGED <<ringVars, signalVars, tx_lock, wiring, unused, at, pkt>>

\* Mutant: the queue is not looked at again after the signal
RxWaitOnce(t) ==
  /\ pc[t] = "rx_wait" /\ rx_ready[at[t]]
  /\ rx_ready' = [rx_ready EXCEPT ![at[t]] = FALSE]
  /\ Goto(t, "rx_get")
  /\ UNCHANGED <<ringVars, tx_ready, tx_wired, rx_wired, lockVars, wiring, unused, at, pkt>>

\* wait_for_signal returns
RxWait(t) ==
  /\ pc[t] = "rx_wait" /\ rx_ready[at[t]]
  /\ rx_ready' = [rx_ready EXCEPT ![at[t]] = FALSE]
  /\ Goto(t, "rx_empty")
  /\ UNCHANGED <<ringVars, tx_ready, tx_wired, rx_wired, lockVars, wiring, unused, at, pkt>>

\* The two accesses of 'get': the descriptor is read, and _tail is stored
LoadSlot(t, i) == pkt' = [pkt EXCEPT ![t] = slot[at[t]][i]] /\ UNCHANGED tail
StoreTail(q) == tail' = [tail EXCEPT ![q] = Step(q, @, 1)] /\ UNCHANGED pkt

RxGet(t) ==
  /\ pc[t] = "rx_get"
  /\ \E ordered \in {TRUE, ~Reorders} :
       /\ IF ordered THEN LoadSlot(t, tail[at[t]]) ELSE StoreTail(at[t])
       /\ Goto(t, IF ordered THEN "rx_tail" ELSE "rx_slot")
  /\ UNCHANGED <<head, slot, signalVars, lockVars, wiring, unused, at>>

RxGot(t) ==
  /\ pc[t] \in {"rx_tail", "rx_slot"}
  /\ IF pc[t] = "rx_tail" THEN StoreTail(at[t])
     ELSE LoadSlot(t, Step(at[t], tail[at[t]], QueueSize[at[t]] - 1))
  /\ Goto(t, "rx_signal")
  /\ UNCHANGED <<head, slot, signalVars, lockVars, wiring, unused, at>>

\* The end of rx: a signal if a full queue got its first free slot
RxSignal(t) ==
  /\ pc[t] = "rx_signal"
  /\ tx_ready' = [tx_ready EXCEPT ![at[t]] = @ \/ (SingleSlotFree(at[t]) /\ tx_wired[at[t]])]
  /\ rx_lock' = [rx_lock EXCEPT ![at[t]] = NoThread]
  /\ Goto(t, "idle")
  /\ UNCHANGED <<ringVars, rx_ready, tx_wired, rx_wired, tx_lock, wiring, unused, at, pkt>>

---------------------------------------------------------------------------
(* Use of the stream *)

Call(t, where, q) == Goto(t, where) /\ at' = [at EXCEPT ![t] = q]

\* The packet that the allocator of the bulk buffer chooses
AllocPacket(free) == CHOOSE p \in free : TRUE

\* alloc_packet, which fails if there is no space, and submit_packet
SubmitPacket(t) ==
  /\ t \in Source /\ pc[t] = "idle" /\ pkt[t] = NoPacket
  /\ unused # {}
  /\ unused' = unused \ {AllocPacket(unused)}
  /\ pkt' = [pkt EXCEPT ![t] = AllocPacket(unused)]
  /\ Call(t, "tx_full", "submit")
  /\ UNCHANGED <<ringVars, signalVars, lockVars, wiring>>

\* get_acked_packet, by a source that has packets under way
GetAckedPacket(t) ==
  /\ t \in Source /\ pc[t] = "idle" /\ pkt[t] = NoPacket
  /\ Cardinality(Packet \ unused) > Cardinality({u \in Source : pc[u] # "idle" \/ pkt[u] # NoPacket})
  /\ Call(t, "rx_empty", "ack")
  /\ UNCHANGED <<ringVars, signalVars, lockVars, wiring, unused, pkt>>

ReleasePacket(t) ==
  /\ t \in Source /\ pc[t] = "idle" /\ pkt[t] # NoPacket
  /\ unused' = unused \cup {pkt[t]}
  /\ pkt' = [pkt EXCEPT ![t] = NoPacket]
  /\ UNCHANGED <<ringVars, signalVars, lockVars, wiring, pc, at>>

\* get_packet, after the client's constructor
GetPacket(t) ==
  /\ t \in Sink /\ wiring = 5 /\ pc[t] = "idle" /\ pkt[t] = NoPacket
  /\ Call(t, "rx_empty", "submit")
  /\ UNCHANGED <<ringVars, signalVars, lockVars, wiring, unused, pkt>>

AcknowledgePacket(t) ==
  /\ t \in Sink /\ pc[t] = "idle" /\ pkt[t] # NoPacket
  /\ Call(t, "tx_full", "ack")
  /\ UNCHANGED <<ringVars, signalVars, lockVars, wiring, unused, pkt>>

---------------------------------------------------------------------------
(* Constructor of Packet_stream_rx::Client: the sink, then the four signal handlers *)

ConstructSink ==
  /\ wiring = 0
  /\ tail' = [tail EXCEPT !["submit"] = 0]
  /\ head' = [head EXCEPT !["ack"] = 0]
  /\ slot' = [slot EXCEPT !["ack"] = [i \in DOMAIN @ |-> NoPacket]]
  /\ wiring' = 1
  /\ UNCHANGED <<signalVars, lockVars, unused, threadVars>>

RegisterRxReadyCap(q, step) ==
  /\ wiring = step /\ wiring' = step + 1
  /\ rx_wired' = [rx_wired EXCEPT ![q] = TRUE]
  /\ rx_ready' = [rx_ready EXCEPT ![q] = @ \/ ~Empty(q)]
  /\ UNCHANGED <<ringVars, tx_ready, tx_wired, lockVars, unused, threadVars>>

RegisterTxReadyCap(q, step) ==
  /\ wiring = step /\ wiring' = step + 1
  /\ tx_wired' = [tx_wired EXCEPT ![q] = TRUE]
  /\ tx_ready' = [tx_ready EXCEPT ![q] = @ \/ ~Empty(q)]
  /\ UNCHANGED <<ringVars, rx_ready, rx_wired, lockVars, unused, threadVars>>

Wire ==
  \/ ConstructSink
  \/ RegisterRxReadyCap("ack", 1)
  \/ RegisterTxReadyCap("submit", 2)
  \/ RegisterTxReadyCap("ack", 3)
  \/ RegisterRxReadyCap("submit", 4)

---------------------------------------------------------------------------
Locks(t) == TxFull(t) \/ RxEmpty(t)

Works(t) ==
  \/ TxWait(t) \/ TxRetry(t) \/ TxAdd(t) \/ TxAdded(t) \/ TxSignal(t)
  \/ RxWait(t) \/ RxGet(t) \/ RxGot(t) \/ RxSignal(t)
  \/ SubmitPacket(t) \/ GetAckedPacket(t) \/ ReleasePacket(t)
  \/ GetPacket(t) \/ AcknowledgePacket(t)

Next == Wire \/ \E t \in User : Locks(t) \/ Works(t)

Spec == Init /\ [][Next]_vars

\* Threads that can run do so; a lock is granted to each who applies for it
LiveSpec ==
  /\ Spec
  /\ WF_vars(Wire)
  /\ \A t \in User : WF_vars(Works(t)) /\ SF_vars(Locks(t))

---------------------------------------------------------------------------
(* Properties *)

\* The packets in a ring, from _tail to _head
Content(q) ==
  [i \in 1 .. (head[q] + QueueSize[q] - tail[q]) % QueueSize[q] |-> slot[q][Step(q, tail[q], i - 1)]]

\* A packet that 'get' has read is received when _tail moves
Flow == INSTANCE PacketFlow WITH
  Capacity <- [q \in Queue |-> QueueSize[q] - 1],
  channel <- [q \in Queue |-> Content(q)],
  holds <- [t \in User |-> IF pc[t] \in {"tx_slot", "rx_tail"} THEN NoPacket ELSE pkt[t]]

\* Whatever the order in which both sides access the rings, no packet is lost, duplicated,
\* overtaken, read before it is written or overwritten before it is read
\* (Packet_descriptor_queue::add, get, full, empty).
ImplementsFlow == Flow!Spec

\* Who sleeps for a queue that is no longer full or empty has a signal pending, or a thread
\* of the other side is about to submit it, or the constructor of the client is
\* (tx, rx: the signals are submitted on single_element and single_slot_free only).
NoMissedSignal ==
  \A t \in User :
    /\ pc[t] = "tx_wait" /\ ~Full(at[t]) =>
         tx_ready[at[t]] \/ \E u \in User : pc[u] = "rx_signal" /\ at[u] = at[t]
    /\ pc[t] = "rx_wait" /\ ~Empty(at[t]) =>
         rx_ready[at[t]] \/ \E u \in User : pc[u] = "tx_signal" /\ at[u] = at[t]

\* 'ready_to_submit' and 'packet_avail' can be relied upon: a queue does not become full but
\* by its transmitter, nor empty but by its receiver, also while the sink is constructed.
QueriesStable ==
  [][\A q \in Queue :
       /\ ~Full(q) /\ Full(q)' => \E t \in User : pc[t] \in {"tx_add", "tx_head"} /\ at[t] = q
       /\ ~Empty(q) /\ Empty(q)' => \E t \in User : pc[t] \in {"rx_get", "rx_tail"} /\ at[t] = q
    ]_vars

\* Each packet that is allocated comes back to the source.
PacketsReturn == \A p \in Packet : p \notin unused ~> p \in unused
=============================================================================
