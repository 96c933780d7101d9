----------------------------- MODULE PacketFlow -----------------------------
(***************************************************************************)
(* What a packet stream promises: packets travel through two bounded FIFO  *)
(* channels, from the source to the sink and back as acknowledgements.     *)
(* None is lost, duplicated, overtaken or made up.                         *)
(***************************************************************************)
EXTENDS Naturals, Sequences

CONSTANTS
  Packet,     \* packets that fit into the bulk buffer
  Source,     \* threads of the source
  Sink,       \* threads of the sink
  Capacity,   \* number of packets each channel holds
  NoPacket

VARIABLES
  unused,     \* packets that are not allocated
  holds,      \* packet a thread works on
  channel     \* packets under way, per channel

vars == <<unused, holds, channel>>

Init ==
  /\ unused = Packet
  /\ holds = [t \in Source \cup Sink |-> NoPacket]
  /\ channel = [q \in {"submit", "ack"} |-> <<>>]

Alloc(t, p) ==
  /\ holds[t] = NoPacket /\ p \in unused
  /\ unused' = unused \ {p}
  /\ holds' = [holds EXCEPT ![t] = p]
  /\ UNCHANGED channel

Free(t) ==
  /\ holds[t] # NoPacket
  /\ unused' = unused \cup {holds[t]}
  /\ holds' = [holds EXCEPT ![t] = NoPacket]
  /\ UNCHANGED channel

Send(t, q) ==
  /\ holds[t] # NoPacket /\ Len(channel[q]) < Capacity[q]
  /\ channel' = [channel EXCEPT ![q] = Append(@, holds[t])]
  /\ holds' = [holds EXCEPT ![t] = NoPacket]
  /\ UNCHANGED unused

Receive(t, q) ==
  /\ holds[t] = NoPacket /\ channel[q] # <<>>
  /\ channel' = [channel EXCEPT ![q] = Tail(@)]
  /\ holds' = [holds EXCEPT ![t] = Head(channel[q])]
  /\ UNCHANGED unused

Next ==
  \/ \E t \in Source :
       (\E p \in Packet : Alloc(t, p)) \/ Send(t, "submit") \/ Receive(t, "ack") \/ Free(t)
  \/ \E t \in Sink : Receive(t, "submit") \/ Send(t, "ack")

Spec == Init /\ [][Next]_vars
=============================================================================
