--------------------------- MODULE MCPacketStream ---------------------------
(***************************************************************************)
(* Instances of PacketStream with rings of three and two slots.            *)
(***************************************************************************)
EXTENDS PacketStream

MCQueueSize == [submit |-> 3, ack |-> 2]
=============================================================================
