---------------------------- MODULE MCPacketParse ----------------------------
(* Two users and one other host; lengths around every limit of the parser.   *)
(* No stale byte is part of a port, so what was not received is never right. *)
EXTENDS PacketParse

MCPort == [h \in Ips |-> <<31, 64 + h>>]
=============================================================================
