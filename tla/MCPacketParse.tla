--------------------------- MODULE MCPacketParse ---------------------------
(* Packets up to four units long in a stream of six, one packet inside another. *)
EXTENDS PacketParse
=============================================================================
