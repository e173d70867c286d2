----------------------- MODULE MCSignatureSubpackets -----------------------
(* Two subpacket sets of up to five units; a length may claim up to five. *)
EXTENDS SignatureSubpackets
=============================================================================
