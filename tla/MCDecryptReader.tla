---------------------------- MODULE MCDecryptReader ----------------------------
(* DecryptReader with the small sizes of its configurations. *)
EXTENDS DecryptReader
=============================================================================
