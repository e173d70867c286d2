---------------------------- MODULE MCPartialWriter ----------------------------
(* PartialWriter with the small sizes of its configurations. *)
EXTENDS PartialWriter
=============================================================================
