------------------------------ MODULE MCCompress ------------------------------
(* Compress with buffers of a few units. *)
EXTENDS Compress
=============================================================================
