------------------------------ MODULE MCClearsign ------------------------------
(* SignedMessage with the small sizes of its configuration. *)
EXTENDS SignedMessage
=============================================================================
