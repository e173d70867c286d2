---------------------------- MODULE MCWriterStack ----------------------------
(* WriterStack with few pieces and the writers on each other as ops_encrypt_file, *)
(* ops_encrypt_stream, the clear-signing functions and the key functions put them. *)
EXTENDS WriterStack

Order == [base |-> 0, linebreak |-> 0, base64 |-> 1, stream_encrypt |-> 2,
          compress |-> 3, sign |-> 4, partial |-> 4, dash |-> 5, encrypt |-> 5]

MCUsual(below, above) ==
  \/ above = "encrypt"
  \/ above = "dash" /\ Order[below] = 0
  \/ above = "base64" /\ below = "dash"
  \/ above # "dash" /\ Order[below] < Order[above]
=============================================================================
