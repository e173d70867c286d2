-------------------------- MODULE MessageValidation --------------------------
(***************************************************************************)
(* The signatures of messages are judged (validate.c): validate_data_cb    *)
(* keeps what it gets of a message, and when its signature comes looks for *)
(* the signer and checks what it kept; the lists in result are what        *)
(* ops_validate_file and ops_validate_mem go by.  Nothing is cleared from  *)
(* one message of a stream to the next.                                    *)
(***************************************************************************)
EXTENDS Naturals, Sequences

VARIABLES use,    \* of which kind data is, "none" at first
          data,   \* the piece of text that came last
          result  \* how many signatures are on each of its lists

Lists == {"valid", "invalid", "unknown"}

Init == use = "none" /\ data = <<>> /\ result = [list \in Lists |-> 0]

\* Mutant: what comes is put behind what is there.
Kept_Appended(pieces) == data \o pieces[Len(pieces)]
\* arg->data is one body, the pieces before it are gone.
Kept(pieces) == pieces[Len(pieces)]

\* OPS_PTAG_CT_LITERAL_DATA_BODY and OPS_PTAG_CT_SIGNED_CLEARTEXT_BODY, one for
\* each piece.
Bodies(kind, pieces) ==
  /\ IF pieces = <<>> THEN UNCHANGED <<use, data>>
                      ELSE use' = kind /\ data' = Kept(pieces)
  /\ UNCHANGED result

\* A signature on the key that has made it, over something, of a document or of
\* another type; check_binary_signature hashes nothing if there is no data.
Checked(s) == s.type = "document" /\ s.genuine /\ s.over = data

\* Mutant: a signature whose signer is not on the keyring is checked with another.
Judged_AnyKey(s) == IF Checked(s) THEN "valid" ELSE "invalid"
Judged(s) == IF ~s.known THEN "unknown" ELSE IF Checked(s) THEN "valid" ELSE "invalid"

\* OPS_PTAG_CT_SIGNATURE and OPS_PTAG_CT_SIGNATURE_FOOTER
Signature(s) ==
  /\ result' = [result EXCEPT ![Judged(s)] = @ + 1]
  /\ UNCHANGED <<use, data>>

\* Mutant: one valid signature is enough.
Status_One == result["valid"] > 0
\* validate_result_status
Status == result["valid"] > 0 /\ result["invalid"] = 0 /\ result["unknown"] = 0
=============================================================================
