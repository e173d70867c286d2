---------------------------- MODULE SignedMessage ----------------------------
(***************************************************************************)
(* Signed messages are read and judged, two in one stream: clear-signed    *)
(* ones, that Clearsign writes and reads, and literal data with its        *)
(* signature.  What goes to the callback is that of MessageValidation.     *)
(*                                                                         *)
(* A signature is a record of what is known of it.  Another program signs  *)
(* what the trailer's hash has seen; a signature may also be damaged, be   *)
(* of another type or be of an unknown signer.                             *)
(***************************************************************************)
EXTENDS Naturals, Sequences, SequencesExt

CONSTANTS BodySize, \* of a body, clear-signed or literal
          MaxText,  \* characters of the first message
          MaxLater  \* of the second

ASSUME SignedMessageAssumption ==
  /\ BodySize \in Nat /\ BodySize > 1
  /\ MaxText \in Nat /\ MaxLater \in 0 .. MaxText

VARIABLES
  own, text, phase, w_nl, w_cr, trailing, wire, signed,  \* Clearsign: the writer
  at, r_nl, body, r_hashed, bodies, state, r_errors,         \* and the reader
  kind,    \* of the message, "cleartext" or "literal"
  literal, \* data of a literal packet,
  pieces,  \* and what of it went to the callback
  later,   \* this is the second message
  sig,     \* its signature, once judged,
  judged,  \* and the list it was put on
  use, data, result

clear == <<own, text, phase, w_nl, w_cr, trailing, wire, signed,
           at, r_nl, body, r_hashed, bodies, state, r_errors>>
message == <<clear, kind, literal, pieces, later, sig, judged>>
messageVars == <<message, use, data, result>>

C == INSTANCE Clearsign WITH hashed <- r_hashed, errors <- r_errors
V == INSTANCE MessageValidation

Unjudged == "none"

MessageInit ==
  /\ C!Init /\ kind \in {"cleartext", "literal"} /\ literal = <<>> /\ pieces = <<>>
  /\ later = FALSE /\ sig = Unjudged /\ judged = Unjudged /\ V!Init

-----------------------------------------------------------------------------
(* A clear-signed message. *)

Short == Len(text') <= MaxLater /\ (own \/ Len(wire') <= MaxLater)

WriteCleartext ==
  /\ kind = "cleartext" /\ phase = "write" /\ C!Next
  /\ later /\ phase' = "write" => Short
  /\ UNCHANGED <<kind, literal, pieces, later, sig, judged, use, data, result>>

ReadCleartext ==
  /\ kind = "cleartext" /\ phase = "read" /\ C!Next
  /\ V!Bodies("cleartext", SubSeq(bodies', Len(bodies) + 1, Len(bodies')))
  /\ UNCHANGED <<kind, literal, pieces, later, sig, judged>>

-----------------------------------------------------------------------------
(* A literal packet: the reader's phase and state are those of a text. *)

ReadingLiteral == kind = "literal" /\ phase = "read" /\ state = "text"
Taken == Len(FlattenSeq(pieces))

\* ops_sign_buf: the data is hashed and written as it is; two different octets
\* will do.
WriteLiteral ==
  /\ kind = "literal" /\ phase = "write" /\ phase' = "read"
  /\ literal' \in SeqOf({"x", "nl"}, IF later THEN MaxLater ELSE MaxText)
  /\ UNCHANGED <<own, text, w_nl, w_cr, trailing, wire, signed, at, r_nl, body, r_hashed,
                 bodies, state, r_errors, kind, pieces, later, sig, judged, use, data, result>>

\* Mutant: a piece is one short of what the buffer holds.
Piece_Short == SubSeq(literal, Taken + 1, Min({Taken + BodySize - 1, Len(literal)}))
Piece == SubSeq(literal, Taken + 1, Min({Taken + BodySize, Len(literal)}))

\* parse_literal_data
ReadLiteral ==
  /\ ReadingLiteral
  /\ IF Taken < Len(literal)
       THEN pieces' = Append(pieces, Piece) /\ UNCHANGED state
            /\ V!Bodies("literal", <<Last(pieces')>>)
       ELSE state' = "trailer" /\ UNCHANGED <<pieces, use, data, result>>
  /\ UNCHANGED <<own, text, phase, w_nl, w_cr, trailing, wire, signed, at, r_nl, body,
                 r_hashed, bodies, r_errors, kind, literal, later, sig, judged>>

-----------------------------------------------------------------------------
(* Signatures. *)

MessageEnded == phase = "read" /\ state = "trailer"

Over == IF kind = "literal" THEN literal ELSE IF own THEN signed ELSE r_hashed

Best == [known |-> TRUE, genuine |-> TRUE, type |-> "document", over |-> Over]
Signatures ==
  {Best, [Best EXCEPT !.known = FALSE], [Best EXCEPT !.genuine = FALSE]}
    \cup IF kind = "literal" \/ own THEN {} ELSE {[Best EXCEPT !.type = "other"]}

Judge ==
  /\ MessageEnded /\ judged = Unjudged
  /\ sig' \in Signatures /\ V!Signature(sig')
  /\ judged' = CHOOSE list \in V!Lists : result'[list] > result[list]
  /\ UNCHANGED <<clear, kind, literal, pieces, later>>

\* All begins anew but for what MessageValidation has.
AnotherMessage ==
  /\ judged # Unjudged /\ ~later /\ later' = TRUE
  /\ kind' \in {"cleartext", "literal"} /\ literal' = <<>> /\ pieces' = <<>>
  /\ sig' = Unjudged /\ judged' = Unjudged
  /\ own' \in BOOLEAN /\ text' = <<>> /\ phase' = "write"
  /\ w_nl' = TRUE /\ w_cr' = FALSE /\ trailing' = <<>> /\ wire' = <<>> /\ signed' = <<>>
  /\ at' = 1 /\ r_nl' = TRUE /\ body' = <<>> /\ r_hashed' = <<>> /\ bodies' = <<>>
  /\ state' = "text" /\ r_errors' = FALSE
  /\ UNCHANGED <<use, data, result>>

MessageNext ==
  \/ WriteCleartext \/ ReadCleartext \/ WriteLiteral \/ ReadLiteral
  \/ Judge \/ AnotherMessage

MessageSpec == MessageInit /\ [][MessageNext]_messageVars

-----------------------------------------------------------------------------

\* Types, and that bodies fit their buffer.
MessageTypeOK ==
  /\ C!TypeOK
  /\ kind \in {"cleartext", "literal"} /\ later \in BOOLEAN
  /\ literal \in Seq({"x", "nl"}) /\ \A i \in DOMAIN pieces : Len(pieces[i]) \in 1 .. BodySize
  /\ use \in {"none", "cleartext", "literal"} /\ Len(data) <= BodySize
  /\ result \in [V!Lists -> 0 .. 2]

\* The text comes back as it was and ends where it ended (Clearsign).
TextReadBack == C!TextReadBack

Given == IF kind = "literal" THEN FlattenSeq(pieces) ELSE FlattenSeq(bodies)
Written == IF kind = "literal" THEN literal ELSE text
Plain == kind = "literal" \/ (own /\ C!NoLoneCR)
\* The text is one line, with a line end neither in it nor behind it.
OneLine ==
  kind = "literal" \/ ({"cr", "nl"} \cap Range(text) = {} /\ C!EndBlanks(text) = {})

Good(s) == s.known /\ s.genuine /\ s.type = "document"

\* A message this library wrote is judged valid only if its signature is good and
\* what the application has got of it is all that was written; and it is judged
\* valid if it is one piece, whatever message came before it (validate_data_cb).
\* More pieces are judged invalid, as is an empty message behind another.  And
\* ops_validate_mem is true only if the last signature is valid too.
JudgedRight ==
  judged # Unjudged =>
    /\ Plain /\ judged = "valid" => Good(sig) /\ Given = Written
    /\ Plain /\ Good(sig) /\ OneLine /\ Len(Written) \in 1 .. BodySize => judged = "valid"
    /\ V!Status => judged = "valid"

\* What is signed, what is handed over, what is hashed again and what is judged
\* are the same text (Clearsign, and the above).
HashesRight == C!HashesRight /\ JudgedRight
=============================================================================
