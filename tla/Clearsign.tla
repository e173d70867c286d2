------------------------------ MODULE Clearsign ------------------------------
(***************************************************************************)
(* A clear-signed message: ClearsignWriter makes it, character after       *)
(* character, and ClearsignReader reads what came out.  The reader also    *)
(* gets texts that some other program made.                                *)
(*                                                                         *)
(* The armour headers before the text and the signature behind it are not  *)
(* modelled; a message whose writing fails is not read.                    *)
(***************************************************************************)
EXTENDS Naturals, Sequences, SequencesExt

CONSTANTS BodySize, \* of the reader
          MaxText   \* characters of a text

VARIABLES own,    \* the text is written by ClearsignWriter
          text,   \* what was to be written
          phase,  \* "write", then "read"
          w_nl, w_cr, trailing, wire, signed,
          at, r_nl, body, hashed, bodies, state, errors

W == INSTANCE ClearsignWriter WITH seen_nl <- w_nl, seen_cr <- w_cr
R == INSTANCE ClearsignReader WITH input <- wire, seen_nl <- r_nl

writerVars == <<w_nl, w_cr, trailing, wire, signed>>
readerVars == <<at, r_nl, body, hashed, bodies, state, errors>>
vars == <<own, text, phase, writerVars, readerVars>>

Init ==
  /\ own \in BOOLEAN /\ text = <<>> /\ phase = "write"
  /\ W!Init /\ R!Init

WriteChar(c) ==
  /\ phase = "write" /\ own /\ Len(text) < MaxText
  /\ text' = Append(text, c)
  /\ W!Write(c)
  /\ UNCHANGED <<own, phase, readerVars>>

EndText ==
  /\ phase = "write" /\ own
  /\ phase' = "read"
  /\ W!SwitchToSignature
  /\ UNCHANGED <<own, text, readerVars>>

\* What another program wrote is any sequence of characters, and ends anyhow.
ForeignChar(c) ==
  /\ phase = "write" /\ ~own /\ Len(wire) < MaxText
  /\ wire' = Append(wire, c)
  /\ UNCHANGED <<own, text, phase, w_nl, w_cr, trailing, signed, readerVars>>

ForeignEnd ==
  /\ phase = "write" /\ ~own
  /\ \E end \in {W!Dashes, W!Gap \o W!Dashes} : wire' = wire \o end
  /\ phase' = "read"
  /\ UNCHANGED <<own, text, w_nl, w_cr, trailing, signed, readerVars>>

Read ==
  /\ phase = "read"
  /\ R!Next
  /\ UNCHANGED <<own, text, phase, writerVars>>

Next ==
  \/ \E c \in W!Char : WriteChar(c) \/ ForeignChar(c)
  \/ EndText \/ ForeignEnd \/ Read

Spec == Init /\ [][Next]_vars

-----------------------------------------------------------------------------

Done == phase = "read" /\ state = "trailer"

\* The text has a CR only in front of a LF.
NoLoneCR ==
  \A i \in 1 .. Len(text) :
    text[i] = "cr" => i < Len(text) /\ text[i + 1] = "nl"

\* Positions of blanks that nothing follows on their line.
EndBlanks(s) ==
  {i \in 1 .. Len(s) : \E j \in i .. Len(s) :
     /\ \A k \in i .. j : s[k] = "blank"
     /\ j = Len(s) \/ s[j + 1] \in {"cr", "nl"}}

\* What is left of a text without its CRs and without some places more.
Without(s, places) ==
  FlattenSeq([i \in 1 .. Len(s) |->
    IF i \in places \/ s[i] = "cr" THEN <<>> ELSE <<s[i]>>])
NoCR(s) == Without(s, {})
CRLF(s) == FlattenSeq([i \in 1 .. Len(s) |->
                         IF s[i] = "nl" THEN <<"cr", "nl">> ELSE <<s[i]>>])

\* The text with CR LF at the end of every line and no blank in front of it.
Canonical(s) == CRLF(Without(s, EndBlanks(s)))

\* The types, and that the reader's buffer never holds BodySize characters
\* when the next one comes: process_dash_escaped writes past body->data
\* otherwise.
TypeOK ==
  /\ own \in BOOLEAN /\ phase \in {"write", "read"}
  /\ text \in Seq(W!Char) /\ wire \in Seq(W!Char) /\ signed \in Seq(W!Char)
  /\ trailing \in Seq({"blank"})
  /\ {w_nl, w_cr, r_nl, errors} \subseteq BOOLEAN
  /\ at \in 1 .. Len(wire) + 1
  /\ state \in {"text", "trailer", "failed", "abort"}
  /\ body \in Seq(W!Char) /\ Len(body) < BodySize
  /\ \A i \in 1 .. Len(bodies) : Len(bodies[i]) \in 1 .. BodySize

\* What dash_escaped_writer wrote, process_dash_escaped gives back, CRs left
\* out: the escaping of one and the unescaping of the other, the line end the
\* signature's header brings and the last line that has none fit together.
TextRecovered ==
  own /\ NoLoneCR /\ Done => FlattenSeq(bodies) = NoCR(text)

\* No line of the text, whatever dashes it has, is taken for the end: the
\* reader stops at the header of the signature and nothing is reported.
OnlyBlockEndsText ==
  own /\ NoLoneCR /\ phase = "read" =>
    /\ state # "abort" /\ ~errors
    /\ state = "trailer" => at = Len(wire) + 1

\* The text comes back as it was and ends where it ended.
TextReadBack == TextRecovered /\ OnlyBlockEndsText

\* What dash_escaped_writer has signed is at any point the text so far in
\* canonical form: blanks are signed only once something follows them.
SignedIsCanonical ==
  own /\ NoLoneCR => signed = Canonical(text)

\* The trailer's hash has seen every body the application got, with CR LF
\* between the lines, whoever wrote the text; lines that filled the buffer,
\* which it has not seen, excepted.
HashIsOfBodies ==
  Done /\ (\A i \in 1 .. Len(bodies) : Len(bodies[i]) < BodySize) =>
    hashed = CRLF(FlattenSeq(bodies))

\* Signer and verifier hash the same, when no line fills the buffer and none
\* ends in a blank: what ops_sign_buf_as_cleartext made is what the trailer of
\* process_dash_escaped stands for.
HashesAgree ==
  /\ own /\ NoLoneCR /\ EndBlanks(text) = {} /\ Done
  /\ \A i \in 1 .. Len(bodies) : Len(bodies[i]) < BodySize
  => hashed = signed

\* What is signed, what is handed over and what is verified are the same text.
HashesRight == SignedIsCanonical /\ HashIsOfBodies /\ HashesAgree
=============================================================================
