--------------------------- MODULE ClearsignReader ---------------------------
(***************************************************************************)
(* process_dash_escaped (reader_armoured.c): the text of a clear-signed    *)
(* message is read up to the header of its signature, handed to the        *)
(* application line by line, each line with the LF before it, and hashed.  *)
(* read_char leaves out every CR, so the hash gets its own.                *)
(***************************************************************************)
EXTENDS Naturals, Sequences

CONSTANT BodySize \* sizeof body->data, 8192; more than 1

VARIABLES input,   \* the stream behind the armour headers
          at,      \* the next character of it
          seen_nl, \* the last character read was LF, as it is after the headers
          body,    \* body->data
          hashed,  \* what went into the hash
          bodies,  \* what the callback got, one OPS_PTAG_CT_SIGNED_CLEARTEXT_BODY each
          state,   \* "text", "trailer", "failed", "abort"
          errors   \* bad dash-escaping has been reported

vars == <<at, seen_nl, body, hashed, bodies, state, errors>>

Init ==
  /\ at = 1 /\ seen_nl = TRUE /\ body = <<>> /\ hashed = <<>> /\ bodies = <<>>
  /\ state = "text" /\ errors = FALSE

\* Where the next character is that read_char does not skip.
NotCR == {i \in at .. Len(input) : input[i] # "cr"}
Here == CHOOSE i \in NotCR : \A j \in NotCR : i <= j

\* Mutant: no CR for the line before.
Hashed_AsRead(line) == line
\* The LF that ended the line before gets its CR.
Hashed(line) == IF line[1] = "nl" THEN <<"cr">> \o line ELSE line

\* Mutant: the buffer is handed on one character too late.
Full_Late(line) == Len(line) > BodySize
Full(line) == Len(line) = BodySize

\* A line is complete when the LF after it comes; that LF is the first
\* character of the next.  A full buffer goes to the callback only.
Take(c) ==
  LET ended == c = "nl" /\ body # <<>>
      line  == IF ended THEN <<c>> ELSE Append(body, c)
  IN  /\ hashed' = IF ended THEN hashed \o Hashed(body) ELSE hashed
      /\ bodies' = bodies \o (IF ended THEN <<body>> ELSE <<>>)
                          \o (IF Full(line) THEN <<line>> ELSE <<>>)
      /\ body' = IF Full(line) THEN <<>> ELSE line
      /\ seen_nl' = (c = "nl")
      /\ UNCHANGED <<state, errors>>

\* Mutant: a dash counts wherever it is.
Escaped_Anywhere == input[Here] = "-"
Escaped == seen_nl /\ input[Here] = "-"

\* One turn of the loop: a plain character, or the one after "- ".  What
\* follows the dash is read as it is, a CR too.
ReadText ==
  /\ state = "text" /\ NotCR # {}
  /\ \/ /\ ~Escaped
        /\ Take(input[Here]) /\ at' = Here + 1
     \/ /\ Escaped /\ Here + 2 <= Len(input) /\ input[Here + 1] = "blank"
        /\ Take(input[Here + 2]) /\ at' = Here + 3

\* Any other dash at the start of a line: "this had better be a trailer".  Four
\* more characters are read, whatever they are.
ReadTrailer ==
  /\ state = "text" /\ NotCR # {} /\ Escaped
  /\ Here + 4 <= Len(input) /\ input[Here + 1] # "blank"
  /\ errors' = (\E k \in 1 .. 4 : input[Here + k] # "-")
  /\ at' = Here + 5 /\ seen_nl' = (input[Here + 4] = "nl")
  /\ state' = IF body = <<"nl">> THEN "trailer" ELSE "abort"
  /\ UNCHANGED <<body, hashed, bodies>>

\* read_char fails, at the latest where the stream ends.
ReadFails ==
  /\ state = "text" /\ state' = "failed"
  /\ UNCHANGED <<at, seen_nl, body, hashed, bodies, errors>>

Next == ReadText \/ ReadTrailer \/ ReadFails
=============================================================================
