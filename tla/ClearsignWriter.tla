--------------------------- MODULE ClearsignWriter ---------------------------
(***************************************************************************)
(* dash_escaped_writer (writer_armour.c): text that is to be signed goes   *)
(* out readable, dash-escaped and with CR LF at the end of its lines, and  *)
(* into the hash of the signature in canonical form.  The writer keeps its *)
(* state between calls, so one action stands for one character of src,     *)
(* however the text was cut.                                               *)
(***************************************************************************)
EXTENDS Sequences

VARIABLES seen_nl,  \* the last character was LF; TRUE at the start
          seen_cr,  \* it was CR
          trailing, \* blanks that may turn out to be at the end of a line
          wire,     \* what went to the writer below
          signed    \* what went into the hash of sig

vars == <<seen_nl, seen_cr, trailing, wire, signed>>

\* "blank" is the space, which the dash-escape uses; a tab, held back in the
\* same way, is left out.  "x" is every other character.
Char == {"-", "blank", "cr", "nl", "x"}

\* Behind the armour header of the signed message.
Init ==
  /\ seen_nl = TRUE /\ seen_cr = FALSE
  /\ trailing = <<>> /\ wire = <<>> /\ signed = <<>>

\* Mutant: only where a line has ended is the next one escaped.
Escape_NotFirst(c) ==
  IF seen_nl /\ wire # <<>> /\ c = "-" THEN <<"-", "blank">> ELSE <<>>
Escape(c) == IF seen_nl /\ c = "-" THEN <<"-", "blank">> ELSE <<>>

\* Mutant: a LF that has its CR gets another.
LineEnd_Always(c) == IF c = "nl" THEN <<"cr">> ELSE <<>>
LineEnd(c) == IF c = "nl" /\ ~seen_cr THEN <<"cr">> ELSE <<>>

\* Mutant: blanks at the end of a line that ends with CR LF are signed.
Held_ToLF(c) == IF c = "nl" THEN <<>> ELSE trailing
\* "trailing whitespace isn't included in the signature"
Held(c) == IF c \in {"nl", "cr"} THEN <<>> ELSE trailing

Write(c) ==
  /\ wire' = wire \o Escape(c) \o LineEnd(c) \o <<c>>
  /\ signed' = signed \o LineEnd(c)
                 \o (IF c = "blank" THEN <<>> ELSE Held(c) \o <<c>>)
  /\ trailing' = IF c = "blank" THEN Append(trailing, c) ELSE <<>>
  /\ seen_nl' = (c = "nl") /\ seen_cr' = (c = "cr")

Dashes == <<"-", "-", "-", "-", "-">>
Gap == <<"cr", "nl">>

\* ops_writer_switch_to_armoured_signature: the writer is popped, with the
\* blanks it still held, and the header of the signature follows.
SwitchToSignature ==
  /\ wire' = wire \o Gap \o Dashes
  /\ trailing' = <<>>
  /\ UNCHANGED <<seen_nl, seen_cr, signed>>
=============================================================================
