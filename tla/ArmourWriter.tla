----------------------------- MODULE ArmourWriter -----------------------------
(***************************************************************************)
(* base64_writer, its finalisers and the linebreak_writer below it         *)
(* (writer_armour.c): the octets of a message or of a key go out as lines  *)
(* of base64 between a header and a trailer.                               *)
(***************************************************************************)
EXTENDS Naturals, ArmourText

CONSTANTS LineLength, \* LINE_LENGTH, 75
          BreakPos    \* BREAKPOS, 76

VARIABLES wire,     \* the file or memory written to
          type,     \* which block is open, or was
          pending,  \* arg->t: crumbs of the next digit; arg->pos is their number
          digits,   \* arg->chars_written
          checksum, \* the octets that went into arg->checksum
          column    \* pos of the linebreak_writer below

vars == <<wire, type, pending, digits, checksum, column>>

\* "MESSAGE" is pushed by ops_writer_push_armoured_message, the keys by
\* ops_writer_push_armoured.
Types == {"MESSAGE", "PUBLIC KEY BLOCK"}

Init ==
  /\ wire = <<>> /\ type = "MESSAGE" /\ pending = <<>> /\ digits = 0
  /\ checksum = <<>> /\ column = 0

\* The header goes out before the writers are pushed; that of a message names
\* no version.
Push(t) ==
  /\ type' = t
  /\ wire' = wire \o Banner("BEGIN", t)
                  \o (IF t = "MESSAGE" THEN <<>> ELSE <<VERSION>> \o Newline)
                  \o Newline
  /\ pending' = <<>> /\ digits' = 0 /\ checksum' = <<>> /\ column' = 0

\* linebreak_writer, one character.
Break(b, c) ==
  LET at == IF c \in {CR, NL} THEN 0 ELSE b.column
  IN  IF at = BreakPos
        THEN [column |-> 1, out |-> b.out \o Newline \o <<c>>]
        ELSE [column |-> at + 1, out |-> Append(b.out, c)]

\* A message has no linebreak_writer under its base64_writer.
Stacked(cs) ==
  LET b == FoldLeft(Break, [column |-> column, out |-> <<>>], cs)
  IN  /\ wire' = wire \o (IF type = "MESSAGE" THEN cs ELSE b.out)
      /\ column' = IF type = "MESSAGE" THEN column ELSE b.column

\* Mutant: an octet completes one digit, never two.
Digits_One(crumbs) == <<SubSeq(crumbs, 1, 3)>>
\* The digits that are complete.
Digits(crumbs) ==
  [i \in 1 .. Len(crumbs) \div 3 |-> SubSeq(crumbs, 3 * i - 2, 3 * i)]

\* check_newline
Lines(ds) ==
  FlattenSeq([i \in DOMAIN ds |->
    <<ds[i]>> \o (IF (digits + i) % LineLength = 0 THEN Newline ELSE <<>>)])

\* base64_writer, one octet of src.
WriteOctet(octet) ==
  LET crumbs == pending \o octet
      ds     == Digits(crumbs)
  IN  /\ Stacked(Lines(ds))
      /\ digits' = digits + Len(ds)
      /\ pending' = SubSeq(crumbs, 3 * Len(ds) + 1, Len(crumbs))
      /\ checksum' = Append(checksum, octet)
      /\ UNCHANGED type

\* Mutant: one "=" whatever is missing.
Padding_One ==
  IF pending = <<>> THEN <<>>
  ELSE <<pending \o [k \in 1 .. 3 - Len(pending) |-> ZERO], EQ>>
\* The digit that was begun, and an "=" for each that is missing.
Padding ==
  IF pending = <<>> THEN <<>>
  ELSE <<pending \o [k \in 1 .. 3 - Len(pending) |-> ZERO]>>
         \o [k \in 1 .. 3 - Len(pending) |-> EQ]

\* "push the checksum through our own writer": no newline in it.
Finaliser == Digits(FlattenSeq(ChecksumOctets(checksum)))

Finalise ==
  /\ Stacked(Padding \o Newline \o <<EQ>> \o Finaliser
                     \o Newline \o Banner("END", type))
  /\ pending' = <<>>
  /\ UNCHANGED <<type, digits, checksum>>
=============================================================================
