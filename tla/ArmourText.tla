------------------------------ MODULE ArmourText ------------------------------
(***************************************************************************)
(* The characters of armoured text, for the writer and for the reader.  An *)
(* octet is four crumbs of two bits and a base64 digit three, so that      *)
(* regrouping and padding are as in the code; what a crumb is worth does   *)
(* not matter.  The octets of a block are all different, so that one that  *)
(* is lost or moved shows.                                                 *)
(***************************************************************************)
EXTENDS Naturals, Sequences, SequencesExt

\* A character is a tuple: of three crumbs, a digit; of two, the name in a
\* header or trailer; of one, anything else.
DASH == <<"-">>
EQ == <<"=">>
CR == <<"cr">>
NL == <<"nl">>
VERSION == <<"Version: ">> \* an armour header but for its end
COMMA == <<",">> \* any other character

IsDigit(c) == Len(c) = 3
IsName(c) == Len(c) = 2

\* What of a text is such, in its order (SelectSeq, as a FlattenSeq).
Only(s, Such(_)) ==
  FlattenSeq([i \in DOMAIN s |-> IF Such(s[i]) THEN <<s[i]>> ELSE <<>>])

Newline == <<CR, NL>>
Dashes == <<DASH, DASH, DASH, DASH, DASH>>
Banner(word, t) == Dashes \o <<<<word, t>>>> \o Dashes \o Newline

\* Two bits of padding, and an octet with its four.
ZERO == <<>>
Octet(block, n) == [k \in 1 .. 4 |-> <<block, n, k>>]

\* A digit that nothing went into, and a character that is of no block.
BLANK == <<ZERO, ZERO, ZERO>>
Plain(c) == ~IsName(c) /\ (IsDigit(c) => c = BLANK)

\* The first parts of crumbs are tuples too, to be compared with one another.
Block(b) == [i \in 1 .. b |-> ZERO]

\* The three octets of a checksum.  ops_crc24 is taken to tell any two
\* sequences of octets apart, so that the checksum is the sequence.
ChecksumOctets(octets) == [n \in 1 .. 3 |-> Octet(octets, n)]
=============================================================================
