------------------------------- MODULE MCArmour -------------------------------
(* Armour with short lines: as in the code, LineLength is 3 more than a        *)
(* multiple of 4 and BreakPos 1 more than LineLength.                          *)
EXTENDS Armour

MCTexts == {<<COMMA, NL>>, Dashes \o Newline, <<DASH, COMMA>>,
            Dashes \o <<COMMA, DASH, COMMA, NL>>}
MCChanges == {EQ, BLANK}
=============================================================================
