------------------------------- MODULE Armour -------------------------------
(***************************************************************************)
(* Blocks written with ArmourWriter, with text around them, are stored,    *)
(* perhaps damaged, and read with ArmourReader, in pieces of any length.   *)
(***************************************************************************)
EXTENDS Naturals, ArmourText, FiniteSetsExt

CONSTANTS LineLength, BreakPos, BufSize,
          MaxBlocks, MaxOctets,
          FewOctets, \* files with more have one block, no text, no damage
          MaxRead,
          Texts,     \* what may stand between blocks
          Losses,    \* how many characters damage takes out
          Changes    \* what damage puts in the place of one

ASSUME ArmourAssumption ==
  /\ {LineLength, BreakPos, BufSize} \subseteq Nat \ {0} /\ LineLength < BreakPos
  /\ {MaxBlocks, MaxOctets, FewOctets, MaxRead} \subseteq Nat
  /\ Len(Banner("END", "MESSAGE")) < BreakPos + 2 \* a trailer fits its line
  \* No octets come from elsewhere: damage does not make the checksum right.
  /\ \A t \in Texts : t \in Seq(Range(t)) /\ \A i \in DOMAIN t : Plain(t[i])
  /\ \A c \in Changes : Plain(c)
  /\ Losses \subseteq Nat \ {0}

VARIABLES wire, type, pending, digits, sum, column,           \* the writer
          state, lastseen, seen_nl, buffered, buffer, eof64, checksum,
          unarmoured, length, dest, ret, errors, blocks, text, \* the reader
          stage,   \* "between", "block", "read"
          written, \* the blocks written: type and octets
          texts,   \* the text before each block, and behind the last; one is there at most
          altered, \* the file has been damaged
          over     \* a read asked for more than its block had left

writing == <<type, pending, digits, sum, column>>
reading == <<state, lastseen, seen_nl, buffered, buffer, eof64, checksum, unarmoured,
       length, dest, ret, errors, blocks, text>>
armourVars == <<wire, writing, reading, stage, written, texts, altered, over>>

Writer == INSTANCE ArmourWriter WITH checksum <- sum
Reader == INSTANCE ArmourReader

ArmourInit ==
  /\ Writer!Init /\ Reader!Init
  /\ stage = "between" /\ written = <<>> /\ altered = FALSE /\ over = FALSE
  /\ texts = [n \in 1 .. MaxBlocks + 1 |-> <<>>]

Octets(block) == FoldLeft(LAMBDA n, b : n + Len(b.octets), 0, block)
Few == Octets(written) <= FewOctets
NoText == \A n \in DOMAIN texts : texts[n] = <<>>

WriteText(t) ==
  /\ stage = "between" /\ Few /\ NoText
  /\ wire' = wire \o t /\ texts' = [texts EXCEPT ![Len(written) + 1] = t]
  /\ UNCHANGED <<writing, reading, stage, written, altered, over>>

Push(t) ==
  /\ stage = "between" /\ Few /\ Len(written) < MaxBlocks
  /\ Writer!Push(t)
  /\ stage' = "block"
  /\ written' = Append(written, [type |-> t, octets |-> <<>>])
  /\ UNCHANGED <<reading, texts, altered, over>>

WriteOctet ==
  LET n == Len(written)
      octet == Octet(Block(n), Len(written[n].octets) + 1)
  IN  /\ stage = "block"
      /\ Octets(written) < IF n > 1 \/ ~NoText THEN FewOctets ELSE MaxOctets
      /\ Writer!WriteOctet(octet)
      /\ written' = [written EXCEPT ![n].octets = Append(@, octet)]
      /\ UNCHANGED <<reading, stage, texts, altered, over>>

Finalise ==
  /\ stage = "block"
  /\ Writer!Finalise
  /\ stage' = "between"
  /\ UNCHANGED <<reading, written, texts, altered, over>>

\* One stretch of the file is lost, or one character is another.
Damage ==
  /\ stage = "between" /\ Few /\ NoText
  /\ \E i \in 1 .. Len(wire) :
       \/ \E n \in Losses :
            wire' = SubSeq(wire, 1, i - 1) \o SubSeq(wire, i + n, Len(wire))
       \/ \E c \in Changes : wire[i] # c /\ wire' = [wire EXCEPT ![i] = c]
  /\ altered' = TRUE /\ stage' = "read"
  /\ UNCHANGED <<writing, reading, written, texts, over>>

StartReading ==
  /\ stage = "between" /\ stage' = "read"
  /\ UNCHANGED <<wire, writing, reading, written, texts, altered, over>>

\* Where the blocks end, counting octets.
Ends == {Octets(SubSeq(written, 1, k)) : k \in DOMAIN written}

\* A caller may call again whatever the last call returned, as
\* ops_parse_one_packet does to consume a packet it could not read.
Call(n) ==
  /\ stage = "read"
  /\ Reader!Call(n)
  /\ over' = (over \/ \E e \in Ends : Octets(blocks) < e /\ e < Octets(blocks) + n)
  /\ UNCHANGED <<writing, stage, written, texts, altered>>

Read ==
  /\ stage = "read"
  /\ Reader!Step
  /\ UNCHANGED <<writing, stage, written, texts, altered, over>>

ArmourNext ==
  \/ \E t \in Texts : WriteText(t)
  \/ \E t \in Writer!Types : Push(t)
  \/ WriteOctet \/ Finalise \/ Damage \/ StartReading
  \/ \E n \in 1 .. MaxRead : Call(n)
  \/ Read

ArmourSpec == ArmourInit /\ [][ArmourNext]_armourVars

-----------------------------------------------------------------------------
\* Every variable has its type: text is kept back only outside of blocks, a call
\* has not given more than it was asked for, and lines keep to their length.
ArmourTypeOK ==
  /\ state \in {"OUTSIDE_BLOCK", "BASE64", "AT_TRAILER_NAME"}
  /\ ret \in {"read", "zero", "minus", "abort"}
  /\ stage \in {"between", "block", "read"}
  /\ {seen_nl, eof64, errors, altered, over} \subseteq BOOLEAN
  /\ buffered \in 0 .. 3 /\ length + Len(dest) \in 0 .. MaxRead
  /\ Len(pending) \in 0 .. 2 /\ column \in 0 .. BreakPos
  /\ state # "OUTSIDE_BLOCK" => unarmoured = <<>> /\ blocks # <<>>

\* writer_armour.c:244: finalisers write the padding without counting it, and
\* linebreak_writer breaks a line between the two "=" when a digit and they
\* would fill it up to BreakPos.  That happens at one length in 3 * LineLength.
SplitPadding(b) ==
  LET full == 4 * (Len(b.octets) \div 3) + 1
  IN  /\ b.type # "MESSAGE" /\ Len(b.octets) % 3 = 1
      /\ full > LineLength /\ full % LineLength = LineLength - 2

\* reader_armoured.c:824: a text that has just five dashes on its last line, or no end
\* of line, takes the header behind it away.
Hides(t) ==
  t # <<>> /\ (Last(t) # NL \/ Reader!NoCRs(t) = Dashes \o <<NL>>)
Hidden == \E k \in DOMAIN written : Hides(texts[k])

\* The file is as written, the reads fit the blocks, and none of the two.
AsWritten ==
  /\ stage = "read" /\ ~altered /\ ~over /\ ~Hidden
  /\ \A k \in DOMAIN written : ~SplitPadding(written[k])

Whole(b, origin) ==
  /\ b.header = <<"BEGIN", origin.type>> /\ b.octets = origin.octets
  /\ b.trailer = <<"END", origin.type>>

\* Blocks are read back as they were written, header, octets and trailer, of
\* whatever length they are and however the reads divide them, and reading
\* ends with the file and not before it (writer_armour.c:192 to 514 against
\* reader_armoured.c:779).
BlocksReadBack ==
  AsWritten =>
    /\ Len(blocks) <= Len(written)
    /\ \A k \in DOMAIN blocks :
         \/ Whole(blocks[k], written[k])
         \/ /\ k = Len(blocks) /\ state # "OUTSIDE_BLOCK"
            /\ blocks[k].header = <<"BEGIN", written[k].type>>
            /\ IsPrefix(blocks[k].octets, written[k].octets)
    /\ ret # "read" => wire = <<>> /\ Len(blocks) = Len(written)
    /\ ~errors

\* Whatever stretch of the file is lost or character changed: a block that has
\* come to its trailer is one that was written, whole, or an error is on the
\* stack (decode64's checksum, set_lastseen_headerline, reader_armoured.c:758).
DamageNoticed ==
  errors \/ \A k \in DOMAIN blocks :
    blocks[k].trailer # <<"none">> =>
      \E n \in DOMAIN written : Whole(blocks[k], written[n])

\* What the application gets of a block is of that block alone, also when it
\* asks for more than the block has left: a packet is never completed from the
\* next block (reader_armoured.c:903).
ReadsStayInBlock ==
  ~altered =>
    \A k \in DOMAIN blocks : \A i, j \in DOMAIN blocks[k].octets :
      blocks[k].octets[i][1][1] = blocks[k].octets[j][1][1]

\* What is between the blocks reaches the application, all of it and in order,
\* what looked like a header at first too (reader_armoured.c:813); when the
\* file ends what is not yet flushed is its last line.
TextHandedOn ==
  AsWritten =>
    /\ IsPrefix(text \o unarmoured, FlattenSeq(texts))
    /\ wire = <<>> /\ length = 0 => text \o unarmoured = FlattenSeq(texts)

\* What is in buffer, in the order in which it will be given.
Held == [k \in 1 .. buffered |-> buffer[buffered - k]]

\* No octet is lost, doubled or out of its place on its way through either side.
\* The digits that went out and the crumbs that wait for a third make up the
\* octets under the writer's checksum, all that were written; the reader's is
\* taken over what the application got of the block, what the call has and what
\* is held, in this order.  (A call that wants more than the block has loses what
\* it has, and only the assertion is left; writer_armour.c:192, 260 and
\* reader_armoured.c:749, 912.)
OctetsAccounted ==
  /\ stage = "block" =>
       /\ sum = Last(written).octets
       /\ 3 * digits + Len(pending) = 4 * Len(sum)
  /\ \/ errors \/ ret = "abort" \/ blocks = <<>>
     \/ checksum = Last(blocks).octets \o IF state = "BASE64" THEN dest \o Held ELSE <<>>
     \/ state = "BASE64" /\ eof64 /\ buffered = 0 /\ length = 0

\* The file is read back as it was written or damage is noticed, what is
\* inside of a block and what is outside never mix, and octets keep their order.
FileReadBack ==
  BlocksReadBack /\ DamageNoticed /\ ReadsStayInBlock /\ TextHandedOn /\ OctetsAccounted
=============================================================================
