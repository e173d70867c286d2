----------------------------- MODULE ArmourReader -----------------------------
(***************************************************************************)
(* armoured_data_reader (reader_armoured.c): looks for the header of a     *)
(* block, hands the text before it to the application, decodes the base64  *)
(* of the block on demand, checks its checksum and reads its trailer.  A   *)
(* call runs through several turns of the loop over arg->state; a turn is  *)
(* an action, and in a block a group of four digits or an octet.           *)
(***************************************************************************)
EXTENDS Naturals, ArmourText, FiniteSetsExt

CONSTANT BufSize \* sizeof buf - 1, 1023

VARIABLES wire,       \* what is left of the file or memory read from
          state,      \* arg->state
          lastseen,   \* the name in the last header or trailer
          seen_nl,    \* the last character read was LF
          buffered,   \* how many octets of buffer are still to be read
          buffer,     \* decoded octets, the last one in buffer[0]
          eof64,
          checksum,   \* the octets that went into arg->checksum
          unarmoured, \* text that is not flushed
          length,     \* octets the call has still to read; 0 when there is no call
          dest,       \* octets the call has put into dest
          ret,        \* what the last call returned: "read", "zero", "minus", "abort"
          errors,     \* something is on the error stack
          blocks,     \* what the application got of each block
          text        \* what it got between them

decoder == <<buffered, buffer, eof64, checksum>>
call == <<length, dest, ret>>
vars == <<wire, state, lastseen, seen_nl, decoder, unarmoured, call, errors,
          blocks, text>>

NoName == <<"none">>

Init ==
  /\ state = "OUTSIDE_BLOCK" /\ lastseen = NoName /\ seen_nl = TRUE
  /\ buffered = 0 /\ buffer = [n \in 0 .. 2 |-> <<>>] /\ eof64 = FALSE
  /\ checksum = <<>> /\ unarmoured = <<>>
  /\ length = 0 /\ dest = <<>> /\ ret = "read" /\ errors = FALSE
  /\ blocks = <<>> /\ text = <<>>

-----------------------------------------------------------------------------
(* Places of wire; a place behind its end stands for the end. *)

EndOfWire == Len(wire) + 1
Char(i) == IF i < EndOfWire THEN wire[i] ELSE <<>>

\* The first place from i on with such a character, or behind the end.
First(i, Such(_)) ==
  CHOOSE j \in i .. Max({i, EndOfWire}) :
    (j >= EndOfWire \/ Such(wire[j])) /\ \A k \in i .. j - 1 : ~Such(wire[k])

\* What read_char reads next when it skips CRs.
Skip(i) == First(i, LAMBDA c : c # CR)
LineEnd(i) == First(i, LAMBDA c : c = NL)
NoCRs(s) == Only(s, LAMBDA c : c # CR)

\* The first of some places where it is not ok; otherwise the last of them.
Expect(i, c) == [at |-> i, ok |-> Char(i) = c]
FourDashes(i) == [k \in 1 .. 4 |-> Expect(i + k, DASH)]
Match(places) ==
  places[Min({k \in DOMAIN places : ~places[k].ok} \cup {Len(places)})]

\* Everything up to a place has been read.
Consume(i) ==
  LET last == Min({i, Len(wire)})
  IN  /\ wire' = SubSeq(wire, i + 1, Len(wire))
      /\ seen_nl' = IF last = 0 THEN seen_nl ELSE wire[last] = NL

Return(r) == ret' = r /\ length' = 0 /\ dest' = <<>>

-----------------------------------------------------------------------------
\* The entry of armoured_data_reader, with its assertion.
Call(n) ==
  /\ length = 0 /\ ret # "abort"
  /\ IF eof64 /\ buffered = 0 /\ state = "BASE64"
       THEN Return("abort")
       ELSE length' = n /\ dest' = <<>> /\ UNCHANGED ret
  /\ UNCHANGED <<wire, state, lastseen, seen_nl, decoder, unarmoured, errors,
                 blocks, text>>

\* Each turn begins by giving the application the text read so far.
Flush == text' = text \o unarmoured

\* "while(!arg->seen_nl)": what does not start a line is not a header.
ReadLine ==
  /\ length > 0 /\ state = "OUTSIDE_BLOCK" /\ ~seen_nl
  /\ Flush
  /\ LET nl == LineEnd(1)
     IN  /\ Consume(nl) /\ unarmoured' = SubSeq(wire, 1, Min({nl, Len(wire)}))
         /\ IF nl = EndOfWire THEN Return("zero") ELSE UNCHANGED call
  /\ UNCHANGED <<state, lastseen, decoder, errors, blocks>>

\* Where the name between the dashes of a header or trailer ends: at the next
\* dash, or where buf is full.
NameEnd(i) == Min({First(i, LAMBDA c : c = DASH), i + BufSize - 1})

HeaderLine ==
  LET d == NameEnd(6)
  IN  Match([k \in 1 .. 5 |-> Expect(k, DASH)] \o <<Expect(d, DASH)>>
            \o FourDashes(d) \o <<Expect(Skip(d + 5), NL)>>)

\* Mutant: the text that was taken for a header is dropped.
NotHeader_Dropped(i) == <<>>
NotHeader(i) == SubSeq(wire, 1, Min({i, Len(wire)}))

\* A line that starts like a header and turns out to be none, as far as it has
\* been read.
ReadNoHeader ==
  /\ length > 0 /\ state = "OUTSIDE_BLOCK" /\ seen_nl
  /\ Flush
  /\ LET h == HeaderLine
     IN  /\ ~h.ok
         /\ Consume(h.at) /\ unarmoured' = NotHeader(h.at)
         /\ IF h.at >= EndOfWire THEN Return("zero") ELSE UNCHANGED call
  /\ UNCHANGED <<state, lastseen, decoder, errors, blocks>>

-----------------------------------------------------------------------------
\* set_lastseen_headerline, given what was between the dashes.
Recognised(name) == name # <<>> /\ IsName(name[1])
WrongEnd(name) ==
  name[1][1] = "END" /\ lastseen # <<"BEGIN", name[1][2]>>

\* base64()
StartBase64 ==
  /\ state' = "BASE64" /\ checksum' = <<>> /\ eof64' = FALSE /\ buffered' = 0
  /\ UNCHANGED buffer

\* parse_headers, from place i: lines up to an empty one.  A first line that is
\* no header is put back, without its CR.  (Headers that have a colon and are
\* wrong all the same are left out.)
ParseHeaders(i) ==
  LET Line(j) == NoCRs(SubSeq(wire, j, LineEnd(j) - 1))
      starts == {i} \cup {j + 1 : j \in {k \in i .. Len(wire) : wire[k] = NL}}
      last   == Min({j \in starts : LineEnd(j) >= EndOfWire
                                      \/ VERSION \notin ToSet(Line(j))})
      whole  == LineEnd(last) < EndOfWire
  IN  [at   |-> LineEnd(last),
       ok   |-> whole /\ Line(last) = <<>>,
       back |-> IF whole /\ Line(last) # <<>> /\ last = i
                  THEN Append(Line(last), NL) ELSE <<>>]

\* What follows the line with the name, which ends at place at; wrong is what
\* has been reported of that line.
OpenBlock(name, at, wrong) ==
  LET h == ParseHeaders(at + 1)
  IN  /\ IF h.back = <<>>
           THEN Consume(h.at)
           ELSE /\ wire' = h.back \o SubSeq(wire, h.at + 1, Len(wire))
                /\ seen_nl' = TRUE
      /\ IF h.ok /\ Recognised(name)
           THEN /\ blocks' = Append(blocks, [header  |-> name[1],
                                             octets  |-> <<>>,
                                             trailer |-> NoName])
                /\ errors' = (errors \/ wrong)
                /\ StartBase64 /\ UNCHANGED call
           ELSE /\ errors' = TRUE /\ Return("minus")
                /\ UNCHANGED <<blocks, state, decoder>>

ReadHeader ==
  /\ length > 0 /\ state = "OUTSIDE_BLOCK" /\ seen_nl
  /\ Flush /\ unarmoured' = <<>>
  /\ LET h    == HeaderLine
         name == SubSeq(wire, 6, NameEnd(6) - 1)
         seen == Recognised(name) /\ ParseHeaders(h.at + 1).ok
     IN  /\ h.ok
         /\ OpenBlock(name, h.at, seen /\ WrongEnd(name))
         /\ lastseen' = IF seen THEN name[1] ELSE lastseen

-----------------------------------------------------------------------------
\* read4, from place i: up to the fourth digit, or a "-" or "=" before it.  Any
\* other character is passed over.
Stops(c) == c \in {DASH, EQ, <<>>}
Next4(i) == First(i, LAMBDA c : IsDigit(c) \/ Stops(c))
GoOn(i) == IF Stops(Char(i)) THEN i ELSE Next4(i + 1)
Read4(i) ==
  LET end == GoOn(GoOn(GoOn(Next4(i))))
  IN  [at     |-> end,
       c      |-> Char(end),
       digits |-> Only(SubSeq(wire, i, Min({end, Len(wire)})), IsDigit)]

\* The character before place i, for arg->prev_nl.
PrevNL(i) ==
  LET before == NoCRs(SubSeq(wire, 1, i - 1))
  IN  IF before = <<>> THEN seen_nl ELSE Last(before) = NL

Bytes(digits) ==
  LET Crumb(n) == digits[(n + 2) \div 3][1 + ((n + 2) % 3)]
  IN  [k \in 1 .. (3 * Len(digits)) \div 4 |-> [j \in 1 .. 4 |-> Crumb(4 * k - 4 + j)]]

\* The checksum behind the "=" at place i, and the dashes of the trailer.
ChecksumLine(i) ==
  LET s  == Read4(i + 1)
      nl == Skip(s.at + 1)
  IN  <<[at |-> s.at, ok |-> Len(s.digits) = 4], Expect(nl, NL), Expect(nl + 1, DASH)>>
      \o FourDashes(nl + 1)

\* Where the "=" of the checksum has to be, behind a group that was cut short:
\* in its place if no digit has been read, on the next line if there is padding.
PaddingEnd(g) == IF Len(g.digits) = 2 THEN g.at + 1 ELSE g.at
ChecksumAt(g) ==
  IF g.digits = <<>> THEN g.at ELSE Skip(PaddingEnd(g) + 1) + 1

\* What has to follow.
Ending(g) ==
  (IF g.digits = <<>>
     THEN <<[at |-> g.at, ok |-> g.c = EQ /\ PrevNL(g.at)]>>
     ELSE <<Expect(g.at, EQ), Expect(PaddingEnd(g), EQ),
            Expect(ChecksumAt(g) - 1, NL), Expect(ChecksumAt(g), EQ)>>)
  \o ChecksumLine(ChecksumAt(g))

\* Mutant: any checksum will do.
SumOk_Unchecked(digits, octets) == Len(digits) = 4
\* read_checksum is the checksum of the octets.
SumOk(digits, octets) ==
  FlattenSeq(digits) = FlattenSeq(ChecksumOctets(octets))

\* The octets of a group go into buffer, back to front, and into the checksum.
Store(octets) ==
  /\ buffered' = Len(octets)
  /\ buffer' = [n \in 0 .. 2 |-> IF n < Len(octets) THEN octets[Len(octets) - n]
                                                   ELSE buffer[n]]
  /\ checksum' = checksum \o octets

\* What decode64 finds wrong is reported and nothing is returned; eof64 and
\* buffered are left as they are by then.
Refuse(at, n, eof) ==
  /\ Consume(at) /\ buffered' = n /\ eof64' = eof
  /\ errors' = TRUE /\ Return("zero") /\ UNCHANGED <<buffer, checksum>>

NeedsGroup == length > 0 /\ state = "BASE64" /\ buffered = 0 /\ ~eof64

\* decode64, with four digits.
DecodeGroup ==
  /\ NeedsGroup
  /\ LET g == Read4(1)
     IN  /\ g.at < EndOfWire /\ Len(g.digits) = 4
         /\ Consume(g.at) /\ Store(Bytes(g.digits))
  /\ UNCHANGED <<state, lastseen, eof64, unarmoured, call, errors, blocks, text>>

\* decode64 at the end of what is stored, or, "assert(n == 4)", with one digit.
DecodeStops ==
  /\ NeedsGroup
  /\ LET g == Read4(1)
     IN  \/ /\ g.at = EndOfWire
            /\ Refuse(g.at, 0, TRUE)
         \/ /\ g.at < EndOfWire /\ Len(g.digits) = 1
            /\ Consume(g.at) /\ Return("abort") /\ UNCHANGED <<decoder, errors>>
  /\ UNCHANGED <<state, lastseen, unarmoured, blocks, text>>

\* decode64, with the end of the block.
DecodeEnd ==
  /\ NeedsGroup
  /\ LET g == Read4(1)
         m == Match(Ending(g))
         s == Read4(ChecksumAt(g) + 1)
     IN  /\ g.at < EndOfWire /\ Len(g.digits) \in {0, 2, 3}
         /\ \/ /\ ~m.ok /\ Len(g.digits) > 0 /\ g.c = EQ
               /\ Refuse(m.at, Len(g.digits) - 1, TRUE)
            \/ /\ ~m.ok /\ (Len(g.digits) > 0 => g.c # EQ)
               /\ Refuse(m.at, 0, m.at > g.at /\ m.at = s.at /\ s.at = EndOfWire)
            \/ /\ m.ok
               /\ Consume(m.at) /\ eof64' = TRUE /\ Store(Bytes(g.digits))
               /\ IF SumOk(s.digits, checksum')
                    THEN UNCHANGED <<call, errors>>
                    ELSE Return("zero") /\ errors' = TRUE
  /\ UNCHANGED <<state, lastseen, unarmoured, blocks, text>>

\* One octet into dest; the call returns with the last one.
GiveOctet ==
  /\ length > 0 /\ state = "BASE64" /\ buffered > 0
  /\ LET now == Append(dest, buffer[buffered - 1])
     IN  IF length = 1
           THEN /\ Return("read")
                /\ blocks' = [blocks EXCEPT ![Len(blocks)].octets = @ \o now]
                /\ state' = IF eof64 /\ buffered = 1 THEN "AT_TRAILER_NAME" ELSE state
           ELSE /\ dest' = now /\ length' = length - 1
                /\ UNCHANGED <<state, blocks, ret>>
  /\ buffered' = buffered - 1
  /\ UNCHANGED <<wire, lastseen, seen_nl, buffer, eof64, checksum, unarmoured,
                 errors, text>>

\* Mutant: a read goes on with the next block.
EndsRead_Never == FALSE
EndsRead == dest # <<>>
\* The block is used up and the call wants more: an error, or, if it has
\* nothing yet, the trailer.
BlockUsedUp ==
  /\ length > 0 /\ state = "BASE64" /\ buffered = 0 /\ eof64
  /\ IF EndsRead THEN Return("minus") /\ UNCHANGED state
                 ELSE state' = "AT_TRAILER_NAME" /\ UNCHANGED call
  /\ UNCHANGED <<wire, lastseen, seen_nl, decoder, unarmoured, errors, blocks, text>>

-----------------------------------------------------------------------------
\* The five dashes before the name have been read by decode64.
TrailerPlaces(d) == FourDashes(d) \o <<Expect(Skip(d + 5), NL)>>

\* The name is missing: the data ends, no dash comes, or no name is known.
ReadNoTrailer ==
  /\ length > 0 /\ state = "AT_TRAILER_NAME"
  /\ LET d == NameEnd(1)
     IN  /\ Consume(d)
         /\ \/ /\ d = EndOfWire
               /\ Return("minus") /\ UNCHANGED errors
            \/ /\ d < EndOfWire /\ wire[d] # DASH
               /\ errors' = TRUE /\ UNCHANGED call
            \/ /\ Char(d) = DASH /\ ~Recognised(SubSeq(wire, 1, d - 1))
               /\ errors' = TRUE /\ Return("minus")
  /\ UNCHANGED <<state, lastseen, decoder, unarmoured, blocks, text>>

\* What is wrong with a trailer is reported and it counts all the same; in
\* place of one the header of the next block may stand.
ReadTrailer ==
  /\ length > 0 /\ state = "AT_TRAILER_NAME"
  /\ LET d     == NameEnd(1)
         name  == SubSeq(wire, 1, d - 1)
         end   == Skip(d + 5)
         wrong == \/ WrongEnd(name)
                  \/ \E k \in 1 .. 5 : LET p == TrailerPlaces(d)[k]
                                       IN  p.at < EndOfWire /\ ~p.ok
     IN  /\ Char(d) = DASH /\ Recognised(name)
         /\ lastseen' = name[1]
         /\ IF end >= EndOfWire
              THEN /\ Consume(end) /\ Return("minus")
                   /\ errors' = (errors \/ wrong)
                   /\ UNCHANGED <<state, decoder, blocks>>
            ELSE IF name[1][1] = "BEGIN"
              THEN OpenBlock(name, end, wrong)
              ELSE /\ Consume(end) /\ state' = "OUTSIDE_BLOCK"
                   /\ errors' = (errors \/ wrong)
                   /\ blocks' = [blocks EXCEPT ![Len(blocks)].trailer = name[1]]
                   /\ UNCHANGED <<decoder, call>>
  /\ UNCHANGED <<unarmoured, text>>

Step == ReadLine \/ ReadNoHeader \/ ReadHeader \/ DecodeGroup \/ DecodeStops
          \/ DecodeEnd \/ GiveOctet \/ BlockUsedUp \/ ReadNoTrailer \/ ReadTrailer
=============================================================================
