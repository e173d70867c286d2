---------------------------- MODULE CompressWriter ----------------------------
(***************************************************************************)
(* The compressing writer of compress.c, between an application that       *)
(* writes pieces of any length and the writer below, which may fail.       *)
(*                                                                         *)
(* Octets of data are counted from the front.  A unit of the compressed    *)
(* stream is how far the data can be restored once it is read, and whether *)
(* it is the last one.  deflate is zlib's: it takes input until its output *)
(* is full, keeps back what it likes and codes as densely as it likes; it  *)
(* fails when it has nothing to do, unless the call before filled its      *)
(* output.                                                                 *)
(***************************************************************************)
EXTENDS Naturals, Sequences

CONSTANTS CompressBuffer, \* COMPRESS_BUFFER, 32768
          MaxData,        \* octets that are written
          MaxCoded        \* units that one call of deflate codes

ASSUME CompressWriterAssumption ==
  /\ CompressBuffer \in Nat \ {0} /\ MaxData \in Nat /\ MaxCoded \in Nat \ {0}

VARIABLES
  pc,       \* "open", "writing" or "closing" in the loop of a call, "whole", "closed"
  accepted, \* octets the application has written
  avail_in, \* of those of this call, what deflate has not taken
  total_in, \* octets deflate has taken
  coded,    \* and how many of them are in units
  pending,  \* units that did not fit into dst
  full,     \* the last call of deflate left no room in dst
  size,     \* of dst
  body,     \* units that the writer below has got
  ok,       \* what the last finished call returned
  intact    \* the writer below has not failed

writerVars == <<pc, accepted, avail_in, total_in, coded, pending, full, size,
                body, ok, intact>>

Unit(n, last) == [upto |-> n, last |-> last]

\* ops_writer_push_compressed
WriterInit ==
  /\ pc = "open" /\ accepted = 0 /\ avail_in = 0
  /\ total_in = 0 /\ coded = 0 /\ pending = <<>> /\ full = FALSE
  /\ size = CompressBuffer /\ body = <<>> /\ ok = TRUE /\ intact = TRUE

\* Mutant: deflate is called for nothing.
Nothing_Never(n) == FALSE
\* "ZLib doesn't like being asked to compress nothing"
Nothing(n) == n = 0

Write(n) ==
  /\ pc = "open" /\ accepted + n <= MaxData
  /\ accepted' = accepted + n
  /\ IF Nothing(n)
       THEN /\ ok' = TRUE
            /\ UNCHANGED <<pc, avail_in>>
       ELSE /\ pc' = "writing" /\ avail_in' = n
            /\ UNCHANGED ok
  /\ UNCHANGED <<total_in, coded, pending, full, size, body, intact>>

Close ==
  /\ pc = "open" /\ pc' = "closing"
  /\ avail_in' = 0 /\ size' = CompressBuffer
  /\ UNCHANGED <<accepted, total_in, coded, pending, full, body, ok, intact>>

-----------------------------------------------------------------------------
(* deflate. *)

\* What up to MaxCoded units may say of the octets that are not coded yet.
Codings(to) ==
  {u \in UNION {[1 .. m -> coded + 1 .. to] : m \in 0 .. MaxCoded} :
     \A i, j \in 1 .. Len(u) : i < j => u[i] < u[j]}

Reached(u) == IF u = <<>> THEN coded ELSE u[Len(u)]
Units(u) == [i \in 1 .. Len(u) |-> Unit(u[i], FALSE)]

\* The end of the last block and the check sum.
Trailer(n) == <<Unit(n, FALSE), Unit(n, TRUE)>>

\* deflate stops when it has done its work or when dst is full, and what is in dst
\* is written.
Output(out, done, good) ==
  LET room == IF Len(out) <= size THEN Len(out) ELSE size
  IN  /\ done \/ Len(out) >= size
      /\ pending' = SubSeq(out, room + 1, Len(out)) /\ full' = (room = size)
      /\ body' = IF good THEN body \o SubSeq(out, 1, room) ELSE body
      /\ intact' = (intact /\ good)

NothingToDo == avail_in = 0 /\ pending = <<>> /\ ~full

\* zlib_error
DeflateError ==
  /\ pc' = "open" /\ ok' = FALSE /\ intact' = intact
  /\ UNCHANGED <<avail_in, total_in, coded, pending, full, body>>

-----------------------------------------------------------------------------

\* Mutant: one filling is all that is written.
Again_Never(good) == FALSE
\* result && avail_out == 0
Again(good) == good /\ full'

\* A turn of the loop in stream_compress_writer; Z_NO_FLUSH takes all the input.
WriteTurn ==
  /\ pc = "writing"
  /\ IF NothingToDo THEN DeflateError ELSE
       \E n \in 0 .. avail_in, good \in BOOLEAN : \E u \in Codings(total_in + n) :
         /\ avail_in' = avail_in - n /\ total_in' = total_in + n
         /\ coded' = Reached(u)
         /\ Output(pending \o Units(u), n = avail_in, good)
         /\ IF Again(good) THEN UNCHANGED <<pc, ok>>
                           ELSE pc' = "open" /\ ok' = good
  /\ UNCHANGED <<accepted, size>>

TrailerMade == pending # <<>> /\ pending[Len(pending)].last
Ending(reached) == IF reached = total_in /\ ~TrailerMade THEN Trailer(total_in) ELSE <<>>

\* A turn of the loop in stream_compress_finaliser; Z_FINISH codes all there is,
\* and a buffer that was too small is doubled.
CloseTurn ==
  /\ pc = "closing"
  /\ \E good \in BOOLEAN, u \in Codings(total_in) :
       LET out == pending \o Units(u) \o Ending(Reached(u))
           end == Reached(u) = total_in /\ Len(out) <= size
       IN  /\ coded' = Reached(u)
           /\ Output(out, end, good)
           /\ size' = IF end THEN size ELSE 2 * size
           /\ pc' = IF good /\ ~end THEN "closing" ELSE "closed"
           /\ ok' = IF good /\ ~end THEN ok ELSE good
  /\ UNCHANGED <<accepted, avail_in, total_in>>

\* ops_write_compressed: a packet from data that is all there, compressed into a
\* buffer that holds all of it.
CompressAll(n) ==
  /\ pc = "open" /\ accepted = 0 /\ n <= MaxData
  /\ accepted' = n /\ total_in' = n /\ pc' = "whole"
  /\ UNCHANGED <<avail_in, coded, pending, full, size, body, ok, intact>>

WriteAll ==
  /\ pc = "whole" /\ pc' = "closed" /\ coded' = total_in
  /\ \E good \in BOOLEAN, u \in Codings(total_in) :
       /\ Reached(u) = total_in
       /\ body' = IF good THEN Units(u) \o Trailer(total_in) ELSE body
       /\ ok' = good /\ intact' = (intact /\ good)
  /\ UNCHANGED <<accepted, avail_in, total_in, pending, full, size>>

\* stream_compress_destroyer, once the writer has been closed.
Destroy ==
  /\ pc = "closed"
  /\ avail_in' = 0 /\ pending' = <<>> /\ full' = FALSE /\ size' = CompressBuffer
  /\ UNCHANGED <<pc, accepted, total_in, coded, body, ok, intact>>

WriterNext ==
  \/ \E n \in 0 .. MaxData : Write(n) \/ CompressAll(n)
  \/ Close \/ WriteTurn \/ CloseTurn \/ WriteAll \/ Destroy

WriterSpec == WriterInit /\ [][WriterNext]_writerVars

-----------------------------------------------------------------------------
(* Properties. *)

UnitSet == [upto : 0 .. MaxData, last : BOOLEAN]

\* Types and ranges.
WriterTypeOK ==
  /\ pc \in {"open", "writing", "closing", "whole", "closed"}
  /\ accepted \in 0 .. MaxData /\ avail_in \in 0 .. MaxData
  /\ total_in \in 0 .. MaxData /\ coded \in 0 .. MaxData
  /\ pending \in Seq(UnitSet) /\ body \in Seq(UnitSet) /\ size \in Nat \ {0}
  /\ full \in BOOLEAN /\ ok \in BOOLEAN /\ intact \in BOOLEAN

Visible == IF body = <<>> THEN 0 ELSE body[Len(body)].upto

Stream == INSTANCE ByteStream
            WITH visible <- Visible, closed <- (pc = "closed"), broken <- ~intact

\* To whoever decompresses what it writes the writer is a byte stream: the data in
\* order and, once it is closed, all of it, however the fillings of dst fall and
\* whatever deflate keeps back, until a write below fails
\* (stream_compress_writer, stream_compress_finaliser).
IsByteStream == Stream!Spec

\* No call fails as long as no write below does, an empty one, one that deflate
\* has no output for and one whose output fills dst exactly among them; and what
\* a closed writer has written ends as a compressed stream ends, and not before.
StreamWhole ==
  intact =>
    /\ ok
    /\ pc = "closed" => body # <<>> /\ body[Len(body)].last
    /\ \A i \in 1 .. Len(body) : body[i].last => i = Len(body) /\ pc = "closed"
=============================================================================
