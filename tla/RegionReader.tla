---------------------------- MODULE RegionReader ----------------------------
(***************************************************************************)
(* The read path of the OpenPGP:SDK packet parser, packet-parse.c:         *)
(* sub_base_read, full_read and ops_limited_read on top of one reader, and *)
(* the chain of ops_region_t records that says how much of a packet, of    *)
(* the subpacket set inside it and of the subpacket inside that has been   *)
(* read.                                                                   *)
(*                                                                         *)
(* The stream is 1..StreamLen and a byte is the number of its place in the *)
(* stream, so what ends up in a buffer shows which bytes were read.  The   *)
(* reader underneath (reader_fd.c, reader_mem.c) may return any non-empty  *)
(* part of what it is asked for, fail, or return 0 at the end of the       *)
(* stream.  The error stack is only ever tested for emptiness, so it is    *)
(* the boolean errors.                                                     *)
(***************************************************************************)
EXTENDS Integers

CONSTANTS StreamLen,   \* bytes in the stream
          MaxRequest,  \* largest length a caller passes to a read
          MaxRegion,   \* largest region.length
          IntMax       \* the cap sub_base_read puts on one read

ASSUME ReaderConstants ==
  /\ StreamLen \in Nat /\ MaxRegion \in Nat
  /\ MaxRequest \in Nat \ {0} /\ IntMax \in Nat \ {0}

\* Regions nest three deep: a packet, a subpacket set in it, a subpacket.
MaxDepth == 3

VARIABLES
  taken,       \* bytes the reader has returned (arg->offset of reader_mem.c)
  accumulate, accumulated, asize, alength, position, \* of ops_reader_info_t
  depth,       \* number of regions in the chain, 0 between packets
  length, length_read, last_read, indeterminate,
               \* the fields of ops_region_t: of the packet's region at 1, of
               \* the innermost region at depth
  base,        \* the parent's length_read when the region was opened
  start,       \* C.ptag.position: the position at which the packet began
  pc,          \* the read in progress: "full" in full_read, "sub" in
               \* sub_base_read, "idle" when there is none
  limited,     \* it is ops_limited_read's, not base_read's
  want,        \* its length; stays after a read that succeeded
  got,         \* what full_read has, its variable t
  lim, cur,    \* what sub_base_read was asked for and has, its variable n
  dest,        \* the destination buffer
  res,         \* what the last read returned
  errors,      \* pinfo->errors is not empty
  dropped,     \* bytes the reader returned that a failing read threw away
  uncharged    \* bytes read in this packet that no region was charged for

readerVars == <<accumulate, accumulated, asize, alength, position>>
regionVars == <<depth, length, length_read, last_read, indeterminate, base>>
callVars == <<pc, limited, want, got, lim, cur>>
lossVars == <<dropped, uncharged>>
vars == <<taken, readerVars, regionVars, start, callVars, dest, res, errors,
          lossVars>>

Index == 0 .. StreamLen - 1
Slot == 0 .. MaxRequest - 1
Level == 1 .. MaxDepth
NoBytes == [k \in Index |-> 0]
Fresh == [k \in Slot |-> 0]

\* No read in progress; w > 0 says that one for w bytes has just succeeded.
Returned(w) ==
  pc' = "idle" /\ limited' = FALSE /\ want' = w /\ got' = 0 /\ lim' = 0
  /\ cur' = 0

\* Mutant of Minimum: no cap on one read.
MinimumUncapped(a, b) == a

Minimum(a, b) == IF a < b THEN a ELSE b

Init ==
  /\ taken = 0
  /\ accumulate \in BOOLEAN /\ accumulated = NoBytes
  /\ asize = 0 /\ alength = 0 /\ position = 0
  /\ depth = 0
  /\ length = [i \in Level |-> 0] /\ length_read = [i \in Level |-> 0]
  /\ last_read = [i \in Level |-> 0] /\ base = [i \in Level |-> 0]
  /\ indeterminate = [i \in Level |-> FALSE]
  /\ start = 0
  /\ pc = "idle" /\ limited = FALSE /\ want = 0 /\ got = 0 /\ lim = 0 /\ cur = 0
  /\ dest = Fresh /\ res = TRUE /\ errors = FALSE
  /\ dropped = 0 /\ uncharged = 0

-----------------------------------------------------------------------------
(* Beginning a read. *)

\* base_read: a read that no region limits, used for the packet tag and its
\* length octets, which are read one by one.
base_read ==
  /\ pc = "idle" /\ res /\ depth = 0
  /\ pc' = "sub" /\ limited' = FALSE /\ want' = 1 /\ got' = 0
  /\ lim' = Minimum(1, IntMax) /\ cur' = 0
  /\ dest' = Fresh
  /\ UNCHANGED <<taken, readerVars, regionVars, start, res, errors, lossVars>>

\* Mutants of OverRegion: the test comes a read too late; it lets one byte
\* too many through.
OverRegionLate(i, len) == ~indeterminate[i] /\ length_read[i] > length[i]
OverRegionOneMore(i, len) ==
  ~indeterminate[i] /\ length_read[i] + len > length[i] + 1

\* The test ops_limited_read makes before it reads anything: only the region
\* it was given is looked at, not that region's parents.
OverRegion(i, len) == ~indeterminate[i] /\ length_read[i] + len > length[i]

\* ops_limited_read on the innermost region: a read past it is an error.
LimitedReadRefused(len) ==
  /\ pc = "idle" /\ res /\ depth > 0
  /\ OverRegion(depth, len)
  /\ errors' = TRUE /\ res' = FALSE
  /\ Returned(0)
  /\ UNCHANGED <<taken, readerVars, regionVars, start, dest, lossVars>>

ops_limited_read(len) ==
  /\ pc = "idle" /\ res /\ depth > 0
  /\ ~OverRegion(depth, len)
  /\ pc' = "full" /\ limited' = TRUE /\ want' = len /\ got' = 0
  /\ lim' = 0 /\ cur' = 0
  /\ dest' = Fresh
  /\ UNCHANGED <<taken, readerVars, regionVars, start, res, errors, lossVars>>

\* Mutant of full_read: its loop runs once more.
full_readOnceMore ==
  /\ pc = "full" /\ got <= want
  /\ pc' = "sub" /\ cur' = 0 /\ lim' = Minimum(want - got, IntMax)
  /\ UNCHANGED <<taken, readerVars, regionVars, start, limited, want, got,
                 dest, res, errors, lossVars>>

\* full_read calls sub_base_read for what is still missing.
full_read ==
  /\ pc = "full" /\ got < want
  /\ pc' = "sub" /\ cur' = 0 /\ lim' = Minimum(want - got, IntMax)
  /\ UNCHANGED <<taken, readerVars, regionVars, start, limited, want, got,
                 dest, res, errors, lossVars>>

-----------------------------------------------------------------------------
(* sub_base_read's loop around the reader. *)

\* Mutant of reader: every answer is stored at the start of the request.
readerAtStart(r) ==
  /\ pc = "sub" /\ cur < lim
  /\ r \in 1 .. (lim - cur) /\ taken + r <= StreamLen
  /\ dest' = [k \in Slot |-> IF k \in got .. got + r - 1
                               THEN taken + 1 + (k - got) ELSE dest[k]]
  /\ taken' = taken + r
  /\ cur' = cur + r
  /\ UNCHANGED <<readerVars, regionVars, start, pc, limited, want, got, lim,
                 res, errors, lossVars>>

\* The reader stores r bytes at dest + n.
reader(r) ==
  /\ pc = "sub" /\ cur < lim
  /\ r \in 1 .. (lim - cur) /\ taken + r <= StreamLen
  /\ dest' = [k \in Slot |-> IF k \in got + cur .. got + cur + r - 1
                               THEN taken + 1 + (k - (got + cur)) ELSE dest[k]]
  /\ taken' = taken + r
  /\ cur' = cur + r
  /\ UNCHANGED <<readerVars, regionVars, start, pc, limited, want, got, lim,
                 res, errors, lossVars>>

\* The reader fails: what this sub_base_read already holds is lost to the
\* accumulated data, to the position and to the caller.
ReaderFails ==
  /\ pc = "sub" /\ cur < lim
  /\ errors' = TRUE /\ res' = FALSE
  /\ dropped' = dropped + cur
  /\ uncharged' = uncharged + got
  /\ Returned(0)
  /\ UNCHANGED <<taken, readerVars, regionVars, start, dest>>

\* Mutant of Grown: the buffer is doubled and nothing else.
GrownTwice(n) == IF alength + n > asize THEN asize * 2 ELSE asize

\* The buffer after sub_base_read's realloc of asize*2+n, if that is needed.
Grown(n) == IF alength + n > asize THEN asize * 2 + n ELSE asize

\* Mutant of Accumulate: the position is kept only with the raw packet.
AccumulateOnly(n) ==
  /\ asize' = IF accumulate THEN Grown(n) ELSE asize
  /\ UNCHANGED <<accumulate, accumulated>>
  /\ alength' = alength + n
  /\ position' = IF accumulate THEN position + n ELSE position

\* The n > 0 bytes sub_base_read returns are appended to the accumulated data
\* when they are wanted; alength and position advance in any case.
Accumulate(n) ==
  /\ asize' = IF accumulate THEN Grown(n) ELSE asize
  /\ accumulated' =
       IF accumulate
         THEN [k \in Index |-> IF k \in alength .. alength + n - 1
                                 THEN dest[got + (k - alength)]
                                 ELSE accumulated[k]]
         ELSE accumulated
  /\ alength' = alength + n
  /\ position' = position + n
  /\ UNCHANGED accumulate

\* sub_base_read has reached its limit, or the end of the stream after some
\* bytes, and returns to full_read or to base_read.
SubFinished == pc = "sub" /\ cur > 0 /\ (cur = lim \/ taken = StreamLen)

SubReturnsFull ==
  /\ SubFinished /\ limited
  /\ Accumulate(cur)
  /\ pc' = "full" /\ got' = got + cur /\ cur' = 0
  /\ UNCHANGED <<taken, regionVars, start, limited, want, lim, dest, res,
                 errors, lossVars>>

SubReturnsBase ==
  /\ SubFinished /\ ~limited
  /\ Accumulate(cur)
  /\ res' = (cur = want)
  /\ Returned(0)
  /\ UNCHANGED <<taken, regionVars, start, dest, errors, lossVars>>

-----------------------------------------------------------------------------
(* The end of a read. *)

\* Mutants of Charge: the parents are forgotten; last_read is what was asked
\* for.
ChargeInnermost(r) ==
  /\ length_read' = [length_read EXCEPT ![depth] = @ + r]
  /\ last_read' = [last_read EXCEPT ![depth] = r]
  /\ UNCHANGED <<depth, length, indeterminate, base>>

ChargeWanted(r) ==
  /\ length_read' = [i \in Level |-> IF i <= depth THEN length_read[i] + r
                                                   ELSE length_read[i]]
  /\ last_read' = [last_read EXCEPT ![depth] = want]
  /\ UNCHANGED <<depth, length, indeterminate, base>>

\* ops_limited_read charges r bytes to its region and to every parent.
Charge(r) ==
  /\ length_read' = [i \in Level |-> IF i <= depth THEN length_read[i] + r
                                                   ELSE length_read[i]]
  /\ last_read' = [last_read EXCEPT ![depth] = r]
  /\ UNCHANGED <<depth, length, indeterminate, base>>

\* full_read has everything it wants.
LimitedReadDone ==
  /\ pc = "full" /\ got = want
  /\ Charge(got)
  /\ res' = TRUE
  /\ Returned(want)
  /\ UNCHANGED <<taken, readerVars, start, dest, errors, lossVars>>

\* sub_base_read returns 0 at the end of the stream.
AtEnd == pc = "sub" /\ cur = 0 /\ taken = StreamLen

\* A short read is what an indeterminate region may get.
ShortRead ==
  /\ AtEnd /\ limited /\ indeterminate[depth]
  /\ Charge(got)
  /\ res' = TRUE
  /\ Returned(want)
  /\ UNCHANGED <<taken, readerVars, start, dest, errors, lossVars>>

\* Mutant of EndOfStream: nothing is put on the error stack.
EndOfStreamSilent ==
  /\ AtEnd /\ ~(limited /\ indeterminate[depth])
  /\ res' = FALSE
  /\ uncharged' = uncharged + got
  /\ Returned(0)
  /\ UNCHANGED <<taken, readerVars, regionVars, start, dest, dropped, errors>>

\* For a region of known length, and for base_read's caller, it is a failure;
\* only ops_limited_read puts an error on the stack.
EndOfStream ==
  /\ AtEnd /\ ~(limited /\ indeterminate[depth])
  /\ res' = FALSE
  /\ errors' = (errors \/ limited)
  /\ uncharged' = uncharged + got
  /\ Returned(0)
  /\ UNCHANGED <<taken, readerVars, regionVars, start, dest, dropped>>

-----------------------------------------------------------------------------
(* Regions. *)

\* ops_init_subregion for level i, with the length its caller stores right
\* afterwards.
ops_init_subregion(i, len, indet, b) ==
  /\ length' = [length EXCEPT ![i] = len]
  /\ length_read' = [length_read EXCEPT ![i] = 0]
  /\ last_read' = [last_read EXCEPT ![i] = 0]
  /\ indeterminate' = [indeterminate EXCEPT ![i] = indet]
  /\ base' = [base EXCEPT ![i] = b]

\* ops_parse_one_packet has read the packet tag: the packet's own region.
\* An indeterminate length (old format, length type 3) is stored as 0.
OpenPacket(len, indet) ==
  /\ pc = "idle" /\ res /\ depth = 0 /\ alength > 0
  /\ indet => len = 0
  /\ depth' = 1
  /\ ops_init_subregion(1, len, indet, position - start)
  /\ Returned(0)
  /\ UNCHANGED <<taken, readerVars, start, dest, res, errors, lossVars>>

\* Mutant of SubregionFits: the length is not compared with the parent's.
SubregionUnchecked(len) == TRUE

\* parse_signature_subpackets and parse_one_signature_subpacket: the length
\* octets have just been read from the parent; the length is compared with
\* the parent's whole length and not with what is left of it.
SubregionFits(len) == len <= length[depth]

OpenSubregion(len) ==
  /\ pc = "idle" /\ res /\ depth \in 1 .. MaxDepth - 1 /\ want > 0
  /\ SubregionFits(len)
  /\ depth' = depth + 1
  /\ ops_init_subregion(depth + 1, len, FALSE, length_read[depth])
  /\ Returned(0)
  /\ UNCHANGED <<taken, readerVars, start, dest, res, errors, lossVars>>

\* ERRP reports a longer one to the callback only.
SubregionRefused(len) ==
  /\ pc = "idle" /\ res /\ depth \in 1 .. MaxDepth - 1 /\ want > 0
  /\ ~SubregionFits(len)
  /\ res' = FALSE
  /\ Returned(0)
  /\ UNCHANGED <<taken, readerVars, regionVars, start, dest, errors, lossVars>>

\* The function that holds the region as a local variable returns.
CloseSubregion ==
  /\ pc = "idle" /\ depth > 1
  /\ depth' = depth - 1
  /\ Returned(0)
  /\ UNCHANGED <<taken, readerVars, length, length_read, last_read,
                 indeterminate, base, start, dest, res, errors, lossVars>>

\* The end of ops_parse_one_packet with r > 0.  consume_packet has read what
\* was left of a packet of known length, one more ops_limited_read, so the
\* packet's length has been read exactly; one that was overrun cannot be
\* consumed and fails.  The accumulated data has gone to the callback with
\* OPS_PARSER_PACKET_END.  After a failure ops_parse does not come back for
\* another packet: what consume_packet still reads then is in PacketParse.
EndPacket ==
  /\ pc = "idle" /\ res /\ depth = 1
  /\ indeterminate[1] \/ length_read[1] = length[1]
  /\ depth' = 0
  /\ accumulated' = IF accumulate THEN NoBytes ELSE accumulated
  /\ asize' = IF accumulate THEN 0 ELSE asize
  /\ alength' = 0
  /\ start' = position
  /\ uncharged' = 0
  /\ Returned(0)
  /\ UNCHANGED <<taken, accumulate, position, length, length_read, last_read,
                 indeterminate, base, dest, res, errors, dropped>>

CallStep ==
  \/ full_read \/ SubReturnsFull \/ SubReturnsBase \/ LimitedReadDone
  \/ ShortRead \/ EndOfStream \/ ReaderFails
  \/ \E r \in 1 .. MaxRequest : reader(r)

Next ==
  \/ CallStep
  \/ base_read
  \/ \E len \in 0 .. MaxRequest : LimitedReadRefused(len) \/ ops_limited_read(len)
  \/ \E len \in 0 .. MaxRegion, indet \in BOOLEAN : OpenPacket(len, indet)
  \/ \E len \in 0 .. MaxRegion : OpenSubregion(len) \/ SubregionRefused(len)
  \/ CloseSubregion
  \/ EndPacket

\* The parser is one sequential program: a read it has begun goes on.
Spec == Init /\ [][Next]_vars /\ WF_vars(CallStep)

-----------------------------------------------------------------------------
(* Properties. *)

\* Every variable has its type, and sub_base_read never asks the reader for
\* more than IntMax bytes at a time (packet-parse.c:188).
TypeOK ==
  /\ taken \in 0 .. StreamLen
  /\ accumulate \in BOOLEAN /\ accumulated \in [Index -> 0 .. StreamLen]
  /\ asize \in Nat /\ alength \in Nat /\ position \in Nat
  /\ depth \in 0 .. MaxDepth
  /\ length \in [Level -> Nat] /\ length_read \in [Level -> Nat]
  /\ last_read \in [Level -> Nat] /\ base \in [Level -> Nat]
  /\ indeterminate \in [Level -> BOOLEAN]
  /\ start \in Nat
  /\ pc \in {"idle", "full", "sub"} /\ limited \in BOOLEAN
  /\ want \in Nat /\ got \in Nat /\ lim \in 0 .. IntMax /\ cur \in Nat
  /\ dest \in [Slot -> 0 .. StreamLen]
  /\ res \in BOOLEAN /\ errors \in BOOLEAN
  /\ dropped \in Nat /\ uncharged \in Nat

\* What ops_limited_read charges to a region it charges to every parent: a
\* parent has been charged for what was read from it before the subregion
\* was opened and for everything read inside the subregion, no byte twice.
ChainAccounting ==
  \A i \in 1 .. MaxDepth - 1 :
    i < depth => length_read[i] = base[i + 1] + length_read[i + 1]

\* The assertion in ops_limited_read's loop (packet-parse.c:363): a region is
\* never longer than its parent.
LengthsNested ==
  \A i \in 1 .. MaxDepth - 1 : i < depth => length[i + 1] <= length[i]

\* How far a parse can run past the end of a region: a subregion opened on
\* the last byte of its parent may still be as long as the parent, so a
\* packet is charged at most three times its length, a subpacket set twice,
\* a subpacket never more than its length.
BoundedOverrun ==
  \A i \in Level :
    i <= depth /\ ~indeterminate[i] =>
      length_read[i] <= (MaxDepth + 1 - i) * length[i]

\* Where the stream is: every byte the reader returned is behind the
\* position, in the read in progress or in a read that failed; the position
\* is the packet's start, its tag and length octets, what its region was
\* charged and what a short read left uncharged.
PositionAccounting ==
  /\ taken = position + dropped + cur
  /\ position = start + alength
  /\ depth > 0 => alength = base[1] + length_read[1] + uncharged + got

\* A byte the reader returned and no region was charged for goes missing only
\* together with an error on the stack, so ops_parse does not return success.
NothingLostSilently == dropped + uncharged > 0 => errors /\ ~res

\* The raw packet handed out with OPS_PARSER_PACKET_END: the accumulated
\* bytes are the bytes of the stream from the packet's start, in order and
\* without a gap, and fit the buffer (the assertions at packet-parse.c:210
\* and 216).
AccumulatedIsPacket ==
  accumulate =>
    /\ alength <= asize
    /\ \A k \in Index : k < alength => accumulated[k] = start + 1 + k

\* However the reader splits its answers, the destination of a read holds
\* consecutive bytes of the stream, the last of them the last one taken.
DestInOrder ==
  pc # "idle" =>
    \A k \in Slot : k < got + cur => dest[k] = taken - (got + cur) + 1 + k

\* What a caller of ops_limited_read is told: the buffer holds last_read bytes,
\* the latest of the stream, and they are fewer than it asked for only at the
\* end of the stream and in an indeterminate region ("this can return a short
\* read - check region->last_read for the length").
LastReadExact ==
  pc = "idle" /\ want > 0 =>
    /\ last_read[depth] # want =>
         last_read[depth] < want /\ indeterminate[depth] /\ taken = StreamLen
    /\ \A k \in Slot : k < last_read[depth] =>
         dest[k] = taken - last_read[depth] + 1 + k

\* Nothing that was read is lost sight of: the regions, the position and the
\* accumulated length agree on it at every step, no region is charged beyond
\* its bound, and what none of them knows of is on the error stack.
BytesAccounted ==
  /\ ChainAccounting /\ LengthsNested /\ BoundedOverrun
  /\ PositionAccounting /\ NothingLostSilently

\* What callers get is the stream: the accumulated raw packet, the destination
\* of the read in progress and what last_read says of the buffer.
BytesDelivered == AccumulatedIsPacket /\ DestInOrder /\ LastReadExact

\* What else is true of the read in progress: full_read's loop variables, the
\* check ops_limited_read made before it began, and the state a finished read
\* leaves behind for OpenSubregion.
CallShape ==
  /\ pc = "idle" => got = 0 /\ cur = 0 /\ ~limited
  /\ pc = "idle" /\ want > 0 => depth > 0 /\ res
  /\ pc # "idle" => /\ res
                    /\ want <= MaxRequest
                    /\ limited <=> depth > 0
                    /\ ~limited => want = 1 /\ got = 0
  /\ pc = "full" => limited /\ cur = 0 /\ got <= want
  /\ pc = "sub" => lim \in 1 .. want - got /\ cur <= lim

ReadFits ==
  depth > 0 /\ ~indeterminate[depth] =>
    /\ pc # "idle" => length_read[depth] + want <= length[depth]
    /\ pc = "idle" /\ want > 0 => length_read[depth] <= length[depth]

\* Only a packet's own region can be indeterminate, and then its length is 0;
\* a subregion was opened inside its parent.
RegionShape ==
  /\ indeterminate[1] => length[1] = 0
  /\ \A i \in 2 .. MaxDepth : i <= depth => ~indeterminate[i]
  /\ \A i \in 1 .. MaxDepth - 1 :
       i < depth => indeterminate[i] \/ base[i + 1] <= length[i]

\* The inductive invariant the theorems of RegionReaderProofs rest on.
ReaderInv ==
  /\ TypeOK /\ CallShape /\ ReadFits /\ RegionShape
  /\ ChainAccounting /\ LengthsNested /\ BoundedOverrun
  /\ PositionAccounting /\ NothingLostSilently
  /\ AccumulatedIsPacket /\ DestInOrder /\ LastReadExact

\* A read that has begun returns: every turn of the two loops makes progress
\* or ends them.
ReadReturns == pc # "idle" ~> pc = "idle"
=============================================================================
