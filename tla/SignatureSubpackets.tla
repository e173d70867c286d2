------------------------- MODULE SignatureSubpackets -------------------------
(***************************************************************************)
(* The two subpacket sets of a version 4 signature packet: the functions   *)
(* parse_v4_signature (up to the second set), parse_signature_subpackets,  *)
(* parse_one_signature_subpacket and limited_skip of packet-parse.c.       *)
(*                                                                         *)
(* A length that the stream declares may be anything up to MaxLen, whether *)
(* it fits or not; version, header, a count, a length and a type are one   *)
(* unit each.  RegionReader has the read itself: here a read fails when    *)
(* the innermost region has no room for it, and otherwise charges that     *)
(* region and its parents.                                                 *)
(***************************************************************************)
EXTENDS Integers

CONSTANTS MaxLen,  \* largest length declared
          Buf,     \* sizeof buf in limited_skip, 8192
          Word     \* number of values of an unsigned

ASSUME SubpacketConstants ==
  /\ MaxLen \in Nat /\ Buf \in Nat \ {0} /\ Word \in Nat
  /\ Word > MaxLen /\ Word > 3 /\ Word % Buf = 0

VARIABLES
  pc,       \* what is done next
  hashed,   \* the first, hashed set is read
  packet, set, sub,  \* the three regions, [len, read]
  type,     \* of the current subpacket, see Types
  wanted,   \* how the application wants it
  todo,     \* fields of the subpacket, or length in limited_skip, still to read
  alength,  \* rinfo.alength: what has been read of the packet with its header
  ends,     \* where the current subpacket ends by its own length
  hashedLength, \* v4_hashed_data_length
  errors,   \* pinfo->errors is not empty
  unread    \* some subpacket was delivered or dropped without its own check

vars == <<pc, hashed, packet, set, sub, type, wanted, todo, alength, ends,
          hashedLength, errors, unread>>

\* How a type's body is read: a field of fixed size, two of them, all that is
\* left of the region, notation data with lengths of its own, a revocation key
\* whose class may be wrong, or not at all.
Types == {"field", "fields", "rest", "notation", "revocation_key", "unknown"}
Wanted == {"raw", "parsed", "ignored"}

None == [len |-> 0, read |-> 0]

\* Mutant: alength without the -1.
v4_hashed_data_start_Late == 3
v4_hashed_data_start == 2  \* tag and length come before the version

Init ==
  /\ pc = "set" /\ hashed = TRUE
  /\ packet \in [len : 2 .. MaxLen + 2, read : {2}]   \* version and header
  /\ set = None /\ sub = None
  /\ type = "unknown" /\ wanted = "ignored" /\ todo = 0
  /\ alength = 4 /\ ends = 0 /\ hashedLength = 0
  /\ errors = FALSE /\ unread = FALSE

current == <<type, wanted>>

\* Mutant: signed arithmetic.
UnsignedSigned(n) == n
Unsigned(n) == n % Word

\* limited_read of n units from a region, and the charge to its parents.
Fits(r, n) == r.read + n <= r.len
Charge(r, n) == [r EXCEPT !.read = @ + n]
ReadPacket(n) ==
  /\ Fits(packet, n)
  /\ packet' = Charge(packet, n) /\ alength' = alength + n /\ UNCHANGED <<set, sub>>
ReadSet(n) ==
  /\ Fits(set, n)
  /\ packet' = Charge(packet, n) /\ set' = Charge(set, n) /\ alength' = alength + n
ReadSub(n) ==
  /\ Fits(sub, n)
  /\ packet' = Charge(packet, n) /\ set' = Charge(set, n) /\ sub' = Charge(sub, n)
  /\ alength' = alength + n

\* Returning 0, with an error on the stack or without.
Returns0(error) ==
  /\ pc' = "failed" /\ errors' = (errors \/ error)
  /\ UNCHANGED <<hashed, packet, set, sub, current, todo, alength, ends, hashedLength, unread>>

-----------------------------------------------------------------------------
(* parse_signature_subpackets *)

SetLength ==
  /\ pc = "set"
  /\ UNCHANGED <<hashed, current, todo, ends, hashedLength, errors, unread>>
  /\ Fits(packet, 1)
  /\ \E len \in 0 .. MaxLen :
       /\ pc' = IF len > packet.len THEN "failed" ELSE "next"
       /\ set' = [len |-> len, read |-> 0]
  /\ packet' = Charge(packet, 1) /\ alength' = alength + 1 /\ sub' = sub

More == set.read < set.len

\* Mutant: the set may end before or behind its length.
SetEndsUnchecked ==
  /\ pc = "next" /\ ~More
  /\ hashedLength' = IF hashed THEN alength - v4_hashed_data_start ELSE hashedLength
  /\ pc' = IF hashed THEN "set" ELSE "done"
  /\ hashed' = FALSE
  /\ UNCHANGED <<packet, set, sub, current, todo, alength, ends, errors, unread>>

\* The second set is followed by the numbers; before it, the hashed part is
\* measured and copied out of the accumulated packet.
SetEnds ==
  /\ pc = "next" /\ set.read = set.len
  /\ hashedLength' = IF hashed THEN alength - v4_hashed_data_start ELSE hashedLength
  /\ pc' = IF hashed THEN "set" ELSE "done"
  /\ hashed' = FALSE
  /\ UNCHANGED <<packet, set, sub, current, todo, alength, ends, errors, unread>>

\* The subpackets went past the end of the set, and the difference is unsigned.
SetMismatch ==
  /\ pc = "next" /\ ~More /\ set.read # set.len
  /\ pc' = "overrun" /\ todo' = Unsigned(set.len - set.read)
  /\ UNCHANGED <<hashed, packet, set, sub, current, alength, ends, hashedLength, errors, unread>>

\* Mutant: a whole buffer for a multiple, and nothing of it for the remainder.
PortionOfBuffers(n) == n - (n % Buf)

\* limited_skip takes length % sizeof buf at a time, which is 0 for a
\* multiple; the region was overrun, so the first read fails.
Portion(n) == n % Buf
SkipSet ==
  /\ pc = "overrun" /\ pc' = "failed"
  /\ ~Fits(set, Portion(todo)) /\ errors' = TRUE
  /\ UNCHANGED <<hashed, packet, set, sub, current, todo, alength, ends, hashedLength, unread>>

-----------------------------------------------------------------------------
(* parse_one_signature_subpacket *)

\* The subpacket's length is compared with the whole length of its set.
TooLong(len) == len > set.len
SubLength ==
  /\ pc = "next" /\ More
  /\ ReadSet(1)
  /\ \E len \in 0 .. MaxLen :
       /\ pc' = IF TooLong(len) THEN "failed" ELSE "type"
       /\ sub' = [len |-> len, read |-> 0]
       /\ ends' = alength + 1 + len
  /\ UNCHANGED <<hashed, current, todo, hashedLength, errors, unread>>

Fields == [t \in Types |-> CASE t \in {"field", "revocation_key"} -> 1
                             [] t = "fields" -> 2
                             [] t = "notation" -> 3
                             [] OTHER -> 0]
SubType ==
  /\ pc = "type"
  /\ ReadSub(1)
  /\ type' \in Types /\ wanted' \in Wanted
  /\ todo' = IF wanted' = "raw" \/ type' = "rest" THEN sub.len - 1 ELSE Fields[type']
  /\ pc' = IF wanted' # "raw" /\ type' = "unknown" THEN "unknown" ELSE "body"
  /\ UNCHANGED <<hashed, ends, hashedLength, errors, unread>>

\* A field that does not fit the subpacket fails.  The flags, name and value of
\* notation data are read with limited_read_data, which asserts that they fit,
\* and name and value may claim to be of any length.
Notation == pc = "body" /\ type = "notation" /\ wanted # "raw"
DoesNotFit == Notation /\ todo = 3 /\ ~Fits(sub, 1)
Portioned == IF wanted = "raw" \/ type = "rest" THEN todo ELSE 1
Body ==
  /\ pc = "body" /\ todo > 0
  /\ ReadSub(Portioned) /\ todo' = todo - Portioned
  /\ UNCHANGED <<pc, hashed, current, ends, hashedLength, errors, unread>>
limited_read_data ==
  /\ DoesNotFit \/ (Notation /\ todo = 1)
  /\ pc' = "abort"
  /\ UNCHANGED <<hashed, packet, set, sub, current, todo, alength, ends, hashedLength,
                 errors, unread>>

\* Reading fails: no room in the region, or the reader has no more.
ReadFails ==
  /\ pc \in {"set", "type"} \/ (pc = "body" /\ todo > 0) \/ (pc = "next" /\ More)
  /\ ~DoesNotFit
  /\ Returns0(TRUE)

\* The class of a revocation key is wrong, which only printf hears of.
WrongClass ==
  /\ pc = "body" /\ type = "revocation_key" /\ wanted # "raw" /\ todo = 0
  /\ Returns0(FALSE)

\* Mutant: a parsed subpacket may leave data unconsumed.
DeliveredUnchecked ==
  /\ pc = "body" /\ todo = 0
  /\ pc' = "next"
  /\ \/ wanted # "ignored" /\ errors' = errors
     \/ wanted = "ignored" /\ errors' \in {errors, TRUE}
  /\ unread' = (unread \/ (wanted = "ignored" /\ sub.read # sub.len))
  /\ UNCHANGED <<hashed, packet, set, sub, current, todo, alength, ends, hashedLength>>

\* The subpacket has been read; whether it ended where it should is checked for
\* those that are delivered parsed.
Delivered ==
  /\ pc = "body" /\ todo = 0
  /\ wanted = "parsed" => sub.read = sub.len
  /\ pc' = "next"
  /\ \/ wanted # "ignored" /\ errors' = errors
     \/ wanted = "ignored" /\ errors' \in {errors, TRUE}   \* a critical one
  /\ unread' = (unread \/ (wanted = "ignored" /\ sub.read # sub.len))
  /\ UNCHANGED <<hashed, packet, set, sub, current, todo, alength, ends, hashedLength>>
Unconsumed ==
  /\ pc = "body" /\ todo = 0 /\ wanted = "parsed" /\ sub.read # sub.len
  /\ Returns0(TRUE)

\* An unknown type that is wanted parsed leaves an error and is delivered
\* unread; one that is not wanted is skipped.
UnknownDelivered ==
  /\ pc = "unknown" /\ wanted = "parsed"
  /\ pc' = "next" /\ errors' = TRUE /\ unread' = TRUE
  /\ UNCHANGED <<hashed, packet, set, sub, current, todo, alength, ends, hashedLength>>
UnknownIgnored ==
  /\ pc = "unknown" /\ wanted = "ignored"
  /\ pc' = "skip" /\ todo' = Unsigned(sub.len - 1)
  /\ errors' \in {errors, TRUE}   \* a critical one
  /\ UNCHANGED <<hashed, packet, set, sub, current, alength, ends, hashedLength, unread>>

SkipSub ==
  /\ pc = "skip"
  /\ UNCHANGED <<hashed, current, ends, hashedLength, errors, unread>>
  /\ LET n == Portion(todo) IN
       \/ todo = 0 /\ pc' = "next" /\ UNCHANGED <<packet, set, sub, alength, todo>>
       \/ todo # 0 /\ ReadSub(n) /\ todo' = todo - n /\ pc' = pc
SkipFails ==
  /\ pc = "skip" /\ Portion(todo) # 0 /\ Returns0(TRUE)

Ended == pc \in {"done", "failed", "abort"} /\ UNCHANGED vars

Next ==
  \/ SetLength \/ SetEnds \/ SetMismatch \/ SkipSet \/ SubLength \/ SubType
  \/ Body \/ limited_read_data \/ ReadFails \/ WrongClass \/ Delivered \/ Unconsumed
  \/ UnknownDelivered \/ UnknownIgnored \/ SkipSub \/ SkipFails \/ Ended

\* A single thread that keeps running.
Spec == Init /\ [][Next]_vars /\ WF_vars(Next)

-----------------------------------------------------------------------------
(* Properties. *)

\* Every variable holds a value of its type.
Region(max) == [len : 0 .. max, read : 0 .. 3 * MaxLen + 2]
TypeOK ==
  /\ pc \in {"set", "next", "type", "body", "unknown", "skip", "overrun",
             "done", "failed", "abort"}
  /\ packet \in Region(MaxLen + 2) /\ packet.len >= 2
  /\ set \in Region(MaxLen) /\ sub \in Region(MaxLen)
  /\ alength \in 0 .. 3 * MaxLen + 4 /\ hashedLength \in 0 .. 3 * MaxLen + 2
  /\ type \in Types /\ wanted \in Wanted /\ todo \in 0 .. Word - 1
  /\ ends \in 0 .. 4 * MaxLen + 4
  /\ hashed \in BOOLEAN /\ errors \in BOOLEAN /\ unread \in BOOLEAN

\* What is hashed of a v4 signature begins at the version and ends with the
\* declared end of the hashed subpackets, though its length is taken from
\* alength after they have been read one by one.
HashedPartExact == pc = "set" /\ ~hashed => hashedLength = 3 + set.len

\* When both sets have been parsed, exactly their declared lengths have been
\* read: a subpacket that went past the end of its set never goes unnoticed,
\* and the numbers of the signature are read where they begin.
SetsTile == pc = "done" => alength = 2 + hashedLength + 1 + set.len

\* The next subpacket begins where the one before it ends by its own length,
\* provided each one so far was delivered raw, parsed as a known type, or
\* skipped.
NextSubpacketAligned == pc = "next" /\ set.read > 0 /\ ~unread => alength = ends

\* The three lengths a signature is read by, of the packet, the sets and the
\* subpackets, agree: what is hashed, where the next subpacket begins and
\* where the numbers of the signature do.
SetsExact == HashedPartExact /\ SetsTile /\ NextSubpacketAligned

\* parse_v4_signature gets to an end, if no length reaches the size of the
\* buffer that limited_skip uses.
Terminates == <>(pc \in {"done", "failed", "abort"})
=============================================================================
