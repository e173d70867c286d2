---------------------------- MODULE PartialWriter ----------------------------
(***************************************************************************)
(* writer_partial.c: a packet of unknown length is written as chunks whose *)
(* length is a power of two and a last chunk of any length.  The header of *)
(* the packet and what is written after it are one sequence of units; the  *)
(* module counts them from the front.                                      *)
(*                                                                         *)
(* The writer below may fail at any write; a chunk is there when both its  *)
(* length and its data could be written.                                   *)
(***************************************************************************)
EXTENDS Integers, Sequences

CONSTANTS PartialLengths, \* the powers of two from 1 to MAX_PARTIAL_DATA_LENGTH
          MinPartial,     \* MIN_PARTIAL_DATA_LENGTH, 512
          PacketSize,     \* arg->packet_size
          HeaderLen,      \* length of the packet's header
          MaxTotal        \* units written to a packet

ASSUME PartialConstants ==
  /\ PartialLengths \subseteq Nat \ {0}
  /\ {MinPartial, PacketSize} \subseteq PartialLengths
  /\ HeaderLen \in Nat /\ MaxTotal \in Nat

\* The assertion of ops_writer_push_partial_with_trailer, and headers of a few
\* bytes before a first chunk of at least 512.
ASSUME PartialSizes == PacketSize >= MinPartial /\ HeaderLen < MinPartial

\* Every length has a largest power of two that is not above it.
ASSUME PartialLengthsCover ==
  \A n \in 1 .. HeaderLen + MaxTotal :
    \E p \in PartialLengths :
      p <= n /\ \A q \in PartialLengths : q <= n => q <= p

VARIABLES
  pc,            \* "open", "writing" inside write_partial_data, "closed"
  accepted,      \* units of header and data taken
  buffer,        \* units in arg->buffer
  written_first,
  left,          \* what write_partial_data has still to write, from where
  rest,          \* what comes after it in the same call
  out,           \* the chunks that reached the writer below
  ok,            \* what the last finished call returned
  call,          \* and which it was: "store", "first", "flush" or "last"
  fault,         \* a write below failed in this call
  intact,        \* none has failed so far
  errors,        \* the caller's error stack has an error of this call
  trailer        \* trailer_fn has been called and succeeded

vars == <<pc, accepted, buffer, written_first, left, rest, out, ok, call,
          fault, intact, errors, trailer>>

-----------------------------------------------------------------------------

ops_calc_partial_data_length(len) ==
  CHOOSE p \in PartialLengths :
    p <= len /\ \A q \in PartialLengths : q <= len => q <= p

Span(at, len) == [at |-> at, len |-> len]
Nothing == Span(0, 0)

Partial(from, len) == [from |-> from, len |-> len, partial |-> TRUE]
Fixed(from, len)   == [from |-> from, len |-> len, partial |-> FALSE]

Init ==
  /\ pc = "open" /\ accepted = HeaderLen /\ buffer = 0
  /\ written_first = FALSE /\ left = Nothing /\ rest = Nothing /\ out = <<>>
  /\ ok = TRUE /\ call = "store" /\ fault = FALSE /\ errors = FALSE
  /\ trailer = FALSE /\ intact = TRUE

Taken(n) == accepted + n <= HeaderLen + MaxTotal /\ accepted' = accepted + n

\* Mutant: a full buffer is kept as well.
Stored_Full(n) ==
  IF written_first THEN buffer + n <= PacketSize
                   ELSE HeaderLen + buffer + n < MinPartial
\* Less than the shortest first chunk, or less than a buffer: wait for more.
Stored(n) ==
  IF written_first THEN buffer + n < PacketSize
                   ELSE HeaderLen + buffer + n < MinPartial

Store(n) ==
  /\ pc = "open" /\ Stored(n) /\ Taken(n)
  /\ buffer' = buffer + n
  /\ call' = "store" /\ ok' = TRUE /\ fault' = FALSE /\ errors' = FALSE
  /\ UNCHANGED <<pc, written_first, left, rest, out, intact, trailer>>

\* write_partial_data_first: tag, length, header and the first of the data, and
\* then the rest in the loop.
WriteFirst(n) ==
  /\ pc = "open" /\ ~written_first /\ ~Stored(n) /\ Taken(n)
  /\ written_first' = TRUE /\ buffer' = 0
  /\ call' = "first" /\ rest' = Nothing
  /\ LET total == HeaderLen + buffer + n
         len   == ops_calc_partial_data_length(total)
     IN  \E good \in BOOLEAN :
           /\ intact' = (intact /\ good)
           /\ IF good
                THEN /\ out' = <<Partial(0, len)>>
                     /\ left' = IF total = len THEN Nothing ELSE Span(len, total - len)
                     /\ pc' = IF total = len THEN "open" ELSE "writing"
                     /\ ok' = TRUE /\ fault' = FALSE /\ errors' = FALSE
                ELSE /\ ok' = FALSE /\ fault' = TRUE /\ errors' = TRUE
                     /\ UNCHANGED <<pc, out, left>>
  /\ UNCHANGED trailer

Buffered == Span(accepted - buffer, buffer)
Given(n) == Span(accepted, n)

\* Mutant: what is new goes out before what is in the buffer.
FlushOrder_Swapped(n) == <<Given(n), Buffered>>
FlushOrder(n) == <<Buffered, Given(n)>>

\* flush_buffer, if there is anything in it, and then the data of this call,
\* both with write_partial_data.
Flush(n) ==
  /\ pc = "open" /\ written_first /\ ~Stored(n) /\ Taken(n)
  /\ buffer' = 0 /\ pc' = "writing"
  /\ LET first == FlushOrder(n)[1]
         then  == FlushOrder(n)[2]
     IN  IF first.len > 0
           THEN left' = first /\ rest' = IF then.len > 0 THEN then ELSE Nothing
           ELSE left' = then /\ rest' = Nothing
  /\ call' = "flush" /\ fault' = FALSE /\ errors' = FALSE
  /\ UNCHANGED <<written_first, out, ok, intact, trailer>>

\* One turn of the loop in write_partial_data, which ignores what the writes
\* return.  In the first call the errors are moved to the caller's stack.
WriteChunk ==
  /\ pc = "writing"
  /\ LET len == ops_calc_partial_data_length(left.len)
     IN  \E good \in BOOLEAN :
           /\ intact' = (intact /\ good)
           /\ out' = IF good THEN Append(out, Partial(left.at, len)) ELSE out
           /\ fault' = (fault \/ ~good)
           /\ errors' = (errors \/ (~good /\ call = "first"))
           /\ IF left.len > len
                THEN /\ left' = Span(left.at + len, left.len - len)
                     /\ UNCHANGED <<rest, pc, ok>>
                ELSE /\ left' = rest /\ rest' = Nothing
                     /\ pc' = IF rest = Nothing THEN "open" ELSE "writing"
                     /\ ok' = IF rest = Nothing THEN TRUE ELSE ok
  /\ UNCHANGED <<accepted, buffer, written_first, call, trailer>>

\* Mutant: no last chunk when there is nothing left for it.
LastChunk_IfAny ==
  IF written_first /\ buffer = 0 THEN <<>>
  ELSE IF written_first THEN <<Fixed(Buffered.at, buffer)>>
  ELSE <<Fixed(0, HeaderLen + buffer)>>
\* Mutant: a short packet is written without its header.
LastChunk_NoHeader == <<Fixed(Buffered.at, buffer)>>
\* Mutant: a short packet is written without its data.
LastChunk_NoData ==
  IF written_first THEN <<Fixed(Buffered.at, buffer)>> ELSE <<Fixed(0, HeaderLen)>>
\* write_partial_data_last has the buffer, write_complete_packet the header too.
LastChunk ==
  IF written_first THEN <<Fixed(Buffered.at, buffer)>>
                   ELSE <<Fixed(0, HeaderLen + buffer)>>

\* Mutant: what trailer_fn returns is dropped.
LastResult_Body(body, after) == body
LastResult(body, after) == body /\ after

\* stream_partial_finaliser: the trailer follows if the last chunk is written.
Finalise ==
  /\ pc = "open" /\ pc' = "closed" /\ call' = "last" /\ buffer' = 0
  /\ \E body, after \in BOOLEAN :
       /\ intact' = (intact /\ body)
       /\ out' = IF body THEN out \o LastChunk ELSE out
       /\ trailer' = (body /\ after)
       /\ ok' = LastResult(body, after)
       /\ fault' = ~(body /\ after) /\ errors' = ~(body /\ after)
  /\ UNCHANGED <<accepted, written_first, left, rest>>

Next ==
  \/ \E n \in 0 .. MaxTotal : Store(n) \/ WriteFirst(n) \/ Flush(n)
  \/ WriteChunk \/ Finalise

Spec == Init /\ [][Next]_vars

-----------------------------------------------------------------------------
(* Properties. *)

Chunks == [from : Nat, len : Nat, partial : BOOLEAN]

\* Types; the buffer of an open packet never fills up (ops_memory_add is only
\* called for less than packet_size).
TypeOK ==
  /\ pc \in {"open", "writing", "closed"} /\ accepted \in Nat
  /\ buffer \in Nat /\ buffer < PacketSize /\ written_first \in BOOLEAN
  /\ {left, rest} \subseteq [at : Nat, len : Nat] /\ out \in Seq(Chunks)
  /\ {ok, fault, intact, errors, trailer} \subseteq BOOLEAN
  /\ call \in {"store", "first", "flush", "last"}

End(chunk) == chunk.from + chunk.len
Decoded == IF out = <<>> THEN 0 ELSE End(out[Len(out)])

\* As long as no write fails the chunks follow each other without a gap.
ChunksTile ==
  intact =>
    /\ out # <<>> => out[1].from = 0
    /\ \A i \in 1 .. Len(out) - 1 : out[i + 1].from = End(out[i])

\* What is not written yet goes on where the chunks end, first what the loop
\* has, then what comes after it, then the buffer, up to the last unit taken:
\* none is dropped, doubled or overtaken between header, buffer and src,
\* whatever the sizes of the writes (stream_partial_writer).
NothingLost ==
  intact /\ pc # "closed" =>
    /\ left # Nothing => left.at = Decoded
    /\ rest # Nothing => rest.at = Decoded + left.len
    /\ accepted = Decoded + left.len + rest.len + buffer
                  + (IF written_first THEN 0 ELSE HeaderLen)

\* RFC 4880, 4.2.2.4, as the comments of the file have it: partial lengths are
\* powers of two, the first is at least 512, and the packet ends with exactly
\* one chunk of fixed length, even an empty one.
WellFormed ==
  /\ \A i \in DOMAIN out :
       /\ out[i].partial => out[i].len \in PartialLengths
       /\ out[i].partial \/ (i = Len(out) /\ pc = "closed")
  /\ intact =>
       /\ out # <<>> /\ out[1].partial => out[1].len >= MinPartial
       /\ pc = "closed" => ~out[Len(out)].partial

\* What has been written is a packet the format allows and holds all that was
\* given, each unit once and in its place.
PacketFormed == ChunksTile /\ NothingLost /\ WellFormed

Stream == INSTANCE ByteStream
            WITH visible <- Decoded, closed <- (pc = "closed"), broken <- ~intact

\* To whoever reads the chunks the writer is a byte stream: what it shows is
\* always a front part of header and data, and all of it at the end, until a
\* write below it fails.
IsByteStream == Stream!Spec

\* A call that returns false has failed and left an error for its caller; the
\* last call returns true only if all of it was written, and the first leaves
\* an error even where it returns true (the && chains, ops_move_errors).
FailuresReported ==
  pc # "writing" =>
    /\ ~ok => fault /\ errors
    /\ call = "last" => (ok <=> ~fault) /\ (trailer <=> ok)
    /\ call = "first" /\ fault => errors
=============================================================================
