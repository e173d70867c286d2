---------------------------- MODULE CompressReader ----------------------------
(***************************************************************************)
(* zlib_compressed_data_reader of compress.c, of which                     *)
(* bzip2_compressed_data_reader is a copy, between the region of a         *)
(* compressed packet and a parser that reads pieces of any length.         *)
(*                                                                         *)
(* The packet is a sequence of units as in CompressWriter; octets of data  *)
(* are their places in the data.  inflate is zlib's: it stops when the     *)
(* input is used up or the output full, keeps what does not fit, and goes  *)
(* no further than the last unit or a damaged one.                         *)
(***************************************************************************)
EXTENDS Naturals, Sequences, FiniteSetsExt

CONSTANT DecompressBuffer \* DECOMPRESS_BUFFER, 1024

VARIABLES
  packet,        \* what follows the packet's header, up to the end of the stream
  region,        \* length of the region, counting units
  indeterminate, \* it has none: the packet goes on to the end of the stream
  bad,           \* a damaged unit, 0 when there is none
  length_read,   \* units read from the region
  used,          \* units that inflate has used up
  total_out,     \* octets that inflate has put out
  out, offset,   \* the last filling, and what has been copied from it
  inflate_ret,
  length,        \* octets that the read in progress has still to copy
  dest,          \* of that read, 0 where nothing has been written
  ret,           \* "reading", "abort", or what the last read was: "read", "zero", "minus"
  given,         \* what all reads so far have delivered
  spans,         \* a read took from more than one filling
  errors         \* the error stack is not empty

vars == <<packet, region, indeterminate, bad, length_read, used, total_out, out,
          offset, inflate_ret, length, dest, ret, given, spans, errors>>
file == <<packet, region, indeterminate, bad>>

\* ops_decompress
Init ==
  /\ length_read = 0 /\ used = 0 /\ total_out = 0 /\ out = <<>> /\ offset = 0
  /\ inflate_ret = "Z_OK" /\ length = 0 /\ dest = <<>> /\ ret = "read"
  /\ given = <<>> /\ spans = FALSE /\ errors = FALSE

Lesser(m, n) == IF m <= n THEN m ELSE n
Drained == offset = Len(out)

\* Mutant: the end of the stream is the end of the data.
AtEnd_Inflated == inflate_ret = "Z_STREAM_END"
AtEnd == inflate_ret = "Z_STREAM_END" /\ Drained

\* "Compressed data didn't end when region ended."
DidNotEnd ==
  ~indeterminate /\ length_read = region /\ inflate_ret # "Z_STREAM_END"

Call(n) ==
  /\ ret \notin {"reading", "abort"}
  /\ IF AtEnd
       THEN /\ ret' = "zero" /\ dest' = <<>>
            /\ UNCHANGED <<length, errors>>
       ELSE /\ ret' = "reading" /\ length' = n /\ dest' = [i \in 1 .. n |-> 0]
            /\ errors' = (errors \/ DidNotEnd)
  /\ UNCHANGED <<file, length_read, used, total_out, out, offset, inflate_ret,
                 given, spans>>

-----------------------------------------------------------------------------
(* inflate. *)

Restored(k) == IF k = 0 THEN 0 ELSE packet[k].upto

\* A unit is used up when the data before it fits into the output.
UsedUp(avail) ==
  Max({used} \cup {k \in used + 1 .. avail :
         \A j \in used .. k - 1 :
           /\ Restored(j) <= total_out + DecompressBuffer
           /\ j > 0 => ~packet[j].last
           /\ j + 1 # bad})

Result(avail, k, n) ==
  IF n < Restored(k) THEN "Z_OK"
  ELSE IF k > 0 /\ packet[k].last THEN "Z_STREAM_END"
  ELSE IF k + 1 = bad /\ bad <= avail THEN "Z_DATA_ERROR"
  ELSE IF k = used /\ n = total_out THEN "Z_BUF_ERROR"
  ELSE "Z_OK"

-----------------------------------------------------------------------------

\* Mutant: as much as there is.
Wanted_All ==
  IF length_read > used THEN 0
  ELSE IF indeterminate THEN Len(packet) - length_read ELSE region - length_read
\* How much is read from the region when all of the input has been used up.
Wanted ==
  IF length_read > used THEN 0
  ELSE IF indeterminate THEN Lesser(DecompressBuffer, Len(packet) - length_read)
  ELSE Lesser(DecompressBuffer, region - length_read)

\* ops_stacked_limited_read fails: the stream ends within the packet.
ReadFails ==
  /\ ret = "reading" /\ Drained /\ length_read + Wanted > Len(packet)
  /\ ret' = "minus" /\ errors' = TRUE
  /\ out' = <<>> /\ offset' = 0 /\ dest' = <<>>
  /\ UNCHANGED <<file, length_read, used, total_out, inflate_ret, length,
                 given, spans>>

\* Mutant: more input than the stream uses is no error.
EndsEarly_Never(read) == FALSE
\* "Compressed stream ended before packet end."
EndsEarly(read) == ~indeterminate /\ read # region

\* Mutant: a filling goes on behind what has been copied of the one before.
Start_Kept(filling) == Lesser(offset, Len(filling))
Start(filling) == 0

\* Mutant: no output, no assertion.
Progress_Unchecked(filling) == TRUE
\* The assertion before the data is copied.
Progress(filling) == filling # <<>>

Fill ==
  /\ ret = "reading" /\ Drained /\ length_read + Wanted <= Len(packet)
  /\ LET read == length_read + Wanted
         k    == UsedUp(read)
         n    == Lesser(Restored(k), total_out + DecompressBuffer)
         fill == [i \in 1 .. n - total_out |-> total_out + i]
     IN  /\ length_read' = read /\ used' = k /\ total_out' = n
         /\ out' = fill /\ offset' = Start(fill)
         /\ inflate_ret' = Result(read, k, n)
         /\ errors' = (errors
              \/ (inflate_ret' = "Z_STREAM_END" /\ EndsEarly(read))
              \/ inflate_ret' \notin {"Z_OK", "Z_STREAM_END"})
         /\ ret' = IF Progress(fill) THEN ret ELSE "abort"
         /\ spans' = (spans \/ length < Len(dest))
  /\ UNCHANGED <<file, length, dest, given>>

\* dest itself does not move on, so that what a second filling has goes where the
\* first has been.
Copy ==
  /\ ret = "reading" /\ ~Drained
  /\ LET len == Lesser(length, Len(out) - offset)
     IN  /\ dest' = [i \in DOMAIN dest |-> IF i <= len THEN out[offset + i] ELSE dest[i]]
         /\ offset' = offset + len /\ length' = length - len
         /\ IF len = length THEN ret' = "read" /\ given' = given \o dest'
                            ELSE UNCHANGED <<ret, given>>
  /\ UNCHANGED <<file, length_read, used, total_out, out, inflate_ret, spans, errors>>

Step == ReadFails \/ Fill \/ Copy
=============================================================================
