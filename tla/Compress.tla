------------------------------- MODULE Compress -------------------------------
(***************************************************************************)
(* Data is compressed with CompressWriter, sent, perhaps damaged, and read *)
(* with CompressReader.  The reader does not know partial lengths; between *)
(* the two the stream becomes a packet with a length, or one without that  *)
(* goes on to the end, as ops_write_compressed and other programs write it. *)
(***************************************************************************)
EXTENDS CompressWriter

CONSTANTS DecompressBuffer,
          MaxRead \* octets asked for at once

ASSUME CompressAssumption == DecompressBuffer \in Nat \ {0} /\ MaxRead \in Nat

VARIABLES
  packet, region, indeterminate, bad, length_read, used, total_out, out, offset,
  inflate_ret, length, dest, ret, given, spans, errors,
  phase \* "write", then "read"

r == <<length_read, used, total_out, out, offset, inflate_ret, length, dest, ret,
       given, spans, errors>>
file == <<packet, region, indeterminate, bad>>
vars == <<writerVars, file, r, phase>>

Reader == INSTANCE CompressReader

Init ==
  /\ WriterInit /\ Reader!Init /\ phase = "write"
  /\ packet = <<>> /\ region = 0 /\ indeterminate = FALSE /\ bad = 0

Writing == phase = "write" /\ WriterNext /\ UNCHANGED <<file, r, phase>>

Arrives(units, len, open, damaged) ==
  /\ phase = "write" /\ intact /\ Destroy
  /\ phase' = "read" /\ packet' = units /\ region' = (IF open THEN 0 ELSE len)
  /\ indeterminate' = open /\ bad' = damaged
  /\ UNCHANGED r

Sent == \E open \in BOOLEAN : Arrives(body, Len(body), open, 0)

Damaged ==
  \E open \in BOOLEAN, k \in 1 .. Len(body) : Arrives(body, Len(body), open, k)

\* The end is missing: of the packet, or of what its length promises.
CutOff ==
  \E open \in BOOLEAN, k \in 0 .. Len(body) - 1 : \E len \in {k, Len(body)} :
    Arrives(SubSeq(body, 1, k), len, open, 0)

\* The packet has more behind the stream, a little or more than a filling.
Followed ==
  \E open \in BOOLEAN, n \in {1, DecompressBuffer} :
    LET more == [i \in 1 .. n |-> Unit(accepted, FALSE)]
    IN  Arrives(body \o more, Len(body) + n, open, 0)

Call(n) == phase = "read" /\ Reader!Call(n) /\ UNCHANGED <<writerVars, phase>>
Step == phase = "read" /\ Reader!Step /\ UNCHANGED <<writerVars, phase>>

Next ==
  \/ Writing \/ Sent \/ Damaged \/ CutOff \/ Followed
  \/ \E n \in 1 .. MaxRead : Call(n)
  \/ Step

\* A read that has begun goes on.
Spec == Init /\ [][Next]_vars /\ WF_vars(Step)

-----------------------------------------------------------------------------
(* Properties. *)

\* Types; a filling and the input it is made from fit their buffers.
TypeOK ==
  /\ WriterTypeOK /\ phase \in {"write", "read"}
  /\ packet \in Seq(UnitSet) /\ region \in Nat /\ bad \in 0 .. Len(packet)
  /\ {indeterminate, spans, errors} \subseteq BOOLEAN
  /\ length_read \in used .. used + DecompressBuffer /\ length_read <= Len(packet)
  /\ total_out \in 0 .. MaxData /\ out \in Seq(1 .. MaxData)
  /\ Len(out) <= DecompressBuffer /\ offset \in 0 .. Len(out)
  /\ inflate_ret \in {"Z_OK", "Z_STREAM_END", "Z_DATA_ERROR", "Z_BUF_ERROR"}
  /\ length \in 0 .. MaxRead /\ dest \in Seq(0 .. MaxData) /\ given \in Seq(0 .. MaxData)
  /\ ret \in {"reading", "abort", "read", "zero", "minus"}

Copied == IF ret = "reading" THEN Len(dest) - length ELSE 0

\* What has been given and what is still in the filling is what inflate has put
\* out, no octet twice or left out between fillings, unless the file ends before
\* the packet; as long as no read takes from two fillings it is the data; and the
\* end is said to be reached only when all of the data that was written has been
\* given (compress.c:87 to 157).
DataGiven ==
  phase = "read" =>
    /\ region <= Len(packet) /\ ret # "abort" => Len(given) + Copied + Len(out) - offset = total_out
    /\ ~spans => \A i \in 1 .. Len(given) : given[i] = i
    /\ ret = "zero" => Len(given) = accepted

\* The packet arrived as it was sent.
Intact == packet = body /\ bad = 0 /\ (indeterminate \/ region = Len(body))

\* A packet that is damaged, that is cut off or has more than the input buffer
\* behind its stream does not come to its end without an error; one that arrived
\* as it was sent, without a length, causes none (compress.c:91 to 148).
DamageNoticed ==
  /\ ret = "zero" => bad = 0 /\ used = Len(body)
  /\ ret = "zero" /\ ~indeterminate /\ region > length_read => errors
  /\ phase = "read" /\ Intact /\ indeterminate => ~errors

\* Whoever decompresses gets what was written or an error.
DataRestored == DataGiven /\ DamageNoticed

\* A read that has begun returns, or ends at the assertion: neither a stream that
\* stops nor one that has ended makes its loop turn without progress.
ReadReturns == [](ret = "reading" => <>(ret # "reading"))
=============================================================================
