-------------------------- MODULE EncryptedDataProofs --------------------------
(***************************************************************************)
(* Encrypted data, as it is written and as it is read, for packets,        *)
(* buffers, blocks and numbers of any size: the invariants of the partial  *)
(* body writer, that it implements ByteStream, and the invariants of the   *)
(* decrypting readers.                                                     *)
(*                                                                         *)
(* TypeOK, ChunksTile and NothingLost of the writer are not inductive on   *)
(* their own: what the loop writes next is where the chunks end only       *)
(* because the loop runs after the first chunk, has something to write,    *)
(* and starts with nothing left over.  Shape says so; WriterInv is all     *)
(* four.  The format of the chunks and what the calls report have          *)
(* invariants of their own, Formed and Reported, proved under WriterInv.   *)
(*                                                                         *)
(* Nor are those of the readers.  That nothing is decrypted too early, too *)
(* late or twice depends on what every handler still has to do (Scripted), *)
(* on how the reads in progress fit into each other (Chained), and on      *)
(* where a cipher is in what its reader has decrypted (Histories).         *)
(* DecryptInv is these with the types, Shapes, and with SecretKeyAligned,  *)
(* which says what the parser got.                                         *)
(***************************************************************************)
EXTENDS PartialWriter, DecryptReader, SequenceTheorems, TLAPS

\* Units kept in arg->header before the first chunk.
Header == IF written_first THEN 0 ELSE HeaderLen

\* What is to be written still is part of what was taken; the loop runs after
\* the first chunk and while there is something to write.
Shape ==
  /\ accepted <= HeaderLen + MaxTotal
  /\ left.len + rest.len + buffer + Header <= accepted
  /\ pc = "writing" => written_first /\ left.len > 0
  /\ pc # "writing" => left = Nothing /\ rest = Nothing
  /\ rest # Nothing => rest.len > 0
  /\ ~written_first => out = <<>> \/ pc = "closed"

WriterInv == TypeOK /\ Shape /\ ChunksTile /\ NothingLost

-----------------------------------------------------------------------------
(* What the operators of the module return. *)

\* ops_calc_partial_data_length: a power of two between 1 and what there is.
LEMMA PartialLengthFits ==
  ASSUME NEW len \in 1 .. HeaderLen + MaxTotal
  PROVE  /\ ops_calc_partial_data_length(len) \in PartialLengths
         /\ ops_calc_partial_data_length(len) \in Nat
         /\ ops_calc_partial_data_length(len) > 0
         /\ ops_calc_partial_data_length(len) <= len
<1> DEFINE Fits(p) == p <= len /\ \A q \in PartialLengths : q <= len => q <= p
<1>1. \E p \in PartialLengths : Fits(p) BY PartialLengthsCover
<1>2. ops_calc_partial_data_length(len) = CHOOSE p \in PartialLengths : Fits(p)
  BY DEF ops_calc_partial_data_length
<1>3. /\ ops_calc_partial_data_length(len) \in PartialLengths
      /\ Fits(ops_calc_partial_data_length(len))
  BY <1>1, <1>2
<1>4. \A p \in PartialLengths : p \in Nat /\ p > 0 BY PartialConstants
<1> HIDE DEF Fits
<1>5. /\ ops_calc_partial_data_length(len) \in Nat
      /\ ops_calc_partial_data_length(len) > 0
  BY <1>3, <1>4
<1>6. ops_calc_partial_data_length(len) <= len BY <1>3 DEF Fits
<1> QED BY <1>3, <1>5, <1>6

\* A chunk after the others that starts where they end.
LEMMA ChunkAppended ==
  ASSUME NEW s \in Seq(Chunks), NEW c \in Chunks
  PROVE  /\ Append(s, c) \in Seq(Chunks)
         /\ Append(s, c) # <<>>
         /\ Len(Append(s, c)) = Len(s) + 1
         /\ Append(s, c)[Len(s) + 1] = c
         /\ \A i \in 1 .. Len(s) : Append(s, c)[i] = s[i]
         /\ s \o <<c>> = Append(s, c)
OBVIOUS

LEMMA ChunksEndInNat ==
  ASSUME NEW s \in Seq(Chunks) PROVE (IF s = <<>> THEN 0 ELSE End(s[Len(s)])) \in Nat
<1>1. CASE s = <<>> BY <1>1
<1>2. CASE s # <<>>
 <2>1. s[Len(s)] \in Chunks BY <1>2
 <2> QED BY <1>2, <2>1 DEF End, Chunks
<1> QED BY <1>1, <1>2

LEMMA DecodedIsNat ==
  /\ TypeOK => Decoded \in Nat
  /\ TypeOK' => Decoded' \in Nat
BY ChunksEndInNat DEF TypeOK, Decoded, End

\* What one more chunk does to ChunksTile and to Decoded.
LEMMA ChunkTiles ==
  ASSUME TypeOK, NEW c \in Chunks, out' = Append(out, c)
  PROVE  /\ Decoded' = End(c)
         /\ out' \in Seq(Chunks)
         /\ (intact /\ ChunksTile /\ c.from = Decoded) => ChunksTile'
<1>1. out \in Seq(Chunks) BY DEF TypeOK
<1>2. Decoded' = End(c) BY <1>1, ChunkAppended DEF Decoded
<1>3. out' \in Seq(Chunks) BY <1>1, ChunkAppended
<1>4. ASSUME intact, ChunksTile, c.from = Decoded PROVE ChunksTile'
 <2> SUFFICES ASSUME intact'
              PROVE  /\ out'[1].from = 0
                     /\ \A i \in 1 .. Len(out') - 1 : out'[i + 1].from = End(out'[i])
   BY DEF ChunksTile
 <2>1. CASE out = <<>>
  <3>1. out' = <<c>> /\ c.from = 0 BY <1>4, <2>1 DEF Decoded
  <3> QED BY <3>1
 <2>2. CASE out # <<>>
  <3>1. Len(out) \in Nat /\ Len(out) > 0 /\ Len(out') = Len(out) + 1
    BY <1>1, <2>2, ChunkAppended
  <3>2. out'[1] = out[1] BY <1>1, <3>1, ChunkAppended
  <3>3. ASSUME NEW i \in 1 .. Len(out') - 1 PROVE out'[i + 1].from = End(out'[i])
   <4>1. i \in 1 .. Len(out) /\ out'[i] = out[i] BY <1>1, <3>1, ChunkAppended
   <4>2. CASE i = Len(out)
    <5>1. out'[i + 1] = c BY <1>1, <4>2, ChunkAppended
    <5>2. Decoded = End(out[i]) BY <2>2, <4>2 DEF Decoded
    <5> QED BY <1>4, <4>1, <5>1, <5>2
   <4>3. CASE i # Len(out)
    <5>1. i + 1 \in 1 .. Len(out) /\ i \in 1 .. Len(out) - 1 BY <3>1, <4>1, <4>3
    <5>2. out'[i + 1] = out[i + 1] BY <1>1, <5>1, ChunkAppended
    <5>3. out[i + 1].from = End(out[i]) BY <1>4, <2>2, <5>1 DEF ChunksTile
    <5> QED BY <4>1, <5>2, <5>3
   <4> QED BY <4>2, <4>3
  <3>4. out[1].from = 0 BY <1>4, <2>2 DEF ChunksTile
  <3> QED BY <3>2, <3>3, <3>4
 <2> QED BY <2>1, <2>2
<1> QED BY <1>2, <1>3, <1>4

-----------------------------------------------------------------------------
(* Types and Shape. *)

Spans == [at : Nat, len : Nat]

LEMMA SpanFields ==
  /\ Nothing \in Spans /\ Nothing.at = 0 /\ Nothing.len = 0
  /\ \A a, l \in Nat :
       Span(a, l) \in Spans /\ Span(a, l).at = a /\ Span(a, l).len = l
BY DEF Nothing, Span, Spans

LEMMA ChunkFields ==
  \A a, l \in Nat :
    /\ Partial(a, l) \in Chunks /\ Partial(a, l).from = a /\ Partial(a, l).len = l
    /\ Partial(a, l).partial = TRUE
    /\ Fixed(a, l) \in Chunks /\ Fixed(a, l).from = a /\ Fixed(a, l).len = l
    /\ Fixed(a, l).partial = FALSE
BY DEF Partial, Fixed, Chunks

LEMMA Sizes ==
  /\ HeaderLen \in Nat /\ MaxTotal \in Nat
  /\ MinPartial \in Nat /\ MinPartial > 0 /\ PacketSize \in Nat
  /\ PacketSize >= MinPartial /\ HeaderLen < MinPartial
<1>1. \A p \in PartialLengths : p \in Nat /\ p > 0 BY PartialConstants
<1> QED BY <1>1, PartialConstants, PartialSizes

\* The numbers of a state.
LEMMA StateNumbers ==
  TypeOK =>
    /\ accepted \in Nat /\ buffer \in Nat /\ buffer < PacketSize
    /\ left.at \in Nat /\ left.len \in Nat /\ rest.at \in Nat /\ rest.len \in Nat
    /\ Header \in Nat
BY Sizes DEF TypeOK, Header

LEMMA StoreTyped ==
  ASSUME TypeOK, Shape, NEW n \in 0 .. MaxTotal, Store(n) PROVE TypeOK' /\ Shape'
<1>1. /\ UNCHANGED <<pc, written_first, left, rest, out, intact, trailer>>
      /\ Stored(n) /\ pc = "open"
      /\ accepted' = accepted + n /\ accepted + n <= HeaderLen + MaxTotal
      /\ buffer' = buffer + n
      /\ call' = "store" /\ ok' = TRUE /\ fault' = FALSE /\ errors' = FALSE
  BY DEF Store, Taken
<1>2. buffer + n < PacketSize BY <1>1, Sizes, StateNumbers DEF Stored
<1>3. accepted' \in Nat /\ buffer' \in Nat /\ Header' = Header BY <1>1, StateNumbers DEF Header
<1>4. TypeOK' BY <1>1, <1>2, <1>3 DEF TypeOK
<1>5. left.len + rest.len + buffer' + Header' <= accepted'
 <2>1. left.len + rest.len + buffer + Header <= accepted BY DEF Shape
 <2> QED BY <1>1, <1>3, <2>1, StateNumbers
<1> QED BY <1>1, <1>4, <1>5 DEF Shape

LEMMA WriteFirstTyped ==
  ASSUME TypeOK, Shape, NEW n \in 0 .. MaxTotal, WriteFirst(n) PROVE TypeOK' /\ Shape'
<1> DEFINE total == HeaderLen + buffer + n
<1> DEFINE len == ops_calc_partial_data_length(total)
<1>1. /\ ~written_first /\ ~Stored(n) /\ pc = "open"
      /\ accepted' = accepted + n /\ accepted + n <= HeaderLen + MaxTotal
      /\ written_first' = TRUE /\ buffer' = 0
      /\ call' = "first" /\ rest' = Nothing /\ trailer' = trailer
      /\ intact' \in BOOLEAN
  BY DEF WriteFirst, Taken
<1>2. left = Nothing /\ rest = Nothing /\ out = <<>> BY <1>1 DEF Shape
<1>3. total \in 1 .. accepted' /\ accepted' \in Nat
  BY <1>1, <1>2, Sizes, StateNumbers, SpanFields DEF Stored, Shape, Header
<1>4. total \in 1 .. HeaderLen + MaxTotal BY <1>1, <1>3, Sizes
<1>5. len \in Nat /\ len > 0 /\ len <= total BY <1>4, PartialLengthFits
<1>6. \/ /\ out' = <<Partial(0, len)>> /\ ok' = TRUE /\ fault' = FALSE /\ errors' = FALSE
         /\ left' = IF total = len THEN Nothing ELSE Span(len, total - len)
         /\ pc' = IF total = len THEN "open" ELSE "writing"
      \/ /\ ok' = FALSE /\ fault' = TRUE /\ errors' = TRUE
         /\ UNCHANGED <<pc, out, left>>
  BY DEF WriteFirst
<1>7. Header' = 0 /\ rest'.len = 0 BY <1>1, SpanFields DEF Header
<1> HIDE DEF total, len
<1>8. CASE /\ out' = <<Partial(0, len)>> /\ ok' = TRUE /\ fault' = FALSE /\ errors' = FALSE
           /\ left' = IF total = len THEN Nothing ELSE Span(len, total - len)
           /\ pc' = IF total = len THEN "open" ELSE "writing"
 <2>1. out' \in Seq(Chunks) BY <1>5, <1>8, ChunkFields
 <2>2. /\ left' \in Spans /\ left'.len = total - len
       /\ total # len => left'.len > 0
   BY <1>3, <1>5, <1>8, SpanFields
 <2>3. TypeOK'
  <3>1. {left', rest'} \subseteq Spans BY <1>1, <2>2, SpanFields
  <3>2. {ok', fault', intact', errors', trailer'} \subseteq BOOLEAN BY <1>1, <1>8 DEF TypeOK
  <3>3. /\ pc' \in {"open", "writing", "closed"} /\ written_first' \in BOOLEAN
        /\ call' \in {"store", "first", "flush", "last"}
    BY <1>1, <1>8
  <3>4. buffer' \in Nat /\ buffer' < PacketSize BY <1>1, Sizes
  <3> QED BY <1>3, <2>1, <3>1, <3>2, <3>3, <3>4 DEF TypeOK, Spans
 <2>4. left'.len + rest'.len + buffer' + Header' <= accepted' BY <1>1, <1>3, <1>5, <1>7, <2>2
 <2> QED BY <1>1, <1>8, <2>2, <2>3, <2>4 DEF Shape
<1>9. CASE /\ ok' = FALSE /\ fault' = TRUE /\ errors' = TRUE
           /\ UNCHANGED <<pc, out, left>>
 <2>1. TypeOK'
  <3>1. {left', rest'} \subseteq Spans BY <1>1, <1>2, <1>9, SpanFields
  <3>2. {ok', fault', intact', errors', trailer'} \subseteq BOOLEAN BY <1>1, <1>9 DEF TypeOK
  <3>3. /\ pc' \in {"open", "writing", "closed"} /\ written_first' \in BOOLEAN
        /\ call' \in {"store", "first", "flush", "last"} /\ out' \in Seq(Chunks)
    BY <1>1, <1>9 DEF TypeOK
  <3>4. buffer' \in Nat /\ buffer' < PacketSize BY <1>1, Sizes
  <3> QED BY <1>3, <3>1, <3>2, <3>3, <3>4 DEF TypeOK, Spans
 <2>2. left'.len + rest'.len + buffer' + Header' <= accepted'
   BY <1>1, <1>2, <1>3, <1>7, <1>9, SpanFields
 <2> QED BY <1>1, <1>2, <1>9, <2>1, <2>2 DEF Shape
<1> QED BY <1>6, <1>8, <1>9

LEMMA FlushTyped ==
  ASSUME TypeOK, Shape, NEW n \in 0 .. MaxTotal, Flush(n) PROVE TypeOK' /\ Shape'
<1>1. /\ UNCHANGED <<written_first, out, ok, intact, trailer>>
      /\ written_first /\ ~Stored(n) /\ pc = "open"
      /\ accepted' = accepted + n /\ accepted + n <= HeaderLen + MaxTotal
      /\ buffer' = 0 /\ pc' = "writing"
      /\ call' = "flush" /\ fault' = FALSE /\ errors' = FALSE
  BY DEF Flush, Taken
<1>2. accepted' \in Nat /\ Header = 0 /\ Header' = 0 /\ n \in Nat
  BY <1>1, StateNumbers, Sizes DEF Header
<1>3. accepted - buffer \in Nat /\ buffer + n > 0
  BY <1>1, <1>2, Sizes, StateNumbers DEF Stored, Shape
<1>4. /\ Buffered \in Spans /\ Buffered.len = buffer
      /\ Given(n) \in Spans /\ Given(n).len = n
  BY <1>2, <1>3, StateNumbers, SpanFields DEF Buffered, Given
<1>5. IF Buffered.len > 0
        THEN left' = Buffered /\ rest' = IF Given(n).len > 0 THEN Given(n) ELSE Nothing
        ELSE left' = Given(n) /\ rest' = Nothing
  BY DEF Flush, FlushOrder
<1>6. /\ left' \in Spans /\ rest' \in Spans /\ left'.len > 0
      /\ left'.len + rest'.len = buffer + n
      /\ rest' # Nothing => rest'.len > 0
  BY <1>2, <1>3, <1>4, <1>5, StateNumbers, SpanFields
<1>7. TypeOK'
 <2>1. {left', rest'} \subseteq Spans BY <1>6
 <2>2. {ok', fault', intact', errors', trailer'} \subseteq BOOLEAN BY <1>1 DEF TypeOK
 <2>3. /\ pc' \in {"open", "writing", "closed"} /\ written_first' \in BOOLEAN
       /\ call' \in {"store", "first", "flush", "last"} /\ out' \in Seq(Chunks)
   BY <1>1 DEF TypeOK
 <2>4. buffer' \in Nat /\ buffer' < PacketSize BY <1>1, Sizes
 <2> QED BY <1>2, <2>1, <2>2, <2>3, <2>4 DEF TypeOK, Spans
<1>8. left'.len + rest'.len + buffer' + Header' <= accepted'
  BY <1>1, <1>2, <1>6, StateNumbers DEF Shape, Spans
<1> QED BY <1>1, <1>6, <1>7, <1>8 DEF Shape

LEMMA WriteChunkTyped ==
  ASSUME TypeOK, Shape, WriteChunk PROVE TypeOK' /\ Shape'
<1> DEFINE len == ops_calc_partial_data_length(left.len)
<1>1. /\ UNCHANGED <<accepted, buffer, written_first, call, trailer>>
      /\ pc = "writing" /\ written_first /\ left.len > 0
  BY DEF WriteChunk, Shape
<1>2. left.len \in 1 .. HeaderLen + MaxTotal
 <2>1. /\ accepted <= HeaderLen + MaxTotal
       /\ left.len + rest.len + buffer + Header <= accepted
   BY DEF Shape
 <2> QED BY <1>1, <2>1, StateNumbers, Sizes
<1>3. len \in Nat /\ len > 0 /\ len <= left.len BY <1>2, PartialLengthFits
<1>4. PICK good \in BOOLEAN :
        /\ intact' = (intact /\ good)
        /\ out' = IF good THEN Append(out, Partial(left.at, len)) ELSE out
        /\ fault' = (fault \/ ~good)
        /\ errors' = (errors \/ (~good /\ call = "first"))
        /\ \/ /\ left.len > len
              /\ left' = Span(left.at + len, left.len - len)
              /\ UNCHANGED <<rest, pc, ok>>
           \/ /\ ~(left.len > len)
              /\ left' = rest /\ rest' = Nothing
              /\ pc' = IF rest = Nothing THEN "open" ELSE "writing"
              /\ ok' = IF rest = Nothing THEN TRUE ELSE ok
  BY DEF WriteChunk
<1>5. good \in BOOLEAN OBVIOUS
<1> HIDE DEF len
<1>6. out' \in Seq(Chunks)
 <2>1. Partial(left.at, len) \in Chunks /\ out \in Seq(Chunks)
   BY <1>3, StateNumbers, ChunkFields DEF TypeOK
 <2> QED BY <1>4, <2>1, ChunkAppended
<1>7. {ok', fault', intact', errors', trailer'} \subseteq BOOLEAN
 <2>1. {ok, fault, intact, errors, trailer} \subseteq BOOLEAN BY DEF TypeOK
 <2> QED BY <1>1, <1>4, <1>5, <2>1
<1>8. /\ left' \in Spans /\ rest' \in Spans
      /\ left'.len + rest'.len <= left.len + rest.len
 <2>1. rest \in Spans /\ rest.len \in Nat BY StateNumbers DEF TypeOK, Spans
 <2>2. CASE left' = Span(left.at + len, left.len - len) /\ rest' = rest
  <3>1. left'.len = left.len - len /\ left' \in Spans BY <1>3, <2>2, StateNumbers, SpanFields
  <3> QED BY <1>3, <2>1, <2>2, <3>1, StateNumbers
 <2>3. CASE left' = rest /\ rest' = Nothing BY <2>1, <2>3, StateNumbers, SpanFields
 <2> QED BY <1>4, <2>2, <2>3
<1>9. /\ pc' \in {"open", "writing", "closed"}
      /\ pc' = "writing" => written_first' /\ left'.len > 0
      /\ pc' # "writing" => left' = Nothing /\ rest' = Nothing
      /\ rest' # Nothing => rest'.len > 0
 <2>1. rest # Nothing => rest.len > 0 BY DEF Shape
 <2>2. CASE /\ left.len > len /\ left' = Span(left.at + len, left.len - len)
            /\ UNCHANGED <<rest, pc, ok>>
  <3>1. left'.len > 0 BY <1>3, <2>2, StateNumbers, SpanFields
  <3> QED BY <1>1, <2>1, <2>2, <3>1
 <2>3. CASE /\ left' = rest /\ rest' = Nothing
            /\ pc' = IF rest = Nothing THEN "open" ELSE "writing"
   BY <1>1, <2>1, <2>3
 <2> QED BY <1>4, <2>2, <2>3
<1>10. TypeOK'
 <2>1. /\ accepted' \in Nat /\ buffer' \in Nat /\ buffer' < PacketSize BY <1>1, StateNumbers
 <2>2. written_first' \in BOOLEAN /\ call' \in {"store", "first", "flush", "last"}
   BY <1>1 DEF TypeOK
 <2> QED BY <1>6, <1>7, <1>8, <1>9, <2>1, <2>2 DEF TypeOK, Spans
<1>11. left'.len + rest'.len + buffer' + Header' <= accepted'
 <2>1. Header' = Header BY <1>1 DEF Header
 <2>2. left.len + rest.len + buffer + Header <= accepted BY DEF Shape
 <2>3. left'.len \in Nat /\ rest'.len \in Nat BY <1>8 DEF Spans
 <2> QED BY <1>1, <1>8, <2>1, <2>2, <2>3, StateNumbers
<1>12. accepted' <= HeaderLen + MaxTotal BY <1>1 DEF Shape
<1> QED BY <1>1, <1>9, <1>10, <1>11, <1>12 DEF Shape

\* The chunk that ends the packet.
LEMMA LastChunkIsOne ==
  ASSUME TypeOK, Shape
  PROVE  /\ Decoded \in Nat
         /\ \E c \in Chunks :
              /\ LastChunk = <<c>> /\ ~c.partial
              /\ c.len = buffer + Header
              /\ c.from = IF written_first THEN accepted - buffer ELSE 0
<1>1. Decoded \in Nat BY DecodedIsNat
<1>2. CASE written_first
 <2>1. accepted - buffer \in Nat /\ Header = 0
  <3>1. left.len + rest.len + buffer + Header <= accepted /\ Header = 0
    BY <1>2 DEF Shape, Header
  <3> QED BY <3>1, StateNumbers
 <2>2. Buffered.at = accepted - buffer BY <2>1, StateNumbers, SpanFields DEF Buffered
 <2>3. LastChunk = <<Fixed(Buffered.at, buffer)>> BY <1>2 DEF LastChunk
 <2> QED BY <1>1, <1>2, <2>1, <2>2, <2>3, StateNumbers, ChunkFields
<1>3. CASE ~written_first
 <2>1. LastChunk = <<Fixed(0, HeaderLen + buffer)>> /\ Header = HeaderLen
   BY <1>3 DEF LastChunk, Header
 <2>2. HeaderLen + buffer \in Nat BY StateNumbers, Sizes
 <2> QED BY <1>1, <1>3, <2>1, <2>2, StateNumbers, Sizes, ChunkFields, SMTT(30)
<1> QED BY <1>2, <1>3

LEMMA FinaliseTyped ==
  ASSUME TypeOK, Shape, Finalise PROVE TypeOK' /\ Shape'
<1>1. /\ UNCHANGED <<accepted, written_first, left, rest>>
      /\ pc = "open" /\ pc' = "closed" /\ call' = "last" /\ buffer' = 0
  BY DEF Finalise
<1>2. PICK body, after \in BOOLEAN :
        /\ intact' = (intact /\ body)
        /\ out' = IF body THEN out \o LastChunk ELSE out
        /\ trailer' = (body /\ after)
        /\ ok' = (body /\ after)
        /\ fault' = ~(body /\ after) /\ errors' = ~(body /\ after)
  BY DEF Finalise, LastResult
<1>3. out' \in Seq(Chunks)
 <2>1. PICK c \in Chunks : LastChunk = <<c>> BY LastChunkIsOne
 <2>2. out \in Seq(Chunks) BY DEF TypeOK
 <2> QED BY <1>2, <2>1, <2>2, ChunkAppended
<1>4. {ok', fault', intact', errors', trailer'} \subseteq BOOLEAN BY <1>2 DEF TypeOK
<1>5. {left', rest'} \subseteq Spans /\ left' = Nothing /\ rest' = Nothing
  BY <1>1, SpanFields DEF Shape
<1>6. TypeOK'
 <2>1. /\ accepted' \in Nat /\ buffer' \in Nat /\ buffer' < PacketSize
   BY <1>1, StateNumbers, Sizes
 <2>2. written_first' \in BOOLEAN BY <1>1 DEF TypeOK
 <2> QED BY <1>1, <1>3, <1>4, <1>5, <2>1, <2>2 DEF TypeOK, Spans
<1>7. left'.len + rest'.len + buffer' + Header' <= accepted'
 <2>1. Header' = Header BY <1>1 DEF Header
 <2>2. left.len + rest.len + buffer + Header <= accepted BY DEF Shape
 <2> QED BY <1>1, <2>1, <2>2, StateNumbers
<1>8. accepted' <= HeaderLen + MaxTotal BY <1>1 DEF Shape
<1> QED BY <1>1, <1>5, <1>6, <1>7, <1>8 DEF Shape

-----------------------------------------------------------------------------
(* Until a write fails every action keeps the chunks and what is not       *)
(* written yet in one line, and does what a byte stream may do.            *)

\* What is shown never goes back, and never beyond what was taken.
Shows == \/ /\ ~(pc = "closed") /\ ~(pc' = "closed")
            /\ accepted <= accepted' /\ Decoded <= Decoded' /\ Decoded' <= accepted'
         \/ /\ ~(pc = "closed") /\ pc' = "closed"
            /\ Decoded' = accepted' /\ accepted' = accepted

InLine == ChunksTile /\ NothingLost

LEMMA StoreInLine ==
  ASSUME TypeOK, Shape, InLine, intact, intact', NEW n \in 0 .. MaxTotal, Store(n)
  PROVE  InLine' /\ Shows
<1>1. /\ UNCHANGED <<pc, written_first, left, rest, out>> /\ pc = "open"
      /\ accepted' = accepted + n /\ buffer' = buffer + n
  BY DEF Store, Taken
<1>2. Decoded' = Decoded /\ Decoded \in Nat BY <1>1, DecodedIsNat DEF Decoded
<1>3. ChunksTile' BY <1>1 DEF InLine, ChunksTile
<1>4. /\ left = Nothing /\ rest = Nothing
      /\ accepted = Decoded + left.len + rest.len + buffer + Header
  BY <1>1 DEF Shape, InLine, NothingLost, Header
<1>5. Header' = Header BY <1>1 DEF Header
<1>6. /\ accepted' = Decoded' + left'.len + rest'.len + buffer' + Header'
      /\ Decoded' <= accepted' /\ accepted <= accepted'
  BY <1>1, <1>2, <1>4, <1>5, StateNumbers, SpanFields
<1>7. NothingLost' BY <1>1, <1>4, <1>6 DEF NothingLost, Header
<1>8. Shows BY <1>1, <1>2, <1>6 DEF Shows
<1> QED BY <1>3, <1>7, <1>8 DEF InLine

LEMMA WriteFirstInLine ==
  ASSUME TypeOK, Shape, InLine, intact, intact', NEW n \in 0 .. MaxTotal, WriteFirst(n)
  PROVE  InLine' /\ Shows
<1> DEFINE total == HeaderLen + buffer + n
<1> DEFINE len == ops_calc_partial_data_length(total)
<1>1. /\ ~written_first /\ ~Stored(n) /\ pc = "open"
      /\ accepted' = accepted + n /\ accepted + n <= HeaderLen + MaxTotal
      /\ written_first' = TRUE /\ buffer' = 0 /\ rest' = Nothing
  BY DEF WriteFirst, Taken
<1>2. /\ out' = <<Partial(0, len)>>
      /\ left' = IF total = len THEN Nothing ELSE Span(len, total - len)
      /\ pc' = IF total = len THEN "open" ELSE "writing"
 <2>1. PICK good \in BOOLEAN :
         /\ intact' = (intact /\ good)
         /\ good => /\ out' = <<Partial(0, len)>>
                    /\ left' = IF total = len THEN Nothing ELSE Span(len, total - len)
                    /\ pc' = IF total = len THEN "open" ELSE "writing"
   BY DEF WriteFirst
 <2>2. good = TRUE BY <2>1
 <2> QED BY <2>1, <2>2
<1>3. left = Nothing /\ rest = Nothing /\ out = <<>> /\ Decoded = 0 BY <1>1 DEF Shape, Decoded
<1>4. accepted = HeaderLen + buffer
  BY <1>1, <1>3, StateNumbers, Sizes, SpanFields DEF InLine, NothingLost
<1>5. total = accepted' /\ accepted' \in Nat /\ total \in 1 .. HeaderLen + MaxTotal
  BY <1>1, <1>4, Sizes, StateNumbers DEF Stored
<1>6. len \in Nat /\ len > 0 /\ len <= total BY <1>5, PartialLengthFits
<1> HIDE DEF total, len
<1>7. /\ out' = Append(out, Partial(0, len)) /\ Partial(0, len) \in Chunks
      /\ End(Partial(0, len)) = len /\ Partial(0, len).from = Decoded
  BY <1>2, <1>3, <1>6, ChunkFields DEF End
<1>8. Decoded' = len /\ ChunksTile' BY <1>7, ChunkTiles DEF InLine
<1>9. /\ left'.len = total - len
      /\ left' # Nothing => left'.at = len
  BY <1>2, <1>5, <1>6, SpanFields
<1>10. NothingLost'
 <2>1. rest'.len = 0 BY <1>1, SpanFields
 <2>2. accepted' = Decoded' + left'.len + rest'.len + buffer' + 0
   BY <1>1, <1>5, <1>6, <1>8, <1>9, <2>1
 <2> QED BY <1>1, <1>8, <1>9, <2>2 DEF NothingLost
<1>11. Shows
 <2>1. pc' # "closed" /\ pc # "closed" BY <1>1, <1>2
 <2>2. accepted <= accepted' /\ Decoded <= Decoded' /\ Decoded' <= accepted'
   BY <1>1, <1>3, <1>5, <1>6, <1>8, StateNumbers
 <2> QED BY <2>1, <2>2 DEF Shows
<1> QED BY <1>8, <1>10, <1>11 DEF InLine

LEMMA FlushInLine ==
  ASSUME TypeOK, Shape, InLine, intact, intact', NEW n \in 0 .. MaxTotal, Flush(n)
  PROVE  InLine' /\ Shows
<1>1. /\ written_first' = written_first /\ out' = out
      /\ written_first /\ pc = "open" /\ ~Stored(n)
      /\ accepted' = accepted + n /\ buffer' = 0 /\ pc' = "writing"
  BY DEF Flush, Taken
<1>2. Decoded' = Decoded /\ Decoded \in Nat BY <1>1, DecodedIsNat DEF Decoded
<1>3. ChunksTile' BY <1>1 DEF InLine, ChunksTile
<1>4. left = Nothing /\ rest = Nothing BY <1>1 DEF Shape
<1>5. accepted = Decoded + buffer
  BY <1>1, <1>2, <1>4, StateNumbers, SpanFields DEF InLine, NothingLost
<1>6. accepted - buffer = Decoded BY <1>2, <1>5, StateNumbers
<1>7. /\ Buffered.at = Decoded /\ Buffered.len = buffer
      /\ Given(n).at = accepted /\ Given(n).len = n
  BY <1>2, <1>6, StateNumbers, SpanFields DEF Buffered, Given
<1>8. IF Buffered.len > 0
        THEN left' = Buffered /\ rest' = IF Given(n).len > 0 THEN Given(n) ELSE Nothing
        ELSE left' = Given(n) /\ rest' = Nothing
  BY DEF Flush, FlushOrder
<1>9. /\ left'.at = Decoded /\ left'.len + rest'.len = buffer + n
      /\ rest' # Nothing => rest'.at = Decoded + left'.len
      /\ left'.len \in Nat /\ rest'.len \in Nat
 <2>1. CASE buffer > 0 BY <1>5, <1>7, <1>8, <2>1, StateNumbers, SpanFields
 <2>2. CASE buffer = 0 BY <1>2, <1>5, <1>7, <1>8, <2>2, StateNumbers, SpanFields
 <2> QED BY <2>1, <2>2, StateNumbers
<1>10. NothingLost'
 <2>1. accepted' = Decoded' + left'.len + rest'.len + buffer' + 0
   BY <1>1, <1>2, <1>5, <1>9, StateNumbers
 <2> QED BY <1>1, <1>2, <1>9, <2>1 DEF NothingLost
<1>11. Shows
 <2>1. accepted <= accepted' /\ Decoded <= Decoded' /\ Decoded' <= accepted'
   BY <1>1, <1>2, <1>5, StateNumbers
 <2> QED BY <1>1, <2>1 DEF Shows
<1> QED BY <1>3, <1>10, <1>11 DEF InLine

LEMMA WriteChunkInLine ==
  ASSUME TypeOK, Shape, InLine, intact, intact', WriteChunk PROVE InLine' /\ Shows
<1> DEFINE len == ops_calc_partial_data_length(left.len)
<1>1. /\ UNCHANGED <<accepted, buffer, written_first>>
      /\ pc = "writing" /\ written_first /\ left.len > 0
      /\ left # Nothing
  BY SpanFields, StateNumbers DEF WriteChunk, Shape
<1>2. left.len \in 1 .. HeaderLen + MaxTotal
 <2>1. /\ accepted <= HeaderLen + MaxTotal
       /\ left.len + rest.len + buffer + Header <= accepted
   BY DEF Shape
 <2> QED BY <1>1, <2>1, StateNumbers, Sizes
<1>3. len \in Nat /\ len > 0 /\ len <= left.len BY <1>2, PartialLengthFits
<1>4. /\ out' = Append(out, Partial(left.at, len))
      /\ \/ /\ left.len > len
            /\ left' = Span(left.at + len, left.len - len)
            /\ rest' = rest /\ pc' = pc
         \/ /\ ~(left.len > len)
            /\ left' = rest /\ rest' = Nothing
            /\ pc' = IF rest = Nothing THEN "open" ELSE "writing"
 <2>1. PICK good \in BOOLEAN :
         /\ intact' = (intact /\ good)
         /\ out' = IF good THEN Append(out, Partial(left.at, len)) ELSE out
         /\ \/ /\ left.len > len
               /\ left' = Span(left.at + len, left.len - len)
               /\ rest' = rest /\ pc' = pc
            \/ /\ ~(left.len > len)
               /\ left' = rest /\ rest' = Nothing
               /\ pc' = IF rest = Nothing THEN "open" ELSE "writing"
   BY DEF WriteChunk
 <2>2. good = TRUE BY <2>1
 <2> QED BY <2>1, <2>2
<1> HIDE DEF len
<1>5. /\ left.at = Decoded
      /\ rest # Nothing => rest.at = Decoded + left.len
      /\ accepted = Decoded + left.len + rest.len + buffer + 0
  BY <1>1 DEF InLine, NothingLost
<1>6. /\ Partial(left.at, len) \in Chunks
      /\ Partial(left.at, len).from = Decoded
      /\ End(Partial(left.at, len)) = left.at + len
  BY <1>3, <1>5, StateNumbers, ChunkFields DEF End
<1>7. Decoded' = left.at + len /\ ChunksTile' BY <1>4, <1>6, ChunkTiles DEF InLine
<1>8. NothingLost'
 <2>1. CASE /\ left.len > len
            /\ left' = Span(left.at + len, left.len - len) /\ rest' = rest
  <3>1. left'.at = left.at + len /\ left'.len = left.len - len
    BY <1>3, <2>1, StateNumbers, SpanFields
  <3>2. left'.at = Decoded' BY <1>7, <3>1
  <3>3. rest' # Nothing => rest'.at = Decoded' + left'.len
    BY <1>3, <1>5, <1>7, <2>1, <3>1, StateNumbers
  <3>4. accepted' = Decoded' + left'.len + rest'.len + buffer' + 0
    BY <1>1, <1>3, <1>5, <1>7, <2>1, <3>1, StateNumbers
  <3> QED BY <1>1, <3>2, <3>3, <3>4 DEF NothingLost
 <2>2. CASE ~(left.len > len) /\ left' = rest /\ rest' = Nothing
  <3>1. len = left.len BY <1>3, <2>2, StateNumbers
  <3>2. left' # Nothing => left'.at = Decoded' BY <1>5, <1>7, <2>2, <3>1
  <3>3. rest'.len = 0 BY <2>2, SpanFields
  <3>4. accepted' = Decoded' + left'.len + rest'.len + buffer' + 0
    BY <1>1, <1>5, <1>7, <2>2, <3>1, <3>3, StateNumbers
  <3> QED BY <1>1, <2>2, <3>2, <3>4 DEF NothingLost
 <2> QED BY <1>4, <2>1, <2>2
<1>9. Shows
 <2>1. accepted <= accepted' /\ Decoded <= Decoded' /\ Decoded' <= accepted'
   BY <1>1, <1>3, <1>5, <1>7, StateNumbers
 <2>2. pc # "closed" /\ pc' # "closed" BY <1>1, <1>4
 <2> QED BY <2>1, <2>2 DEF Shows
<1> QED BY <1>7, <1>8, <1>9 DEF InLine

LEMMA FinaliseInLine ==
  ASSUME TypeOK, Shape, InLine, intact, intact', Finalise PROVE InLine' /\ Shows
<1>1. /\ pc = "open" /\ pc' = "closed" /\ accepted' = accepted
      /\ left = Nothing /\ rest = Nothing
  BY DEF Finalise, Shape
<1>2. out' = out \o LastChunk
 <2>1. PICK body \in BOOLEAN :
         /\ intact' = (intact /\ body)
         /\ out' = IF body THEN out \o LastChunk ELSE out
   BY DEF Finalise
 <2>2. body = TRUE BY <2>1
 <2> QED BY <2>1, <2>2
<1>3. PICK c \in Chunks :
        /\ LastChunk = <<c>> /\ c.len = buffer + Header
        /\ c.from = IF written_first THEN accepted - buffer ELSE 0
  BY LastChunkIsOne
<1>4. out' = Append(out, c) BY <1>2, <1>3, ChunkAppended DEF TypeOK
<1>5. accepted = Decoded + buffer + Header /\ Decoded \in Nat
 <2>1. accepted = Decoded + left.len + rest.len + buffer + Header
   BY <1>1 DEF InLine, NothingLost, Header
 <2> QED BY <1>1, <2>1, StateNumbers, SpanFields, DecodedIsNat
<1>6. c.from = Decoded
 <2>1. CASE written_first
  <3>1. Header = 0 BY <2>1 DEF Header
  <3> QED BY <1>3, <1>5, <2>1, <3>1, StateNumbers
 <2>2. CASE ~written_first
  <3>1. out = <<>> BY <1>1, <2>2 DEF Shape
  <3> QED BY <1>3, <2>2, <3>1 DEF Decoded
 <2> QED BY <2>1, <2>2
<1>7. Decoded' = accepted /\ ChunksTile'
 <2>1. Decoded' = End(c) /\ ChunksTile' BY <1>4, <1>6, ChunkTiles DEF InLine
 <2>2. End(c) = accepted BY <1>3, <1>5, <1>6, StateNumbers DEF End
 <2> QED BY <2>1, <2>2
<1>8. NothingLost' BY <1>1 DEF NothingLost
<1> QED BY <1>1, <1>7, <1>8 DEF InLine, Shows

-----------------------------------------------------------------------------
(* The format of the packet.  That the first chunk is long enough has to be *)
(* kept through the loop, which may only append: Started says that there is *)
(* a first chunk by then, unless it failed.                                 *)

Started == intact /\ written_first => out # <<>>
Formed == WellFormed /\ Started

LEMMA PartialAppended ==
  ASSUME TypeOK, WellFormed, NEW c \in Chunks, out' = Append(out, c),
         c.partial = TRUE, c.len \in PartialLengths,
         pc # "closed", pc' # "closed", intact' => intact,
         intact' /\ out = <<>> => c.len >= MinPartial
  PROVE  WellFormed' /\ out' # <<>>
<1>1. out \in Seq(Chunks) /\ Len(out) \in Nat BY DEF TypeOK
<1>2. /\ Len(out') = Len(out) + 1 /\ out' # <<>> /\ out'[Len(out) + 1] = c
      /\ \A i \in 1 .. Len(out) : out'[i] = out[i]
      /\ DOMAIN out' = 1 .. Len(out) + 1 /\ DOMAIN out = 1 .. Len(out)
  BY <1>1, ChunkAppended
<1>3. ASSUME NEW i \in DOMAIN out'
      PROVE  out'[i].partial = TRUE /\ out'[i].len \in PartialLengths
 <2>1. CASE i = Len(out) + 1 BY <1>2, <2>1
 <2>2. CASE i # Len(out) + 1
  <3>1. i \in DOMAIN out /\ out'[i] = out[i] /\ out[i] \in Chunks BY <1>1, <1>2, <2>2
  <3>2. out[i].partial = TRUE BY <3>1 DEF WellFormed, Chunks
  <3>3. out[i].len \in PartialLengths BY <3>1, <3>2 DEF WellFormed
  <3> QED BY <3>1, <3>2, <3>3
 <2> QED BY <2>1, <2>2
<1>4. ASSUME intact' PROVE out'[1].len >= MinPartial
 <2>1. CASE out = <<>>
  <3>1. Len(out) = 0 BY <2>1
  <3> QED BY <1>2, <1>4, <2>1, <3>1
 <2>2. CASE out # <<>>
  <3>1. 1 \in DOMAIN out /\ out'[1] = out[1] /\ out[1] \in Chunks BY <1>1, <1>2, <2>2
  <3>2. out[1].partial = TRUE BY <3>1 DEF WellFormed, Chunks
  <3> QED BY <1>4, <2>2, <3>1, <3>2 DEF WellFormed
 <2> QED BY <2>1, <2>2
<1> QED BY <1>2, <1>3, <1>4 DEF WellFormed

\* A length of MinPartial or more has MinPartial among the powers of two that
\* fit, and the largest is taken.
LEMMA FirstIsLongEnough ==
  ASSUME NEW len \in 1 .. HeaderLen + MaxTotal, len >= MinPartial
  PROVE  ops_calc_partial_data_length(len) >= MinPartial
<1> DEFINE Fits(p) == p <= len /\ \A q \in PartialLengths : q <= len => q <= p
<1>1. \E p \in PartialLengths : Fits(p) BY PartialLengthsCover
<1>2. ops_calc_partial_data_length(len) = CHOOSE p \in PartialLengths : Fits(p)
  BY DEF ops_calc_partial_data_length
<1>3. Fits(ops_calc_partial_data_length(len)) BY <1>1, <1>2
<1>4. MinPartial \in PartialLengths /\ MinPartial <= len BY PartialConstants, Sizes
<1> QED BY <1>3, <1>4

LEMMA WriteFirstFormed ==
  ASSUME TypeOK, Shape, Formed, NEW n \in 0 .. MaxTotal, WriteFirst(n) PROVE Formed'
<1> DEFINE total == HeaderLen + buffer + n
<1> DEFINE len == ops_calc_partial_data_length(total)
<1>1. /\ ~written_first /\ ~Stored(n) /\ pc = "open" /\ out = <<>>
      /\ accepted + n <= HeaderLen + MaxTotal
  BY DEF WriteFirst, Taken, Shape
<1>2. total \in 1 .. HeaderLen + MaxTotal /\ total >= MinPartial
 <2>1. left = Nothing /\ rest = Nothing /\ HeaderLen + buffer <= accepted
   BY <1>1, StateNumbers, SpanFields, Sizes DEF Shape, Header
 <2> QED BY <1>1, <2>1, StateNumbers, Sizes, SMTT(30) DEF Stored
<1>3. len \in PartialLengths /\ len \in Nat /\ len >= MinPartial
  BY <1>2, PartialLengthFits, FirstIsLongEnough
<1>4. PICK good \in BOOLEAN :
        /\ intact' = (intact /\ good)
        /\ good => /\ out' = <<Partial(0, len)>>
                   /\ pc' = IF total = len THEN "open" ELSE "writing"
        /\ ~good => UNCHANGED <<pc, out>>
  BY DEF WriteFirst
<1> HIDE DEF total, len
<1>5. CASE good = TRUE
 <2>1. /\ Partial(0, len) \in Chunks /\ Partial(0, len).partial = TRUE
       /\ Partial(0, len).len = len /\ out' = Append(out, Partial(0, len))
   BY <1>1, <1>3, <1>4, <1>5, ChunkFields
 <2>2. pc # "closed" /\ pc' # "closed" /\ (intact' => intact) BY <1>1, <1>4, <1>5
 <2>3. WellFormed' /\ out' # <<>> BY <1>3, <2>1, <2>2, PartialAppended DEF Formed
 <2> QED BY <2>3 DEF Formed, Started
<1>6. CASE good = FALSE
 <2>1. intact' = FALSE /\ out' = out /\ pc' = pc BY <1>4, <1>6
 <2> QED BY <1>1, <2>1 DEF Formed, Started, WellFormed
<1> QED BY <1>5, <1>6

LEMMA WriteChunkFormed ==
  ASSUME TypeOK, Shape, Formed, WriteChunk PROVE Formed'
<1> DEFINE len == ops_calc_partial_data_length(left.len)
<1>1. pc = "writing" /\ written_first /\ left.len \in 1 .. HeaderLen + MaxTotal
 <2>1. /\ accepted <= HeaderLen + MaxTotal /\ written_first /\ left.len > 0
       /\ left.len + rest.len + buffer + Header <= accepted
   BY DEF Shape, WriteChunk
 <2> QED BY <2>1, StateNumbers, Sizes DEF WriteChunk
<1>2. len \in PartialLengths /\ len \in Nat BY <1>1, PartialLengthFits
<1>3. PICK good \in BOOLEAN :
        /\ intact' = (intact /\ good)
        /\ out' = IF good THEN Append(out, Partial(left.at, len)) ELSE out
        /\ pc' = pc \/ pc' \in {"open", "writing"}
  BY DEF WriteChunk
<1>4. pc # "closed" /\ pc' # "closed" /\ (intact' => intact) BY <1>1, <1>3
<1> HIDE DEF len
<1>5. CASE good = TRUE
 <2>0. left.at \in Nat BY StateNumbers
 <2>1. /\ Partial(left.at, len) \in Chunks /\ Partial(left.at, len).partial = TRUE
       /\ Partial(left.at, len).len = len
   BY <1>2, <2>0, ChunkFields
 <2>4. out' = Append(out, Partial(left.at, len)) BY <1>3, <1>5
 <2>2. intact' => out # <<>> BY <1>1, <1>4 DEF Formed, Started
 <2>3. WellFormed' /\ out' # <<>> BY <1>2, <1>4, <2>1, <2>2, <2>4, PartialAppended DEF Formed
 <2> QED BY <2>3 DEF Formed, Started
<1>6. CASE good = FALSE
 <2>1. intact' = FALSE /\ out' = out BY <1>3, <1>6
 <2> QED BY <1>4, <2>1 DEF Formed, Started, WellFormed
<1> QED BY <1>5, <1>6

LEMMA FinaliseFormed ==
  ASSUME TypeOK, Shape, Formed, Finalise PROVE Formed'
<1>1. pc = "open" /\ pc' = "closed" BY DEF Finalise
<1>2. PICK body \in BOOLEAN :
        /\ intact' = (intact /\ body)
        /\ out' = IF body THEN out \o LastChunk ELSE out
  BY DEF Finalise
<1>3. PICK c \in Chunks : LastChunk = <<c>> /\ ~c.partial BY LastChunkIsOne
<1>4. out \in Seq(Chunks) /\ Len(out) \in Nat /\ DOMAIN out = 1 .. Len(out) BY DEF TypeOK
<1>5. ASSUME NEW i \in DOMAIN out
      PROVE  out[i].partial = TRUE /\ out[i].len \in PartialLengths
 <2>1. out[i] \in Chunks BY <1>4
 <2>2. out[i].partial = TRUE BY <1>1, <2>1 DEF Formed, WellFormed, Chunks
 <2> QED BY <2>2 DEF Formed, WellFormed
<1>6. CASE body = TRUE
 <2>1. out' = Append(out, c) /\ out' # <<>> BY <1>2, <1>3, <1>4, <1>6, ChunkAppended
 <2>2. /\ Len(out') = Len(out) + 1 /\ out'[Len(out) + 1] = c
       /\ \A i \in 1 .. Len(out) : out'[i] = out[i]
       /\ DOMAIN out' = 1 .. Len(out) + 1
   BY <1>4, <2>1, ChunkAppended
 <2>3. \A i \in DOMAIN out' : /\ out'[i].partial => out'[i].len \in PartialLengths
                              /\ out'[i].partial \/ i = Len(out')
  <3> SUFFICES ASSUME NEW i \in DOMAIN out'
               PROVE  /\ out'[i].partial => out'[i].len \in PartialLengths
                      /\ out'[i].partial \/ i = Len(out')
    OBVIOUS
  <3>1. CASE i = Len(out) + 1 BY <1>3, <2>2, <3>1
  <3>2. CASE i # Len(out) + 1
   <4>1. i \in DOMAIN out /\ out'[i] = out[i] BY <1>4, <2>2, <3>2
   <4> QED BY <1>5, <4>1
  <3> QED BY <3>1, <3>2
 <2>4. ASSUME intact', out'[1].partial PROVE out'[1].len >= MinPartial
  <3>1. 1 \in DOMAIN out /\ out'[1] = out[1] /\ out # <<>>
   <4>1. Len(out) # 0 BY <1>3, <2>2, <2>4
   <4> QED BY <1>4, <2>2, <4>1
  <3> QED BY <1>2, <1>5, <2>4, <3>1 DEF Formed, WellFormed
 <2>5. ~out'[Len(out')].partial BY <1>3, <2>2
 <2> QED BY <1>1, <2>1, <2>3, <2>4, <2>5 DEF Formed, Started, WellFormed
<1>7. CASE body = FALSE
 <2>1. intact' = FALSE /\ out' = out BY <1>2, <1>7
 <2> QED BY <1>5, <2>1 DEF Formed, Started, WellFormed
<1> QED BY <1>6, <1>7

LEMMA NextFormed ==
  ASSUME TypeOK, Shape, Formed, [Next]_vars PROVE Formed'
<1>1. CASE \E n \in 0 .. MaxTotal : Store(n) \/ Flush(n)
 <2>1. /\ UNCHANGED <<written_first, out, intact>>
       /\ pc = "open" /\ pc' # "closed"
   BY <1>1 DEF Store, Flush
 <2> QED BY <2>1 DEF Formed, Started, WellFormed
<1>2. CASE \E n \in 0 .. MaxTotal : WriteFirst(n) BY <1>2, WriteFirstFormed
<1>3. CASE WriteChunk BY <1>3, WriteChunkFormed
<1>4. CASE Finalise BY <1>4, FinaliseFormed
<1>5. CASE UNCHANGED vars BY <1>5 DEF vars, Formed, Started, WellFormed
<1> QED BY <1>1, <1>2, <1>3, <1>4, <1>5 DEF Next

-----------------------------------------------------------------------------
(* What the calls report.  Inside the loop the result is still open; that a *)
(* fault of the first call is on the caller's stack has to be known there.  *)

Reported ==
  /\ FailuresReported
  /\ pc = "writing" => call # "last" /\ (call = "first" /\ fault => errors)

LEMMA NextReported ==
  ASSUME TypeOK, Shape, Reported, [Next]_vars PROVE Reported'
<1>1. CASE \E n \in 0 .. MaxTotal : Store(n) \/ Flush(n)
  BY <1>1 DEF Store, Flush, Reported, FailuresReported
<1>2. CASE \E n \in 0 .. MaxTotal : WriteFirst(n)
 <2>1. /\ call' = "first" /\ pc = "open"
       /\ \/ ok' = TRUE /\ fault' = FALSE
          \/ fault' = TRUE /\ errors' = TRUE /\ pc' = pc
   BY <1>2 DEF WriteFirst
 <2> QED BY <2>1 DEF Reported, FailuresReported
<1>3. CASE WriteChunk
 <2>1. PICK good \in BOOLEAN :
         /\ fault' = (fault \/ ~good)
         /\ errors' = (errors \/ (~good /\ call = "first"))
         /\ pc = "writing" /\ call' = call
         /\ pc' = "writing" \/ ok' = TRUE
   BY <1>3 DEF WriteChunk
 <2>2. call' = "first" /\ fault' => errors' BY <1>3, <2>1 DEF Reported
 <2>3. call' # "last" BY <2>1 DEF Reported
 <2> QED BY <2>1, <2>2, <2>3 DEF Reported, FailuresReported
<1>4. CASE Finalise
 <2>1. PICK body, after \in BOOLEAN :
         /\ trailer' = (body /\ after) /\ ok' = (body /\ after)
         /\ fault' = ~(body /\ after) /\ errors' = ~(body /\ after)
   BY <1>4 DEF Finalise, LastResult
 <2>2. pc' = "closed" /\ call' = "last" BY <1>4 DEF Finalise
 <2> QED BY <2>1, <2>2 DEF Reported, FailuresReported
<1>5. CASE UNCHANGED vars BY <1>5 DEF vars, Reported, FailuresReported
<1> QED BY <1>1, <1>2, <1>3, <1>4, <1>5 DEF Next

-----------------------------------------------------------------------------
(* The theorems. *)

LEMMA InitWriterInv == Init => WriterInv
<1> SUFFICES ASSUME Init PROVE WriterInv OBVIOUS
<1>1. Header = HeaderLen /\ Decoded = 0 /\ out \in Seq(Chunks) /\ Len(out) = 0
  BY DEF Init, Header, Decoded
<1>2. TypeOK
 <2>1. accepted \in Nat /\ buffer \in Nat /\ buffer < PacketSize BY Sizes DEF Init
 <2>2. {left, rest} \subseteq Spans BY SpanFields DEF Init
 <2>3. /\ {ok, fault, intact, errors, trailer} \subseteq BOOLEAN /\ written_first \in BOOLEAN
       /\ pc \in {"open", "writing", "closed"}
       /\ call \in {"store", "first", "flush", "last"}
   BY DEF Init
 <2> QED BY <1>1, <2>1, <2>2, <2>3 DEF TypeOK, Spans
<1>3. Shape BY <1>1, Sizes, SpanFields DEF Init, Shape
<1>4. ChunksTile BY <1>1 DEF Init, ChunksTile
<1>5. NothingLost BY <1>1, Sizes, SpanFields DEF Init, NothingLost
<1> QED BY <1>2, <1>3, <1>4, <1>5 DEF WriterInv

LEMMA NextTyped == TypeOK /\ Shape /\ [Next]_vars => TypeOK' /\ Shape'
<1> SUFFICES ASSUME TypeOK, Shape, [Next]_vars PROVE TypeOK' /\ Shape' OBVIOUS
<1>1. CASE \E n \in 0 .. MaxTotal : Store(n) \/ WriteFirst(n) \/ Flush(n)
  BY <1>1, StoreTyped, WriteFirstTyped, FlushTyped
<1>2. CASE WriteChunk BY <1>2, WriteChunkTyped
<1>3. CASE Finalise BY <1>3, FinaliseTyped
<1>4. CASE UNCHANGED vars BY <1>4 DEF vars, TypeOK, Shape, Header
<1> QED BY <1>1, <1>2, <1>3, <1>4 DEF Next

\* Once a write has failed the packet stays broken.
LEMMA BrokenStays == ASSUME Next, intact' PROVE intact
<1>1. CASE \E n \in 0 .. MaxTotal : Store(n) \/ WriteFirst(n) \/ Flush(n)
  BY <1>1 DEF Store, WriteFirst, Flush
<1>2. CASE WriteChunk BY <1>2 DEF WriteChunk
<1>3. CASE Finalise BY <1>3 DEF Finalise
<1> QED BY <1>1, <1>2, <1>3 DEF Next

LEMMA NextInLine ==
  ASSUME TypeOK, Shape, InLine, intact, intact', Next PROVE InLine' /\ Shows
<1>1. CASE \E n \in 0 .. MaxTotal : Store(n) \/ WriteFirst(n) \/ Flush(n)
  BY <1>1, StoreInLine, WriteFirstInLine, FlushInLine
<1>2. CASE WriteChunk BY <1>2, WriteChunkInLine
<1>3. CASE Finalise BY <1>3, FinaliseInLine
<1> QED BY <1>1, <1>2, <1>3 DEF Next

LEMMA NextWriterInv == WriterInv /\ [Next]_vars => WriterInv'
<1> SUFFICES ASSUME WriterInv, [Next]_vars PROVE WriterInv' OBVIOUS
<1>1. TypeOK' /\ Shape' BY NextTyped DEF WriterInv
<1>2. InLine'
 <2>1. CASE ~intact' BY <2>1 DEF InLine, ChunksTile, NothingLost
 <2>2. CASE intact' /\ Next BY <2>2, BrokenStays, NextInLine DEF WriterInv, InLine
 <2>3. CASE UNCHANGED vars BY <2>3 DEF WriterInv, InLine, ChunksTile, NothingLost, Decoded, vars
 <2> QED BY <2>1, <2>2, <2>3
<1> QED BY <1>1, <1>2 DEF WriterInv, InLine

\* The invariant of the writer, whatever its sizes.
THEOREM WriterInvariant == Spec => []WriterInv
BY InitWriterInv, NextWriterInv, PTL DEF Spec

\* Types, and a buffer that never fills up: ops_memory_add is called for less
\* than packet_size whatever is written.
THEOREM WriterTypeOK == Spec => []TypeOK
<1>1. WriterInv => TypeOK BY DEF WriterInv
<1> QED BY <1>1, WriterInvariant, PTL

\* The chunks follow each other without a gap.
THEOREM WriterChunksTile == Spec => []ChunksTile
<1>1. WriterInv => ChunksTile BY DEF WriterInv
<1> QED BY <1>1, WriterInvariant, PTL

\* Nothing is dropped, doubled or overtaken between header, buffer and src.
THEOREM WriterNothingLost == Spec => []NothingLost
<1>1. WriterInv => NothingLost BY DEF WriterInv
<1> QED BY <1>1, WriterInvariant, PTL

\* What comes out is a packet of the format, with all that was given in it and
\* each unit once and in its place, for all sizes and every sequence of writes.
THEOREM WriterPacketFormed == Spec => []PacketFormed
<1>1. Init => Formed BY DEF Init, Formed, Started, WellFormed
<1>2. WriterInv /\ Formed /\ [Next]_vars => Formed' BY NextFormed DEF WriterInv
<1>3. WriterInv /\ Formed => PacketFormed BY DEF WriterInv, Formed, PacketFormed
<1> QED BY <1>1, <1>2, <1>3, WriterInvariant, PTL DEF Spec

\* A call that fails leaves an error, and the first and the last call say so.
THEOREM WriterReports == Spec => []FailuresReported
<1>1. Init => Reported BY DEF Init, Reported, FailuresReported
<1>2. WriterInv /\ Reported /\ [Next]_vars => Reported' BY NextReported DEF WriterInv
<1>3. Reported => FailuresReported BY DEF Reported
<1> QED BY <1>1, <1>2, <1>3, WriterInvariant, PTL DEF Spec

\* The partial body writer is a byte stream to the reader of its chunks, until
\* a write below it fails.
THEOREM ImplementsByteStream == Spec => IsByteStream
<1>1. Init => Stream!Init BY Sizes DEF Init, Stream!Init, Decoded
<1>2. WriterInv /\ WriterInv' /\ [Next]_vars
        => [Stream!Next]_<<accepted, Decoded, pc = "closed", ~intact>>
 <2> SUFFICES ASSUME WriterInv, WriterInv', [Next]_vars
              PROVE  [Stream!Next]_<<accepted, Decoded, pc = "closed", ~intact>>
   OBVIOUS
 <2>1. /\ accepted \in Nat /\ Decoded \in Nat
       /\ accepted' \in Nat /\ Decoded' \in Nat
  <3>1. accepted \in Nat /\ Decoded \in Nat BY DecodedIsNat DEF WriterInv, TypeOK
  <3> QED BY <3>1, DecodedIsNat DEF WriterInv, TypeOK
 <2>2. CASE Next /\ intact'
  <3>1. intact /\ Shows BY <2>2, BrokenStays, NextInLine DEF WriterInv, InLine
  <3> QED BY <2>1, <2>2, <3>1 DEF Shows, Stream!Next, Stream!Write, Stream!Close
 <2>4. CASE ~intact' BY <2>4 DEF Stream!Next
 <2>3. CASE UNCHANGED vars BY <2>3 DEF vars, Decoded
 <2> QED BY <2>2, <2>3, <2>4
<1> QED BY <1>1, <1>2, WriterInvariant, PTL
      DEF Spec, IsByteStream, Stream!Spec

-----------------------------------------------------------------------------
(***************************************************************************)
(* The decrypting readers.                                                 *)
(***************************************************************************)

\* A sequence, of whatever it holds.
Listed(s) == s \in Seq({s[i] : i \in DOMAIN s})

\* What is left of a script.
Rest(s, at) == SubSeq(s, at, Len(s))

\* The steps that a packet takes where it reads with whatever reader there is.
IdleSteps ==
  [op : {"read", "version3", "version4"}, n : Nat, mpi : BOOLEAN,
   exact : {FALSE}, key : {"none"}, fail : {<<>>}]

\* A secret key's step after its numbers.
EndAt(k) == 5 + 2 * k.read

\* How many units of the numbers have been read before step at.
StartOf(k, at) ==
  LET i == (at - 3) \div 2
  IN  k.ends[i - 1] + (IF at - 4 = 2 * i THEN 2 ELSE 0)

\* What a container has left to do while its reader is on the stack, and what a
\* secret key has left to do when it has read its numbers.
OpenScripts ==
       {<<exact_limited_read(BlockSize + 2), Step("resync"), Step("parse"), Step("pop")>>,
        <<exact_limited_read(BlockSize + 2), Step("pop")>>,
        <<Step("resync"), Step("parse"), Step("pop")>>,
        <<Step("parse"), Step("pop")>>,
        <<Step("pop")>>}
  \cup {<<limited_read(len, <<Step("pop")>>), Step("pop")>> : len \in Lengths}
PushStep(len) == [Step("push") EXCEPT !.n = len, !.key = "session"]
Pushing(len, t) ==
  {<<PushStep(len)>> \o t, <<limited_read(1, <<>>)>> \o (<<PushStep(len)>> \o t)}
ClosingScripts ==
  {<<Step("end"), Step("pop")>>, <<Step("pop")>>, <<Step("leave")>>,
   <<limited_read(2, <<Step("leave")>>), Step("pop")>>}

-----------------------------------------------------------------------------

ReaderShape(r) ==
  /\ DOMAIN r = {"crypt", "left", "decrypted", "prev_read_was_plain", "hist",
                 "start", "alone"}
  /\ r.crypt \in {"session", "secret"} /\ r.left \in Nat
  /\ Listed(r.decrypted) /\ Len(r.decrypted) <= BufferSize
  /\ Listed(r.hist)
  /\ {r.prev_read_was_plain, r.alone} \subseteq BOOLEAN
CipherShape(c) ==
  DOMAIN c = {"iv", "num"} /\ DOMAIN c.iv = Cells /\ c.num \in 0 .. BlockSize - 1
CallShape(c) ==
  /\ DOMAIN c = {"depth", "length", "units", "entered"}
  /\ c.length \in Nat /\ Listed(c.units) /\ c.entered \in BOOLEAN

Shapes ==
  /\ packets \in 0 .. MaxPackets /\ source \in 0 .. StreamLen
  /\ mode \in {"run", "abort", "dangling"} /\ reading_v3_secret \in BOOLEAN
  /\ DOMAIN ciphers = {"session", "secret"}
  /\ \A k \in DOMAIN ciphers : CipherShape(ciphers[k])
  /\ Listed(scripts) /\ Listed(readers) /\ Listed(calls)
  /\ \A i \in DOMAIN readers : ReaderShape(readers[i])
  /\ \A j \in DOMAIN calls : CallShape(calls[j])

\* The calls in progress are of one reader after the other, from the current one
\* down, and what each asks for fits into the packet and the buffer above.
Fits(above, r, c) ==
  /\ above.length > 0
  /\ c.length + Len(c.units) <= r.left
  /\ Len(r.decrypted) + c.length + Len(c.units) <= BufferSize
  /\ c.length > 0 => r.decrypted = <<>>
AtBottom ==
  Top.depth = 0 =>
    /\ Len(Top.units) <= source /\ (Top.length > 0 => Top.units = <<>>)
    /\ \A i \in DOMAIN Top.units :
         Top.units[i] = [pos |-> source - Len(Top.units) + i, pads |-> <<>>]
Chained ==
  calls # <<>> =>
    /\ scripts # <<>> /\ Script # <<>> /\ Now.op = "read"
    /\ calls[1].length + Len(calls[1].units) = Now.n
    /\ Len(calls) <= Depth + 1
    /\ \A j \in DOMAIN calls : calls[j].depth = Depth + 1 - j
    /\ \A j \in DOMAIN calls :
         j < Len(calls) => Fits(calls[j], readers[calls[j].depth], calls[j + 1])
    /\ AtBottom

-----------------------------------------------------------------------------

\* The readers up to one belong to containers, and there are as many as the
\* containers on the way need, and more.
Sessions(n) == \A i \in 1 .. n : readers[i].crypt = "session"
Enough(own) == Len(scripts) >= 2 /\ Depth >= Len(scripts) - 2 + own
SecretOpen == Enough(1) /\ Reader.crypt = "secret" /\ Sessions(Depth - 1)

\* Nothing is fetched that has not been asked for.
InFlight == IF Len(calls) > 1 THEN calls[2].length + Len(calls[2].units) ELSE 0
Sparing ==
  /\ calls = <<>> => Reader.decrypted = <<>>
  /\ calls # <<>> => Len(Reader.decrypted) + InFlight <= calls[1].length
Accounted(n) ==
  Reader.left + Len(Reader.decrypted)
    + (IF calls = <<>> THEN 0 ELSE Len(calls[1].units)) = n
PadsAre(n) ==
  Depth = 1 =>
    /\ \A i \in DOMAIN Reader.decrypted : Len(Reader.decrypted[i].pads) = n
    /\ calls # <<>> => \A i \in DOMAIN calls[1].units : Len(calls[1].units[i].pads) = n

BaseTop ==
  Len(scripts) = 1 /\ Script \in {<<Step("parse")>>, <<>>} /\ Sessions(Depth)
IdleTop ==
  Enough(0) /\ Script \in Seq(IdleSteps) /\ Sessions(Depth)
ContainerTop ==
  /\ Enough(0) /\ Sessions(Depth)
  /\ \E len \in Lengths, t \in OpenScripts :
       \/ \E s \in Pushing(len, t) : Script = parse_pk_session_key \o s /\ readers = <<>>
       \/ Script \in Pushing(len, t) /\ (readers = <<>> => ciphers["session"] = std_set_iv)
SessionTop ==
  /\ Enough(1) /\ Sessions(Depth) /\ Script \in OpenScripts
  /\ Now.exact => Sparing
  /\ Now.op = "resync" => Reader.decrypted = <<>>
KeyBegun(k, at) ==
  /\ at < 5 /\ Enough(0) /\ Sessions(Depth)
  /\ at > 2 => reading_v3_secret = k.v3
  /\ at = 4 => ciphers["secret"] = std_set_iv
KeyRead(k, at) ==
  /\ at > 4 /\ SecretOpen /\ reading_v3_secret = k.v3
  /\ IF k.v3
       THEN /\ Sparing /\ Accounted(k.ends[Mpis] + 2 - StartOf(k, at))
            /\ calls # <<>> => PadsAre(IF Now.mpi THEN 0 ELSE 1)
       ELSE PadsAre(1)
SecretTop ==
  \E k \in SecretKeys : \E at \in 1 .. EndAt(k) :
    Script = Rest(parse_secret_key(k), at) /\ (KeyBegun(k, at) \/ KeyRead(k, at))
ClosingTop ==
  /\ SecretOpen
  /\ \/ Script \in ClosingScripts
     \/ /\ Script = <<Step("pop"), limited_read(2, <<>>)>>
        /\ Reader.decrypted = <<>> /\ Reader.left = 2

\* What the handlers that are running have left to do, and what is so meanwhile.
Lower ==
  \A i \in DOMAIN scripts : i < Len(scripts) =>
    scripts[i] = IF i = 1 THEN <<Step("parse")>> ELSE <<Step("parse"), Step("pop")>>
OnTop == BaseTop \/ IdleTop \/ ContainerTop \/ SessionTop \/ SecretTop \/ ClosingTop
Scripted == Lower /\ (mode # "dangling" /\ scripts # <<>> => OnTop)

-----------------------------------------------------------------------------

\* What a cipher has after the units hist from register start on: the offset of the
\* next one and the register; and a reader's units had the pads of their places.
Fed(c, start, hist) ==
  c.num = Len(hist) - BlockStart(Len(hist)) /\ c.iv = RegisterAfter(start, hist)
InStep(r, c) == Fed(c, r.start, r.hist) /\ PadsOf(r)

\* The reader at the bottom of the stack has the stream in order, and every reader
\* that is alone with its cipher is in step with it.
Pending == IF calls # <<>> /\ Top.depth = 0 THEN Len(Top.units) ELSE 0
InOrder(r) ==
  /\ \A k \in DOMAIN r.hist : r.hist[k].raw.pos \in Nat /\ r.hist[k].raw.pos <= source - Pending
  /\ \A k, l \in DOMAIN r.hist : k < l => r.hist[k].raw.pos < r.hist[l].raw.pos
FirstReader == readers # <<>> => InOrder(readers[1])
LoneReaders ==
  \A i \in DOMAIN readers :
    readers[i].alone =>
      /\ \A j \in DOMAIN readers : j # i => readers[j].crypt # readers[i].crypt
      /\ InStep(readers[i], ciphers[readers[i].crypt])
Histories == FirstReader /\ LoneReaders

DecryptInv == Shapes /\ Chained /\ Scripted /\ Histories /\ SecretKeyAligned

\* What is assumed of the constants.
LEMMA ConstantFacts ==
  /\ BlockSize \in Nat /\ BlockSize > 2 /\ BufferSize \in Nat /\ BufferSize > 0
  /\ StreamLen \in Nat /\ Mpis \in Nat /\ MaxMpi \in Nat
  /\ MaxPackets \in Nat /\ MaxNest \in Nat
BY DecryptConstants DEF DecryptConstants

LEMMA LengthFacts == \A len \in Lengths : len \in Nat
<1>1. BlockSize \in Nat /\ \A n \in Contents : n \in Nat BY DecryptConstants DEF DecryptConstants
<1>2. ASSUME NEW len \in Lengths PROVE len \in Nat
 <2>1. PICK n \in Contents : len = BlockSize + 2 + n BY DEF Lengths
 <2> QED BY <1>1, <2>1
<1> QED BY <1>2

-----------------------------------------------------------------------------
(* Sequences. *)

\* A sequence over any set is one over what it holds.
LEMMA ListedIn ==
  ASSUME NEW X, NEW s \in Seq(X) PROVE Listed(s)
<1> DEFINE Y == {s[i] : i \in DOMAIN s}
<1>1. /\ Len(s) \in Nat /\ DOMAIN s = 1 .. Len(s)
      /\ s = [i \in 1 .. Len(s) |-> s[i]]
  BY LenProperties
<1>2. \A i \in 1 .. Len(s) : s[i] \in Y BY <1>1
<1> HIDE DEF Y
<1>3. s \in [1 .. Len(s) -> Y] BY <1>1, <1>2
<1>4. s \in Seq(Y) BY <1>1, <1>3, Z3
<1> QED BY <1>4 DEF Listed, Y

\* The length and the domain of a sequence.
LEMMA ListedFacts ==
  ASSUME NEW s, Listed(s)
  PROVE  /\ Len(s) \in Nat /\ DOMAIN s = 1 .. Len(s)
         /\ s = <<>> <=> Len(s) = 0
         /\ \A T : (\A i \in 1 .. Len(s) : s[i] \in T) => s \in Seq(T)
<1> DEFINE Y == {s[i] : i \in DOMAIN s}
<1>1. s \in Seq(Y) BY DEF Listed
<1> HIDE DEF Y
<1>2. /\ Len(s) \in Nat /\ DOMAIN s = 1 .. Len(s)
      /\ s = [i \in 1 .. Len(s) |-> s[i]]
  BY <1>1, LenProperties
<1>3. s = <<>> <=> Len(s) = 0 BY <1>1, EmptySeq
<1>4. ASSUME NEW T, \A i \in 1 .. Len(s) : s[i] \in T PROVE s \in Seq(T)
 <2>1. s \in [1 .. Len(s) -> T] BY <1>2, <1>4
 <2> QED BY <1>2, <2>1, Z3
<1> QED BY <1>2, <1>3, <1>4

\* Sequences of the same elements are the same.
LEMMA ListedEqual ==
  ASSUME NEW s, NEW t, Listed(s), Listed(t), Len(s) = Len(t),
         \A i \in 1 .. Len(s) : s[i] = t[i]
  PROVE  s = t
<1> DEFINE X == {s[i] : i \in 1 .. Len(s)}
<1>1. (\A i \in 1 .. Len(s) : s[i] \in X) /\ (\A i \in 1 .. Len(t) : t[i] \in X) OBVIOUS
<1> HIDE DEF X
<1>2. s \in Seq(X) /\ t \in Seq(X) BY <1>1, ListedFacts
<1> QED BY <1>2, SeqEqual

\* A function on the first numbers is a sequence.
LEMMA ListedFun ==
  ASSUME NEW n \in Nat, NEW f, f = [i \in 1 .. n |-> f[i]] PROVE Listed(f) /\ Len(f) = n
<1> DEFINE X == {f[i] : i \in 1 .. n}
<1>1. f \in [1 .. n -> X] OBVIOUS
<1> HIDE DEF X
<1>2. f \in Seq(X) BY <1>1, Z3
<1>3. Len(f) = n BY <1>1, <1>2, LenProperties
<1> QED BY <1>2, <1>3, ListedIn

\* An element is put after a sequence.
LEMMA ListedAppend ==
  ASSUME NEW s, NEW e, Listed(s)
  PROVE  /\ Listed(Append(s, e)) /\ Len(Append(s, e)) = Len(s) + 1
         /\ Append(s, e)[Len(s) + 1] = e
         /\ \A i \in 1 .. Len(s) : Append(s, e)[i] = s[i]
<1> DEFINE X == {s[i] : i \in 1 .. Len(s)} \cup {e}
<1>1. (\A i \in 1 .. Len(s) : s[i] \in X) /\ e \in X OBVIOUS
<1> HIDE DEF X
<1>2. s \in Seq(X) BY <1>1, ListedFacts
<1>3. Append(s, e) \in Seq(X) BY <1>1, <1>2
<1>4. Listed(Append(s, e)) BY <1>3, ListedIn
<1>5. /\ Len(Append(s, e)) = Len(s) + 1 /\ Append(s, e)[Len(s) + 1] = e
      /\ \A i \in 1 .. Len(s) : Append(s, e)[i] = s[i]
  BY <1>1, <1>2
<1> QED BY <1>4, <1>5

\* An element is put in the place of another.
LEMMA ListedPut ==
  ASSUME NEW s, Listed(s), NEW i \in 1 .. Len(s), NEW e
  PROVE  /\ Listed([s EXCEPT ![i] = e]) /\ Len([s EXCEPT ![i] = e]) = Len(s)
         /\ [s EXCEPT ![i] = e][i] = e
         /\ \A j \in 1 .. Len(s) : j # i => [s EXCEPT ![i] = e][j] = s[j]
<1> DEFINE X == {s[j] : j \in 1 .. Len(s)} \cup {e}
<1>1. (\A j \in 1 .. Len(s) : s[j] \in X) /\ e \in X OBVIOUS
<1> HIDE DEF X
<1>2. s \in Seq(X) BY <1>1, ListedFacts
<1>3. /\ [s EXCEPT ![i] = e] \in Seq(X) /\ Len([s EXCEPT ![i] = e]) = Len(s)
      /\ \A j \in 1 .. Len(s) : [s EXCEPT ![i] = e][j] = IF j = i THEN e ELSE s[j]
  BY <1>1, <1>2, ExceptSeq
<1>4. Listed([s EXCEPT ![i] = e]) BY <1>3, ListedIn
<1> QED BY <1>3, <1>4

\* A part of a sequence.
LEMMA ListedPart ==
  ASSUME NEW s, Listed(s), NEW m \in 1 .. Len(s) + 1, NEW n \in 0 .. Len(s), m <= n + 1
  PROVE  /\ Listed(SubSeq(s, m, n)) /\ Len(SubSeq(s, m, n)) = n - m + 1
         /\ \A i \in 1 .. n - m + 1 : SubSeq(s, m, n)[i] = s[m + i - 1]
<1> DEFINE X == {s[j] : j \in 1 .. Len(s)}
<1>1. Len(s) \in Nat BY ListedFacts
<1>2. \A j \in m .. n : s[j] \in X BY <1>1
<1> HIDE DEF X
<1>3. /\ SubSeq(s, m, n) \in Seq(X) /\ Len(SubSeq(s, m, n)) = n - m + 1
      /\ \A i \in 1 .. n - m + 1 : SubSeq(s, m, n)[i] = s[m + i - 1]
 <2>1. m \in Int /\ n \in Int /\ (IF m <= n THEN n - m + 1 ELSE 0) = n - m + 1 BY <1>1
 <2> QED BY <1>2, <2>1, SubSeqProperties
<1> QED BY <1>3, ListedIn

\* A sequence after another.
LEMMA ListedConcat ==
  ASSUME NEW s, NEW t, Listed(s), Listed(t)
  PROVE  /\ Listed(s \o t) /\ Len(s \o t) = Len(s) + Len(t)
         /\ \A i \in 1 .. Len(s) + Len(t) :
              (s \o t)[i] = IF i <= Len(s) THEN s[i] ELSE t[i - Len(s)]
<1> DEFINE X == {s[i] : i \in 1 .. Len(s)} \cup {t[i] : i \in 1 .. Len(t)}
<1>1. (\A i \in 1 .. Len(s) : s[i] \in X) /\ (\A i \in 1 .. Len(t) : t[i] \in X) OBVIOUS
<1> HIDE DEF X
<1>2. s \in Seq(X) /\ t \in Seq(X) BY <1>1, ListedFacts
<1> QED BY <1>2, ConcatProperties, ListedIn

\* All but the last element.
LEMMA ListedFront ==
  ASSUME NEW s, Listed(s), s # <<>>
  PROVE  /\ Listed(Front(s)) /\ Len(Front(s)) = Len(s) - 1
         /\ \A i \in 1 .. Len(s) - 1 : Front(s)[i] = s[i]
<1>1. Len(s) \in Nat /\ Len(s) > 0 BY ListedFacts
<1>2. Front(s) = SubSeq(s, 1, Len(s) - 1) BY DEF Front
<1>3. 1 \in 1 .. Len(s) + 1 /\ Len(s) - 1 \in 0 .. Len(s) /\ 1 <= Len(s) - 1 + 1 BY <1>1
<1>4. /\ Listed(SubSeq(s, 1, Len(s) - 1)) /\ Len(SubSeq(s, 1, Len(s) - 1)) = Len(s) - 1 - 1 + 1
      /\ \A i \in 1 .. Len(s) - 1 - 1 + 1 : SubSeq(s, 1, Len(s) - 1)[i] = s[1 + i - 1]
  BY <1>3, ListedPart
<1> QED BY <1>1, <1>2, <1>4

\* All but the first element.
LEMMA ListedTail ==
  ASSUME NEW s, Listed(s), s # <<>>
  PROVE  /\ Listed(Tail(s)) /\ Len(Tail(s)) = Len(s) - 1
         /\ \A i \in 1 .. Len(s) - 1 : Tail(s)[i] = s[i + 1]
         /\ Head(s) = s[1]
<1> DEFINE X == {s[i] : i \in 1 .. Len(s)}
<1>1. \A i \in 1 .. Len(s) : s[i] \in X OBVIOUS
<1> HIDE DEF X
<1>2. s \in Seq(X) BY <1>1, ListedFacts
<1>3. /\ Tail(s) \in Seq(X) /\ Len(Tail(s)) = Len(s) - 1
      /\ \A i \in 1 .. Len(Tail(s)) : Tail(s)[i] = s[i + 1]
  BY <1>2, HeadTailProperties
<1>4. Listed(Tail(s)) BY <1>3, ListedIn
<1>5. Head(s) = s[1] BY <1>2
<1> QED BY <1>3, <1>4, <1>5

\* Short sequences.
LEMMA ListedShort ==
  /\ Listed(<<>>) /\ Len(<<>>) = 0
  /\ \A a : Listed(<<a>>) /\ Len(<<a>>) = 1 /\ <<a>>[1] = a
  /\ \A a, b : Listed(<<a, b>>) /\ Len(<<a, b>>) = 2 /\ <<a, b>>[1] = a /\ <<a, b>>[2] = b
  /\ \A a, b, c : /\ Listed(<<a, b, c>>) /\ Len(<<a, b, c>>) = 3
                  /\ <<a, b, c>>[1] = a /\ <<a, b, c>>[2] = b /\ <<a, b, c>>[3] = c
  /\ \A a, b, c, d :
       /\ Listed(<<a, b, c, d>>) /\ Len(<<a, b, c, d>>) = 4
       /\ <<a, b, c, d>>[1] = a /\ <<a, b, c, d>>[2] = b
       /\ <<a, b, c, d>>[3] = c /\ <<a, b, c, d>>[4] = d
<1>1. Listed(<<>>) /\ Len(<<>>) = 0
 <2>1. <<>> \in Seq({}) BY EmptySeq
 <2> QED BY <2>1, EmptySeq, ListedIn
<1>2. \A a : <<a>> \in Seq({a}) OBVIOUS
<1>3. \A a, b : <<a, b>> \in Seq({a, b}) OBVIOUS
<1>4. \A a, b, c : <<a, b, c>> \in Seq({a, b, c}) OBVIOUS
<1>5. \A a, b, c, d : <<a, b, c, d>> \in Seq({a, b, c, d}) OBVIOUS
<1>6. \A a : Listed(<<a>>) BY <1>2, ListedIn
<1>7. \A a, b : Listed(<<a, b>>) BY <1>3, ListedIn
<1>8. \A a, b, c : Listed(<<a, b, c>>) BY <1>4, ListedIn
<1>9. \A a, b, c, d : Listed(<<a, b, c, d>>) BY <1>5, ListedIn
<1> QED BY <1>1, <1>6, <1>7, <1>8, <1>9

-----------------------------------------------------------------------------
(* Scripts. *)

\* The steps of a script, field by field.
LEMMA StepFacts ==
  /\ \A op : /\ Step(op).op = op /\ Step(op).n = 0 /\ Step(op).mpi = FALSE
             /\ Step(op).exact = FALSE /\ Step(op).key = "none" /\ Step(op).fail = <<>>
             /\ DOMAIN Step(op) = {"op", "n", "mpi", "exact", "key", "fail"}
  /\ \A n, fail :
       /\ limited_read(n, fail).op = "read" /\ limited_read(n, fail).n = n
       /\ limited_read(n, fail).mpi = FALSE /\ limited_read(n, fail).exact = FALSE
       /\ limited_read(n, fail).key = "none" /\ limited_read(n, fail).fail = fail
  /\ \A n :
       /\ exact_limited_read(n).op = "read" /\ exact_limited_read(n).n = n
       /\ exact_limited_read(n).mpi = FALSE /\ exact_limited_read(n).exact = TRUE
       /\ exact_limited_read(n).key = "none" /\ exact_limited_read(n).fail = <<>>
  /\ \A len : /\ PushStep(len).op = "push" /\ PushStep(len).n = len
              /\ PushStep(len).key = "session" /\ PushStep(len).exact = FALSE
BY DEF Step, limited_read, exact_limited_read, PushStep

\* The two reads of a number.
NumberReads(t, n, key, fail) ==
  /\ Listed(t) /\ Len(t) = 2
  /\ t[1].op = "read" /\ t[1].n = 2 /\ t[1].mpi = TRUE /\ t[1].exact = FALSE
  /\ t[1].key = key /\ t[1].fail = fail
  /\ t[2].op = "read" /\ t[2].n = n /\ t[2].mpi = FALSE /\ t[2].exact = FALSE
  /\ t[2].key = key /\ t[2].fail = fail
\* A number is two reads: its count, and as many units as that says.
LEMMA NumberFacts ==
  ASSUME NEW n, NEW key, NEW fail
  PROVE  NumberReads(limited_read_mpi(n, key, fail), n, key, fail)
<1> DEFINE a == [Step("read") EXCEPT !.n = 2, !.mpi = TRUE, !.key = key, !.fail = fail]
           b == [Step("read") EXCEPT !.n = n, !.key = key, !.fail = fail]
<1> DEFINE t == limited_read_mpi(n, key, fail)
<1>1. t = <<a, b>> BY DEF limited_read_mpi
<1>2. /\ a.op = "read" /\ a.n = 2 /\ a.mpi = TRUE /\ a.exact = FALSE /\ a.key = key
      /\ a.fail = fail
  BY DEF Step
<1>3. /\ b.op = "read" /\ b.n = n /\ b.mpi = FALSE /\ b.exact = FALSE /\ b.key = key
      /\ b.fail = fail
  BY DEF Step
<1> HIDE DEF a, b
<1>4. /\ Listed(<<a, b>>) /\ Len(<<a, b>>) = 2 /\ <<a, b>>[1] = a /\ <<a, b>>[2] = b
  BY ListedShort
<1>5. /\ Listed(t) /\ Len(t) = 2 /\ t[1] = a /\ t[2] = b BY <1>1, <1>4
<1> HIDE DEF t
<1>6. NumberReads(t, n, key, fail) BY <1>2, <1>3, <1>5 DEF NumberReads
<1> QED BY <1>6 DEF t

\* One step and a script after it.
LEMMA ConsFacts ==
  ASSUME NEW a, NEW t, Listed(t)
  PROVE  /\ Listed(<<a>> \o t) /\ <<a>> \o t # <<>> /\ Len(<<a>> \o t) = Len(t) + 1
         /\ Head(<<a>> \o t) = a /\ Tail(<<a>> \o t) = t
         /\ (<<a>> \o t)[1] = a
<1>1. Listed(<<a>>) /\ Len(<<a>>) = 1 /\ <<a>>[1] = a BY ListedShort
<1>2. Len(t) \in Nat BY ListedFacts
<1>3. /\ Listed(<<a>> \o t) /\ Len(<<a>> \o t) = Len(t) + 1 /\ (<<a>> \o t)[1] = a
      /\ \A i \in 1 .. Len(t) : (<<a>> \o t)[i + 1] = t[i]
 <2> DEFINE u == <<a>>
 <2>1. Listed(u) /\ Len(u) = 1 /\ u[1] = a BY <1>1
 <2> HIDE DEF u
 <2>2. /\ Listed(u \o t) /\ Len(u \o t) = Len(u) + Len(t)
       /\ \A i \in 1 .. Len(u) + Len(t) : (u \o t)[i] = IF i <= Len(u) THEN u[i] ELSE t[i - Len(u)]
   BY <2>1, ListedConcat
 <2>3. \A i \in 1 .. Len(t) : (u \o t)[i + 1] = t[i]
  <3>1. SUFFICES ASSUME NEW i \in 1 .. Len(t) PROVE (u \o t)[i + 1] = t[i] OBVIOUS
  <3>2. i + 1 \in 1 .. Len(u) + Len(t) /\ ~(i + 1 <= Len(u)) /\ i + 1 - Len(u) = i BY <1>2, <2>1
  <3> QED BY <2>2, <3>2
 <2>4. (u \o t)[1] = a BY <1>2, <2>1, <2>2
 <2> QED BY <1>2, <2>1, <2>2, <2>3, <2>4 DEF u
<1> DEFINE c == <<a>> \o t
<1> HIDE DEF c
<1>4. c # <<>> BY <1>2, <1>3, ListedFacts DEF c
<1>5. /\ Listed(Tail(c)) /\ Len(Tail(c)) = Len(c) - 1 /\ Head(c) = c[1]
      /\ \A i \in 1 .. Len(c) - 1 : Tail(c)[i] = c[i + 1]
  BY <1>3, <1>4, ListedTail DEF c
<1>6. Len(Tail(c)) = Len(t) /\ \A i \in 1 .. Len(t) : Tail(c)[i] = t[i] BY <1>2, <1>3, <1>5 DEF c
<1>7. Tail(c) = t BY <1>5, <1>6, ListedEqual
<1> QED BY <1>3, <1>4, <1>5, <1>7 DEF c

\* What is left of a script, and what is left after its next step.
LEMMA RestFacts ==
  ASSUME NEW s, Listed(s), NEW at \in 1 .. Len(s) + 1
  PROVE  /\ Listed(Rest(s, at)) /\ Len(Rest(s, at)) = Len(s) - at + 1
         /\ \A i \in 1 .. Len(s) - at + 1 : Rest(s, at)[i] = s[at + i - 1]
         /\ at <= Len(s) => /\ Rest(s, at) # <<>> /\ Head(Rest(s, at)) = s[at]
                            /\ Tail(Rest(s, at)) = Rest(s, at + 1)
<1>1. Len(s) \in Nat /\ Len(s) \in 0 .. Len(s) /\ at <= Len(s) + 1 BY ListedFacts
<1>2. /\ Listed(Rest(s, at)) /\ Len(Rest(s, at)) = Len(s) - at + 1
      /\ \A i \in 1 .. Len(s) - at + 1 : Rest(s, at)[i] = s[at + i - 1]
  BY <1>1, ListedPart DEF Rest
<1>3. ASSUME at <= Len(s)
      PROVE  /\ Rest(s, at) # <<>> /\ Head(Rest(s, at)) = s[at]
             /\ Tail(Rest(s, at)) = Rest(s, at + 1)
 <2> DEFINE r == Rest(s, at)
            q == Rest(s, at + 1)
 <2>1. r # <<>> /\ r[1] = s[at]
  <3>1. Len(r) # 0 /\ 1 \in 1 .. Len(s) - at + 1 /\ at + 1 - 1 = at BY <1>1, <1>2, <1>3
  <3> QED BY <1>2, <3>1, ListedFacts
 <2>2. /\ Listed(q) /\ Len(q) = Len(s) - at
       /\ \A i \in 1 .. Len(s) - at : q[i] = s[at + i]
  <3>1. at + 1 \in 1 .. Len(s) + 1 /\ at + 1 <= Len(s) + 1 BY <1>1, <1>3
  <3>2. /\ Listed(q) /\ Len(q) = Len(s) - (at + 1) + 1
        /\ \A i \in 1 .. Len(s) - (at + 1) + 1 : q[i] = s[at + 1 + i - 1]
    BY <1>1, <3>1, ListedPart DEF Rest
  <3>3. /\ Len(s) - (at + 1) + 1 = Len(s) - at
        /\ \A i \in 1 .. Len(s) - at : at + 1 + i - 1 = at + i
    BY <1>1
  <3> QED BY <3>2, <3>3
 <2>3. Listed(r) /\ Len(r) = Len(s) - at + 1 /\ \A i \in 1 .. Len(s) - at + 1 : r[i] = s[at + i - 1]
   BY <1>2
 <2> HIDE DEF r, q
 <2>4. /\ Listed(Tail(r)) /\ Len(Tail(r)) = Len(r) - 1 /\ Head(r) = r[1]
       /\ \A i \in 1 .. Len(r) - 1 : Tail(r)[i] = r[i + 1]
   BY <2>1, <2>3, ListedTail
 <2>5. Len(Tail(r)) = Len(q) /\ \A i \in 1 .. Len(q) : Tail(r)[i] = q[i]
  <3>1. Len(r) - 1 = Len(s) - at /\ Len(Tail(r)) = Len(q) BY <1>1, <2>2, <2>3, <2>4
  <3>2. ASSUME NEW i \in 1 .. Len(q) PROVE Tail(r)[i] = q[i]
   <4>1. i \in 1 .. Len(r) - 1 /\ i + 1 \in 1 .. Len(s) - at + 1 /\ at + (i + 1) - 1 = at + i
     BY <1>1, <2>2, <2>3, <3>1
   <4> QED BY <2>2, <2>3, <2>4, <4>1
  <3> QED BY <3>1, <3>2
 <2>6. Tail(r) = q BY <2>2, <2>4, <2>5, ListedEqual
 <2> QED BY <2>1, <2>4, <2>6 DEF r, q
<1> QED BY <1>2, <1>3

\* Sequences put together from short ones.
LEMMA ConcatIs ==
  ASSUME NEW s, NEW t, NEW u, Listed(s), Listed(t), Listed(u), Len(u) = Len(s) + Len(t),
         \A i \in 1 .. Len(u) : u[i] = IF i <= Len(s) THEN s[i] ELSE t[i - Len(s)]
  PROVE  s \o t = u
<1>1. /\ Listed(s \o t) /\ Len(s \o t) = Len(s) + Len(t)
      /\ \A i \in 1 .. Len(s) + Len(t) :
           (s \o t)[i] = IF i <= Len(s) THEN s[i] ELSE t[i - Len(s)]
  BY ListedConcat
<1>2. \A i \in 1 .. Len(s \o t) : (s \o t)[i] = u[i] BY <1>1
<1> QED BY <1>1, <1>2, ListedEqual

\* Short sequences put together.
LEMMA ShortConcat ==
  /\ \A a, b : <<a>> \o <<b>> = <<a, b>> /\ <<a, b>> \o <<>> = <<a, b>> /\ <<a>> \o <<>> = <<a>>
  /\ \A a, b, c : <<a, b>> \o <<c>> = <<a, b, c>>
  /\ \A a, b, c, d : <<a, b>> \o <<c, d>> = <<a, b, c, d>>
<1>1. ASSUME NEW a, NEW b
      PROVE  <<a>> \o <<b>> = <<a, b>> /\ <<a, b>> \o <<>> = <<a, b>> /\ <<a>> \o <<>> = <<a>>
 <2> DEFINE s == <<a>>
            t == <<b>>
            u == <<a, b>>
            z == <<>>
 <2>1. /\ Listed(s) /\ Len(s) = 1 /\ s[1] = a /\ Listed(t) /\ Len(t) = 1 /\ t[1] = b
       /\ Listed(u) /\ Len(u) = 2 /\ u[1] = a /\ u[2] = b /\ Listed(z) /\ Len(z) = 0
   BY ListedShort
 <2> HIDE DEF s, t, u, z
 <2>2. s \o t = u
  <3>1. \A i \in 1 .. Len(u) : u[i] = IF i <= Len(s) THEN s[i] ELSE t[i - Len(s)] BY <2>1
  <3>2. Len(u) = Len(s) + Len(t) BY <2>1
  <3> QED BY <2>1, <3>1, <3>2, ConcatIs
 <2>3. u \o z = u
  <3>1. \A i \in 1 .. Len(u) : u[i] = IF i <= Len(u) THEN u[i] ELSE z[i - Len(u)] BY <2>1
  <3>2. Len(u) = Len(u) + Len(z) BY <2>1
  <3> QED BY <2>1, <3>1, <3>2, ConcatIs
 <2>4. s \o z = s
  <3>1. \A i \in 1 .. Len(s) : s[i] = IF i <= Len(s) THEN s[i] ELSE z[i - Len(s)] BY <2>1
  <3>2. Len(s) = Len(s) + Len(z) BY <2>1
  <3> QED BY <2>1, <3>1, <3>2, ConcatIs
 <2> QED BY <2>2, <2>3, <2>4 DEF s, t, u, z
<1>2. ASSUME NEW a, NEW b, NEW c PROVE <<a, b>> \o <<c>> = <<a, b, c>>
 <2> DEFINE s == <<a, b>>
            t == <<c>>
            u == <<a, b, c>>
 <2>1. /\ Listed(s) /\ Len(s) = 2 /\ s[1] = a /\ s[2] = b /\ Listed(t) /\ Len(t) = 1 /\ t[1] = c
       /\ Listed(u) /\ Len(u) = 3 /\ u[1] = a /\ u[2] = b /\ u[3] = c
   BY ListedShort
 <2> HIDE DEF s, t, u
 <2>2. \A i \in 1 .. Len(u) : u[i] = IF i <= Len(s) THEN s[i] ELSE t[i - Len(s)] BY <2>1
 <2>3. s \o t = u
  <3>1. Len(u) = Len(s) + Len(t) BY <2>1
  <3> QED BY <2>1, <2>2, <3>1, ConcatIs
 <2> QED BY <2>3 DEF s, t, u
<1>3. ASSUME NEW a, NEW b, NEW c, NEW d PROVE <<a, b>> \o <<c, d>> = <<a, b, c, d>>
 <2> DEFINE s == <<a, b>>
            t == <<c, d>>
            u == <<a, b, c, d>>
 <2>1. /\ Listed(s) /\ Len(s) = 2 /\ s[1] = a /\ s[2] = b
       /\ Listed(t) /\ Len(t) = 2 /\ t[1] = c /\ t[2] = d
       /\ Listed(u) /\ Len(u) = 4 /\ u[1] = a /\ u[2] = b /\ u[3] = c /\ u[4] = d
   BY ListedShort
 <2> HIDE DEF s, t, u
 <2>2. \A i \in 1 .. Len(u) : u[i] = IF i <= Len(s) THEN s[i] ELSE t[i - Len(s)] BY <2>1
 <2>3. s \o t = u
  <3>1. Len(u) = Len(s) + Len(t) BY <2>1
  <3> QED BY <2>1, <2>2, <3>1, ConcatIs
 <2> QED BY <2>3 DEF s, t, u
<1> QED BY <1>1, <1>2, <1>3

\* The steps after a secret key's numbers.
LEMMA SecretEndIs ==
  /\ SecretEnd(TRUE, TRUE) = <<Step("end"), Step("pop"), limited_read(2, <<>>)>>
  /\ SecretEnd(FALSE, TRUE) =
       <<Step("end"), limited_read(2, <<Step("leave")>>), Step("pop")>>
  /\ \A v3 \in BOOLEAN : SecretEnd(v3, FALSE) = <<Step("end"), Step("pop")>>
<1> DEFINE a == Step("end")
           b == Step("pop")
           c == limited_read(2, <<>>)
           d == limited_read(2, <<Step("leave")>>)
<1>1. SecretEnd(TRUE, TRUE) = <<a, b>> \o <<c>> BY DEF SecretEnd
<1>2. SecretEnd(FALSE, TRUE) = <<a>> \o <<d>> \o <<b>> BY DEF SecretEnd
<1>3. SecretEnd(TRUE, FALSE) = <<a, b>> \o <<>> BY DEF SecretEnd
<1>4. SecretEnd(FALSE, FALSE) = <<a>> \o <<>> \o <<b>> BY DEF SecretEnd
<1> HIDE DEF a, b, c, d
<1>5. <<a, b>> \o <<c>> = <<a, b, c>> BY ShortConcat
<1>6. <<a>> \o <<d>> \o <<b>> = <<a, d, b>>
 <2>1. <<a>> \o <<d>> = <<a, d>> BY ShortConcat
 <2>2. <<a, d>> \o <<b>> = <<a, d, b>> BY ShortConcat
 <2> QED BY <2>1, <2>2
<1>7. <<a, b>> \o <<>> = <<a, b>> BY ShortConcat
<1>8. <<a>> \o <<>> \o <<b>> = <<a, b>> BY ShortConcat
<1> QED BY <1>1, <1>2, <1>3, <1>4, <1>5, <1>6, <1>7, <1>8 DEF a, b, c, d

\* Where the numbers of a key begin and end.
LEMMA LayoutFacts ==
  ASSUME NEW ends \in Layouts
  PROVE  /\ ends[0] = 0 /\ \A i \in 0 .. Mpis : ends[i] \in Nat
         /\ \A i \in 1 .. Mpis : Length(ends, i) \in Nat /\ ends[i - 1] + 2 + Length(ends, i) = ends[i]
<1>1. ends[0] = 0 /\ \A i \in 1 .. Mpis : Length(ends, i) \in 1 .. MaxMpi BY DEF Layouts
<1>2. ends \in [0 .. Mpis -> 0 .. Mpis * (MaxMpi + 2)] BY DEF Layouts
<1>3. Mpis \in Nat /\ Mpis * (MaxMpi + 2) \in Int BY ConstantFacts
<1>4. \A i \in 0 .. Mpis : ends[i] \in Nat BY <1>2, <1>3
<1>5. ASSUME NEW i \in 1 .. Mpis
      PROVE  Length(ends, i) \in Nat /\ ends[i - 1] + 2 + Length(ends, i) = ends[i]
 <2>1. i \in 0 .. Mpis /\ i - 1 \in 0 .. Mpis BY <1>3
 <2>2. ends[i] \in Nat /\ ends[i - 1] \in Nat BY <1>4, <2>1
 <2>3. Length(ends, i) \in 1 .. MaxMpi BY <1>1
 <2> QED BY <2>2, <2>3 DEF Length
<1> QED BY <1>1, <1>4, <1>5

\* The steps of a secret key: its head, its numbers, its end.
LEMMA SecretSteps ==
  ASSUME NEW k \in SecretKeys
  PROVE  LET s == parse_secret_key(k)
             e == SecretEnd(k.v3, k.ok)
             p == [Step("push") EXCEPT !.n = Total(k.ends) + 2, !.key = "secret"]
         IN  /\ k.read \in Nat /\ k.read <= Mpis
             /\ Listed(s) /\ Listed(e) /\ Len(s) = 4 + 2 * k.read + Len(e)
             /\ s[1] = limited_read(1, <<>>)
             /\ s[2] = Step(IF k.v3 THEN "version3" ELSE "version4")
             /\ s[3] = Step("set_key") /\ s[4] = p
             /\ \A j \in 1 .. 2 * k.read :
                  s[4 + j] = LET i == (j + 1) \div 2
                             IN  limited_read_mpi(Length(k.ends, i), IF k.v3 THEN "v3" ELSE "v4",
                                                  SecretEnd(k.v3, FALSE))[j - 2 * (i - 1)]
             /\ \A i \in 1 .. Len(e) : s[4 + 2 * k.read + i] = e[i]
<1> DEFINE s == parse_secret_key(k)
           e == SecretEnd(k.v3, k.ok)
           p == [Step("push") EXCEPT !.n = Total(k.ends) + 2, !.key = "secret"]
           key == IF k.v3 THEN "v3" ELSE "v4"
           a == limited_read(1, <<>>)
           v == Step(IF k.v3 THEN "version3" ELSE "version4")
           b == Step("set_key")
           f == Numbers(k.ends, k.read, key, SecretEnd(k.v3, FALSE))
           g(j) == LET i == (j + 1) \div 2
                   IN  limited_read_mpi(Length(k.ends, i), key, SecretEnd(k.v3, FALSE))[j - 2 * (i - 1)]
<1>1. k.v3 \in BOOLEAN /\ k.ok \in BOOLEAN /\ k.read \in 0 .. Mpis BY DEF SecretKeys
<1>2. s = <<a, v>> \o <<b, p>> \o f \o e BY DEF parse_secret_key, parse_public_key_data
<1>3. f = [j \in 1 .. 2 * k.read |-> g(j)] BY DEF Numbers
<1>4. Listed(e)
 <2>1. e \in {SecretEnd(TRUE, TRUE), SecretEnd(FALSE, TRUE), SecretEnd(TRUE, FALSE), SecretEnd(FALSE, FALSE)}
   BY <1>1
 <2>2. /\ Listed(SecretEnd(TRUE, TRUE)) /\ Listed(SecretEnd(FALSE, TRUE))
       /\ Listed(SecretEnd(TRUE, FALSE)) /\ Listed(SecretEnd(FALSE, FALSE))
  <3>1. /\ \A x, y : Listed(<<x, y>>)
        /\ \A x, y, z : Listed(<<x, y, z>>)
    BY ListedShort
  <3>2. /\ SecretEnd(TRUE, FALSE) = <<Step("end"), Step("pop")>>
        /\ SecretEnd(FALSE, FALSE) = <<Step("end"), Step("pop")>>
    BY SecretEndIs
  <3> QED BY <3>1, <3>2, SecretEndIs
 <2> QED BY <2>1, <2>2
<1> HIDE DEF s, e, p, a, v, b, f, g
<1>5. k.read \in Nat /\ k.read <= Mpis /\ 2 * k.read \in Nat BY <1>1
<1>6. Listed(f) /\ Len(f) = 2 * k.read /\ \A j \in 1 .. 2 * k.read : f[j] = g(j)
 <2>1. f = [j \in 1 .. 2 * k.read |-> f[j]] BY <1>3
 <2> QED BY <1>3, <1>5, <2>1, ListedFun
<1>7. <<a, v>> \o <<b, p>> = <<a, v, b, p>> BY ShortConcat
<1> DEFINE h == <<a, v, b, p>>
<1>8. /\ Listed(h) /\ Len(h) = 4 /\ h[1] = a /\ h[2] = v /\ h[3] = b /\ h[4] = p BY ListedShort
<1>9. s = h \o f \o e BY <1>2, <1>7
<1> HIDE DEF h
<1>10. /\ Listed(h \o f) /\ Len(h \o f) = 4 + 2 * k.read
       /\ \A i \in 1 .. 4 + 2 * k.read : (h \o f)[i] = IF i <= 4 THEN h[i] ELSE f[i - 4]
 <2>1. /\ Listed(h \o f) /\ Len(h \o f) = Len(h) + Len(f)
       /\ \A i \in 1 .. Len(h) + Len(f) : (h \o f)[i] = IF i <= Len(h) THEN h[i] ELSE f[i - Len(h)]
   BY <1>6, <1>8, ListedConcat
 <2> QED BY <1>6, <1>8, <2>1
<1> DEFINE q == h \o f
<1> HIDE DEF q
<1>11. /\ Listed(s) /\ Len(s) = 4 + 2 * k.read + Len(e)
       /\ \A i \in 1 .. 4 + 2 * k.read + Len(e) :
            s[i] = IF i <= 4 + 2 * k.read THEN q[i] ELSE e[i - (4 + 2 * k.read)]
 <2>1. Listed(q) /\ Len(q) = 4 + 2 * k.read /\ s = q \o e BY <1>9, <1>10 DEF q
 <2>2. /\ Listed(q \o e) /\ Len(q \o e) = Len(q) + Len(e)
       /\ \A i \in 1 .. Len(q) + Len(e) : (q \o e)[i] = IF i <= Len(q) THEN q[i] ELSE e[i - Len(q)]
   BY <1>4, <2>1, ListedConcat
 <2> QED BY <2>1, <2>2
<1>12. Len(e) \in Nat BY <1>4, ListedFacts
<1> DEFINE m == 2 * k.read
           n == Len(e)
<1>13. m \in Nat /\ n \in Nat BY <1>5, <1>12
<1> HIDE DEF m, n
<1>14. ASSUME NEW i \in 1 .. 4 PROVE s[i] = h[i]
 <2>1. i \in 1 .. 4 + m + n /\ i <= 4 + m /\ i \in 1 .. 4 + m /\ i <= 4 BY <1>13
 <2>2. q[i] = h[i] BY <1>10, <2>1 DEF q, m
 <2> QED BY <1>11, <2>1, <2>2 DEF m, n
<1>15. ASSUME NEW j \in 1 .. 2 * k.read PROVE s[4 + j] = g(j)
 <2>1. /\ 4 + j \in 1 .. 4 + m + n /\ 4 + j <= 4 + m
       /\ 4 + j \in 1 .. 4 + m /\ ~(4 + j <= 4) /\ 4 + j - 4 = j
   BY <1>13 DEF m
 <2>2. q[4 + j] = f[j] BY <1>10, <2>1 DEF q, m
 <2> QED BY <1>6, <1>11, <2>1, <2>2 DEF m, n
<1>16. ASSUME NEW i \in 1 .. Len(e) PROVE s[4 + 2 * k.read + i] = e[i]
 <2>1. /\ 4 + m + i \in 1 .. 4 + m + n
       /\ ~(4 + m + i <= 4 + m)
       /\ 4 + m + i - (4 + m) = i
   BY <1>13 DEF n
 <2> DEFINE w == 4 + m + i
 <2>2. w \in 1 .. 4 + m + n /\ ~(w <= 4 + m) /\ w - (4 + m) = i BY <1>13, <2>1 DEF n
 <2> HIDE DEF w
 <2>3. \A l \in 1 .. 4 + m + n : s[l] = IF l <= 4 + m THEN q[l] ELSE e[l - (4 + m)]
   BY <1>11 DEF m, n
 <2>4. s[w] = e[i] BY <2>2, <2>3
 <2> QED BY <2>4 DEF m, w
<1>17. s[1] = a /\ s[2] = v /\ s[3] = b /\ s[4] = p BY <1>8, <1>14
<1>18. /\ k.read \in Nat /\ k.read <= Mpis /\ Listed(s) /\ Listed(e)
       /\ Len(s) = 4 + 2 * k.read + Len(e)
  BY <1>4, <1>5, <1>11
<1> QED BY <1>15, <1>16, <1>17, <1>18 DEF s, e, p, a, v, b, g

\* A secret key's script, before each of its steps.
LEMMA SecretHead ==
  ASSUME NEW k \in SecretKeys, NEW at \in 1 .. 4
  PROVE  LET r == Rest(parse_secret_key(k), at)
         IN  /\ Listed(r) /\ r # <<>> /\ at + 1 \in 1 .. EndAt(k)
             /\ Tail(r) = Rest(parse_secret_key(k), at + 1)
             /\ at = 1 => Head(r) = limited_read(1, <<>>)
             /\ at = 2 => Head(r) = Step(IF k.v3 THEN "version3" ELSE "version4")
             /\ at = 3 => Head(r) = Step("set_key")
             /\ at = 4 => Head(r) = [Step("push") EXCEPT !.n = Total(k.ends) + 2, !.key = "secret"]
<1> DEFINE s == parse_secret_key(k)
           e == SecretEnd(k.v3, k.ok)
           r == Rest(s, at)
<1>1. /\ k.read \in Nat /\ Listed(s) /\ Listed(e) /\ Len(s) = 4 + 2 * k.read + Len(e)
      /\ s[1] = limited_read(1, <<>>)
      /\ s[2] = Step(IF k.v3 THEN "version3" ELSE "version4")
      /\ s[3] = Step("set_key")
      /\ s[4] = [Step("push") EXCEPT !.n = Total(k.ends) + 2, !.key = "secret"]
  BY SecretSteps
<1> HIDE DEF s, e
<1>2. Len(e) \in Nat BY <1>1, ListedFacts
<1>3. at \in 1 .. Len(s) + 1 /\ at <= Len(s) /\ at + 1 \in 1 .. EndAt(k)
 <2>1. k.read \in Nat /\ Len(s) = 4 + 2 * k.read + Len(e) BY <1>1
 <2> QED BY <1>2, <2>1, SMTT(30) DEF EndAt
<1>4. Listed(r) /\ r # <<>> /\ Head(r) = s[at] /\ Tail(r) = Rest(s, at + 1)
  BY <1>1, <1>3, RestFacts
<1> QED BY <1>1, <1>3, <1>4 DEF s

\* A secret key's script, where it reads its numbers.
LEMMA SecretNumber ==
  ASSUME NEW k \in SecretKeys, NEW at \in 5 .. EndAt(k) - 1
  PROVE  LET r == Rest(parse_secret_key(k), at)
             h == Head(r)
         IN  /\ Listed(r) /\ r # <<>> /\ at + 1 \in 1 .. EndAt(k)
             /\ Tail(r) = Rest(parse_secret_key(k), at + 1)
             /\ h.op = "read" /\ h.n \in Nat /\ h.mpi \in BOOLEAN /\ h.exact = FALSE
             /\ h.key = IF k.v3 THEN "v3" ELSE "v4"
             /\ h.fail = <<Step("end"), Step("pop")>>
             /\ StartOf(k, at) \in Nat /\ StartOf(k, at + 1) = StartOf(k, at) + h.n
<1> DEFINE s == parse_secret_key(k)
           e == SecretEnd(k.v3, k.ok)
           r == Rest(s, at)
           j == at - 4
           i == (j + 1) \div 2
           key == IF k.v3 THEN "v3" ELSE "v4"
           t == limited_read_mpi(Length(k.ends, i), key, SecretEnd(k.v3, FALSE))
<1>1. /\ k.read \in Nat /\ k.read <= Mpis /\ Listed(s) /\ Listed(e)
      /\ Len(s) = 4 + 2 * k.read + Len(e)
  BY SecretSteps
<1>2. ASSUME NEW l \in 1 .. 2 * k.read
      PROVE  s[4 + l] = LET m == (l + 1) \div 2
                        IN  limited_read_mpi(Length(k.ends, m), key, SecretEnd(k.v3, FALSE))[l - 2 * (m - 1)]
  BY SecretSteps
<1>3. Len(e) \in Nat BY <1>1, ListedFacts
<1>4. /\ at \in 1 .. Len(s) + 1 /\ at <= Len(s) /\ at + 1 \in 1 .. EndAt(k)
      /\ j \in 1 .. 2 * k.read /\ 4 + j = at
  BY <1>1, <1>3 DEF EndAt
<1>5. Listed(r) /\ r # <<>> /\ Head(r) = s[at] /\ Tail(r) = Rest(s, at + 1)
 <2> HIDE DEF s
 <2> QED BY <1>1, <1>4, RestFacts
<1>6. s[at] = t[j - 2 * (i - 1)] BY <1>2, <1>4
<1>7. /\ i \in 1 .. k.read /\ i \in 1 .. Mpis /\ i \in Nat
      /\ (j = 2 * i - 1 \/ j = 2 * i)
 <2> DEFINE n == k.read
            l == at - 4
 <2>1. n \in Nat /\ n <= Mpis /\ Mpis \in Nat /\ l \in 1 .. 2 * n BY <1>1, <1>4, ConstantFacts
 <2> HIDE DEF n, l
 <2>2. /\ (l + 1) \div 2 \in 1 .. n /\ (l + 1) \div 2 \in 1 .. Mpis /\ (l + 1) \div 2 \in Nat
       /\ (l = 2 * ((l + 1) \div 2) - 1 \/ l = 2 * ((l + 1) \div 2))
   BY <2>1
 <2> QED BY <2>2 DEF n, l
<1>8. SecretEnd(k.v3, FALSE) = <<Step("end"), Step("pop")>>
 <2>1. k.v3 \in BOOLEAN BY DEF SecretKeys
 <2> QED BY <2>1, SecretEndIs
<1>9. k.ends \in Layouts BY DEF SecretKeys
<1>10. /\ k.ends[i] \in Nat /\ k.ends[i - 1] \in Nat /\ Length(k.ends, i) \in Nat
       /\ k.ends[i - 1] + 2 + Length(k.ends, i) = k.ends[i]
 <2>1. i \in 0 .. Mpis /\ i - 1 \in 0 .. Mpis BY <1>7, ConstantFacts
 <2>2. /\ k.ends[i] \in Nat /\ k.ends[i - 1] \in Nat BY <1>9, <2>1, LayoutFacts
 <2> QED BY <1>7, <1>9, <2>2, LayoutFacts
<1>11. /\ t[1].op = "read" /\ t[1].n = 2 /\ t[1].mpi = TRUE /\ t[1].exact = FALSE
       /\ t[1].key = key /\ t[1].fail = SecretEnd(k.v3, FALSE)
       /\ t[2].op = "read" /\ t[2].n = Length(k.ends, i) /\ t[2].mpi = FALSE
       /\ t[2].exact = FALSE /\ t[2].key = key /\ t[2].fail = SecretEnd(k.v3, FALSE)
 <2>1. NumberReads(t, Length(k.ends, i), key, SecretEnd(k.v3, FALSE)) BY NumberFacts
 <2> HIDE DEF t, key
 <2> QED BY <2>1 DEF NumberReads
<1>12. StartOf(k, at) = k.ends[i - 1] + (IF j = 2 * i THEN 2 ELSE 0)
 <2>1. at - 3 = j + 1 BY <1>4
 <2>2. StartOf(k, at) = k.ends[(at - 3) \div 2 - 1] + (IF at - 4 = 2 * ((at - 3) \div 2) THEN 2 ELSE 0)
   BY DEF StartOf
 <2> QED BY <2>1, <2>2
<1> HIDE DEF s, e, t, key, r
<1>13. CASE j = 2 * i - 1
 <2>1. j - 2 * (i - 1) = 1 /\ j # 2 * i BY <1>7, <1>13
 <2>2. StartOf(k, at + 1) = k.ends[i - 1] + 2
  <3>1. (at + 1 - 3) \div 2 = i /\ at + 1 - 4 = 2 * i BY <1>4, <1>7, <1>13
  <3> QED BY <3>1 DEF StartOf
 <2>3. StartOf(k, at) = k.ends[i - 1] BY <1>10, <1>12, <2>1
 <2>4. s[at] = t[1] BY <1>6, <2>1
 <2>5. StartOf(k, at) \in Nat /\ StartOf(k, at + 1) = StartOf(k, at) + 2 BY <1>10, <2>2, <2>3
 <2>6. r # <<>> /\ Head(r) = t[1] /\ 2 \in Nat BY <1>5, <2>4
 <2> QED BY <1>4, <1>5, <1>8, <1>11, <2>5, <2>6 DEF s, r, key
<1>14. CASE j = 2 * i
 <2>1. j - 2 * (i - 1) = 2 BY <1>7, <1>14
 <2>2. StartOf(k, at + 1) = k.ends[i]
  <3>1. (at + 1 - 3) \div 2 = i + 1 /\ at + 1 - 4 # 2 * (i + 1) /\ i + 1 - 1 = i
    BY <1>4, <1>7, <1>14
  <3>2. StartOf(k, at + 1) = k.ends[i] + 0 BY <3>1 DEF StartOf
  <3> QED BY <1>10, <3>2
 <2>3. StartOf(k, at) = k.ends[i - 1] + 2 BY <1>10, <1>12, <1>14
 <2>4. s[at] = t[2] BY <1>6, <2>1
 <2>5. StartOf(k, at) \in Nat /\ StartOf(k, at + 1) = StartOf(k, at) + Length(k.ends, i)
   BY <1>10, <2>2, <2>3
 <2>6. r # <<>> /\ Head(r) = t[2] BY <1>5, <2>4
 <2> QED BY <1>4, <1>5, <1>8, <1>10, <1>11, <2>5, <2>6 DEF s, r, key
<1> QED BY <1>7, <1>13, <1>14

\* A secret key's script, after its numbers.
LEMMA SecretLast ==
  ASSUME NEW k \in SecretKeys
  PROVE  LET r == Rest(parse_secret_key(k), EndAt(k))
         IN  /\ Listed(r) /\ r # <<>> /\ Head(r) = Step("end") /\ EndAt(k) \in Nat /\ EndAt(k) >= 5
             /\ Tail(r) = IF ~k.ok THEN <<Step("pop")>>
                          ELSE IF k.v3 THEN <<Step("pop"), limited_read(2, <<>>)>>
                               ELSE <<limited_read(2, <<Step("leave")>>), Step("pop")>>
             /\ k.ends[Mpis] \in Nat /\ StartOf(k, 5) = 0
             /\ StartOf(k, EndAt(k)) = k.ends[k.read]
<1> DEFINE s == parse_secret_key(k)
           e == SecretEnd(k.v3, k.ok)
           r == Rest(s, EndAt(k))
<1>1. /\ k.read \in Nat /\ k.read <= Mpis /\ Listed(s) /\ Listed(e)
      /\ Len(s) = 4 + 2 * k.read + Len(e)
      /\ \A i \in 1 .. Len(e) : s[4 + 2 * k.read + i] = e[i]
  BY SecretSteps
<1>2. k.v3 \in BOOLEAN /\ k.ok \in BOOLEAN /\ k.ends \in Layouts BY DEF SecretKeys
<1>3. /\ Len(e) \in Nat /\ Len(e) > 0 /\ e # <<>> /\ Head(e) = Step("end")
      /\ Tail(e) = IF ~k.ok THEN <<Step("pop")>>
                   ELSE IF k.v3 THEN <<Step("pop"), limited_read(2, <<>>)>>
                        ELSE <<limited_read(2, <<Step("leave")>>), Step("pop")>>
 <2>1. \A a, b : /\ Len(<<a, b>>) = 2 /\ Head(<<a, b>>) = a /\ Tail(<<a, b>>) = <<b>> OBVIOUS
 <2>2. \A a, b, c : /\ Len(<<a, b, c>>) = 3 /\ Head(<<a, b, c>>) = a /\ Tail(<<a, b, c>>) = <<b, c>>
   OBVIOUS
 <2>3. CASE ~k.ok
  <3>1. e = <<Step("end"), Step("pop")>> BY <1>2, <2>3, SecretEndIs
  <3>2. Len(e) = 2 /\ Head(e) = Step("end") /\ Tail(e) = <<Step("pop")>> BY <2>1, <3>1
  <3>3. e # <<>> BY <1>1, <3>2, ListedFacts
  <3> HIDE DEF e
  <3> QED BY <2>3, <3>2, <3>3
 <2>4. CASE k.ok /\ k.v3
  <3>1. e = <<Step("end"), Step("pop"), limited_read(2, <<>>)>> BY <1>2, <2>4, SecretEndIs
  <3>2. /\ Len(e) = 3 /\ Head(e) = Step("end")
        /\ Tail(e) = <<Step("pop"), limited_read(2, <<>>)>>
    BY <2>2, <3>1
  <3>3. e # <<>> BY <1>1, <3>2, ListedFacts
  <3> HIDE DEF e
  <3> QED BY <2>4, <3>2, <3>3
 <2>5. CASE k.ok /\ ~k.v3
  <3>1. e = <<Step("end"), limited_read(2, <<Step("leave")>>), Step("pop")>>
    BY <1>2, <2>5, SecretEndIs
  <3>2. /\ Len(e) = 3 /\ Head(e) = Step("end")
        /\ Tail(e) = <<limited_read(2, <<Step("leave")>>), Step("pop")>>
    BY <2>2, <3>1
  <3>3. e # <<>> BY <1>1, <3>2, ListedFacts
  <3> HIDE DEF e
  <3> QED BY <2>5, <3>2, <3>3
 <2> QED BY <1>2, <2>3, <2>4, <2>5
<1> HIDE DEF s, e, r
<1> DEFINE m == 4 + 2 * k.read
<1>4. m \in Nat /\ EndAt(k) = m + 1 /\ m >= 4 BY <1>1 DEF EndAt
<1>5. Len(s) = m + Len(e) /\ \A i \in 1 .. Len(e) : s[m + i] = e[i] BY <1>1
<1> HIDE DEF m
<1>6. EndAt(k) \in 1 .. Len(s) + 1 /\ EndAt(k) <= Len(s) /\ 1 \in 1 .. Len(e) BY <1>3, <1>4, <1>5
<1>7. /\ Listed(r) /\ Len(r) = Len(s) - EndAt(k) + 1
      /\ \A i \in 1 .. Len(s) - EndAt(k) + 1 : r[i] = s[EndAt(k) + i - 1]
  BY <1>1, <1>6, RestFacts DEF r
<1>8. Len(r) = Len(e) /\ \A i \in 1 .. Len(r) : r[i] = e[i]
 <2>1. Len(s) - EndAt(k) + 1 = Len(e) BY <1>3, <1>4, <1>5
 <2>2. ASSUME NEW i \in 1 .. Len(e) PROVE r[i] = e[i]
  <3>1. EndAt(k) + i - 1 = m + i BY <1>4
  <3> QED BY <1>5, <1>7, <2>1, <3>1
 <2> QED BY <1>7, <2>1, <2>2
<1>9. r = e BY <1>1, <1>7, <1>8, ListedEqual
<1>10. \A i \in 0 .. Mpis : k.ends[i] \in Nat BY <1>2, LayoutFacts
<1>11. k.ends[Mpis] \in Nat /\ k.ends[k.read] \in Nat /\ k.ends[0] = 0
 <2>1. Mpis \in 0 .. Mpis /\ k.read \in 0 .. Mpis BY <1>1, ConstantFacts
 <2> QED BY <1>2, <1>10, <2>1, LayoutFacts
<1>12. StartOf(k, 5) = 0 BY <1>11 DEF StartOf
<1>13. StartOf(k, EndAt(k)) = k.ends[k.read]
 <2>1. /\ (EndAt(k) - 3) \div 2 = k.read + 1 /\ k.read + 1 - 1 = k.read
       /\ EndAt(k) - 4 # 2 * (k.read + 1)
   BY <1>1 DEF EndAt
 <2> DEFINE f == EndAt(k)
            h == (f - 3) \div 2
 <2>2. StartOf(k, f) = k.ends[h - 1] + (IF f - 4 = 2 * h THEN 2 ELSE 0) BY DEF StartOf
 <2>3. h = k.read + 1 /\ k.read \in Nat BY <1>1, <2>1
 <2> HIDE DEF h
 <2>4. h - 1 = k.read /\ f - 4 # 2 * h BY <2>1, <2>3
 <2> HIDE DEF h, f
 <2>5. StartOf(k, f) = k.ends[k.read] + 0 BY <2>2, <2>4
 <2> QED BY <1>11, <2>5 DEF f
<1>14. EndAt(k) \in Nat /\ EndAt(k) >= 5 BY <1>4
<1> QED BY <1>3, <1>7, <1>9, <1>11, <1>12, <1>13, <1>14 DEF r, s

\* The first step of a short script, and the others.
LEMMA TupleFacts ==
  /\ \A a : <<a>> # <<>> /\ Head(<<a>>) = a /\ Tail(<<a>>) = <<>>
  /\ \A a, b : <<a, b>> # <<>> /\ Head(<<a, b>>) = a /\ Tail(<<a, b>>) = <<b>>
  /\ \A a, b, c : <<a, b, c>> # <<>> /\ Head(<<a, b, c>>) = a /\ Tail(<<a, b, c>>) = <<b, c>>
  /\ \A a, b, c, d :
       <<a, b, c, d>> # <<>> /\ Head(<<a, b, c, d>>) = a /\ Tail(<<a, b, c, d>>) = <<b, c, d>>
<1>1. \A a : <<a>> # <<>> /\ Head(<<a>>) = a /\ Tail(<<a>>) = <<>>
 <2>1. SUFFICES ASSUME NEW a PROVE <<a>> # <<>> /\ Head(<<a>>) = a /\ Tail(<<a>>) = <<>> OBVIOUS
 <2> DEFINE s == <<a>>
 <2>2. Listed(s) /\ Len(s) = 1 /\ s[1] = a BY ListedShort
 <2> HIDE DEF s
 <2>3. s # <<>> BY <2>2, ListedFacts
 <2>4. Listed(Tail(s)) /\ Len(Tail(s)) = 0 /\ Head(s) = a BY <2>2, <2>3, ListedTail
 <2>5. Tail(s) = <<>> BY <2>4, ListedFacts
 <2> QED BY <2>3, <2>4, <2>5 DEF s
<1>2. \A a, b : <<a, b>> # <<>> /\ Head(<<a, b>>) = a /\ Tail(<<a, b>>) = <<b>> OBVIOUS
<1>3. \A a, b, c : <<a, b, c>> # <<>> /\ Head(<<a, b, c>>) = a /\ Tail(<<a, b, c>>) = <<b, c>>
  OBVIOUS
<1>4. \A a, b, c, d :
        <<a, b, c, d>> # <<>> /\ Head(<<a, b, c, d>>) = a /\ Tail(<<a, b, c, d>>) = <<b, c, d>>
  OBVIOUS
<1> QED BY <1>1, <1>2, <1>3, <1>4

\* What a container has left to do.
OpenStep(t) ==
  /\ Listed(t) /\ t # <<>>
  /\ Head(t).op \in {"read", "resync", "parse", "pop"}
  /\ Head(t).exact => Head(t).op = "read"
  /\ Head(t).op = "read" =>
       /\ Head(t).n \in Nat /\ Head(t).mpi = FALSE /\ Head(t).exact \in BOOLEAN
       /\ Head(t).key = "none"
       /\ Head(t).fail \in {<<>>, <<Step("pop")>>}
       /\ Tail(t) \in OpenScripts
       /\ ~Head(t).exact => Tail(t) = <<Step("pop")>>
       /\ Head(Tail(t)).op # "read" /\ Head(Tail(t)).exact = FALSE
  /\ Head(t).op = "resync" => t = <<Step("resync"), Step("parse"), Step("pop")>>
  /\ Head(t).op = "parse" => t = <<Step("parse"), Step("pop")>>
  /\ Head(t).op = "pop" => t = <<Step("pop")>>
\* Each script of OpenScripts is as OpenStep says.
LEMMA OpenFacts ==
  ASSUME NEW t \in OpenScripts PROVE OpenStep(t)
<1> DEFINE x  == exact_limited_read(BlockSize + 2)
           re == Step("resync")
           pa == Step("parse")
           po == Step("pop")
<1>1. /\ x.op = "read" /\ x.n = BlockSize + 2 /\ x.mpi = FALSE /\ x.exact = TRUE
      /\ x.key = "none" /\ x.fail = <<>>
  BY StepFacts
<1>2. /\ re.op = "resync" /\ re.exact = FALSE /\ pa.op = "parse" /\ pa.exact = FALSE
      /\ po.op = "pop" /\ po.exact = FALSE
  BY StepFacts
<1>3. BlockSize + 2 \in Nat BY ConstantFacts
<1>4. /\ <<re, pa, po>> \in OpenScripts /\ <<pa, po>> \in OpenScripts /\ <<po>> \in OpenScripts
  BY DEF OpenScripts
<1>5. /\ t \in {<<x, re, pa, po>>, <<x, po>>, <<re, pa, po>>, <<pa, po>>, <<po>>}
      \/ \E len \in Lengths : t = <<limited_read(len, <<po>>), po>>
  BY DEF OpenScripts
<1> HIDE DEF x, re, pa, po
<1>6. CASE t = <<x, re, pa, po>>
 <2>1. Listed(t) /\ t # <<>> /\ Head(t) = x /\ Tail(t) = <<re, pa, po>> /\ Head(Tail(t)) = re
   BY <1>6, ListedShort, TupleFacts
 <2> QED BY <1>1, <1>2, <1>3, <1>4, <2>1 DEF OpenStep
<1>7. CASE t = <<x, po>>
 <2>1. Listed(t) /\ t # <<>> /\ Head(t) = x /\ Tail(t) = <<po>> /\ Head(Tail(t)) = po
   BY <1>7, ListedShort, TupleFacts
 <2> QED BY <1>1, <1>2, <1>3, <1>4, <2>1 DEF OpenStep
<1>8. CASE t = <<re, pa, po>>
 <2>1. Listed(t) /\ t # <<>> /\ Head(t) = re BY <1>8, ListedShort, TupleFacts
 <2> QED BY <1>2, <1>8, <2>1 DEF OpenStep, re, pa, po
<1>9. CASE t = <<pa, po>>
 <2>1. Listed(t) /\ t # <<>> /\ Head(t) = pa BY <1>9, ListedShort, TupleFacts
 <2> QED BY <1>2, <1>9, <2>1 DEF OpenStep, pa, po
<1>10. CASE t = <<po>>
 <2>1. Listed(t) /\ t # <<>> /\ Head(t) = po BY <1>10, ListedShort, TupleFacts
 <2> QED BY <1>2, <1>10, <2>1 DEF OpenStep, po
<1>11. CASE \E len \in Lengths : t = <<limited_read(len, <<po>>), po>>
 <2>1. PICK len \in Lengths : t = <<limited_read(len, <<po>>), po>> BY <1>11
 <2> DEFINE y == limited_read(len, <<po>>)
 <2>2. /\ y.op = "read" /\ y.n = len /\ y.mpi = FALSE /\ y.exact = FALSE
       /\ y.key = "none" /\ y.fail = <<po>>
   BY StepFacts
 <2>3. len \in Nat BY LengthFacts
 <2> HIDE DEF y
 <2>4. Listed(t) /\ t # <<>> /\ Head(t) = y /\ Tail(t) = <<po>> /\ Head(Tail(t)) = po
   BY <2>1, ListedShort, TupleFacts DEF y
 <2>5. y.fail \in {<<>>, <<Step("pop")>>} /\ <<po>> = <<Step("pop")>> BY <2>2 DEF po
 <2> QED BY <1>2, <1>4, <2>2, <2>3, <2>4, <2>5 DEF OpenStep
<1> QED BY <1>5, <1>6, <1>7, <1>8, <1>9, <1>10, <1>11

\* What a secret key has left to do after its numbers.
ClosingStep(t) ==
  /\ Listed(t) /\ t # <<>>
  /\ Head(t).op \in {"end", "pop", "leave", "read"} /\ Head(t).exact = FALSE
  /\ Head(t).op = "end" => Tail(t) = <<Step("pop")>>
  /\ Head(t).op = "pop" => t = <<Step("pop")>>
  /\ Head(t).op = "leave" => t = <<Step("leave")>>
  /\ Head(t).op = "read" =>
       /\ Head(t).n = 2 /\ Head(t).mpi = FALSE /\ Head(t).key = "none"
       /\ Head(t).fail = <<Step("leave")>> /\ Tail(t) = <<Step("pop")>>
\* Each script of ClosingScripts is as ClosingStep says.
LEMMA ClosingFacts ==
  ASSUME NEW t \in ClosingScripts PROVE ClosingStep(t)
<1> DEFINE x  == limited_read(2, <<Step("leave")>>)
           en == Step("end")
           le == Step("leave")
           po == Step("pop")
<1>1. /\ x.op = "read" /\ x.n = 2 /\ x.mpi = FALSE /\ x.exact = FALSE
      /\ x.key = "none" /\ x.fail = <<Step("leave")>>
  BY StepFacts
<1>2. /\ en.op = "end" /\ en.exact = FALSE /\ le.op = "leave" /\ le.exact = FALSE
      /\ po.op = "pop" /\ po.exact = FALSE
  BY StepFacts
<1>3. t \in {<<en, po>>, <<po>>, <<le>>, <<x, po>>} BY DEF ClosingScripts
<1>4. <<po>> = <<Step("pop")>> /\ <<le>> = <<Step("leave")>> OBVIOUS
<1> HIDE DEF x, en, le, po
<1>5. CASE t = <<en, po>>
 <2>1. Listed(t) /\ t # <<>> /\ Head(t) = en /\ Tail(t) = <<po>> BY <1>5, ListedShort, TupleFacts
 <2> QED BY <1>2, <1>4, <2>1 DEF ClosingStep
<1>6. CASE t = <<po>>
 <2>1. Listed(t) /\ t # <<>> /\ Head(t) = po BY <1>6, ListedShort, TupleFacts
 <2> QED BY <1>2, <1>4, <1>6, <2>1 DEF ClosingStep
<1>7. CASE t = <<le>>
 <2>1. Listed(t) /\ t # <<>> /\ Head(t) = le BY <1>7, ListedShort, TupleFacts
 <2> QED BY <1>2, <1>4, <1>7, <2>1 DEF ClosingStep
<1>8. CASE t = <<x, po>>
 <2>1. Listed(t) /\ t # <<>> /\ Head(t) = x /\ Tail(t) = <<po>> BY <1>8, ListedShort, TupleFacts
 <2> QED BY <1>1, <1>4, <2>1 DEF ClosingStep
<1> QED BY <1>3, <1>5, <1>6, <1>7, <1>8

\* A script that only reads, without a reader of its own.
LEMMA IdleFacts ==
  ASSUME NEW s \in Seq(IdleSteps)
  PROVE  /\ Listed(s)
         /\ s # <<>> => /\ Head(s) \in IdleSteps /\ Tail(s) \in Seq(IdleSteps)
                        /\ Head(s).op \in {"read", "version3", "version4"} /\ Head(s).n \in Nat
                        /\ Head(s).mpi \in BOOLEAN /\ Head(s).exact = FALSE
                        /\ Head(s).key = "none" /\ Head(s).fail = <<>>
<1>1. Listed(s) BY ListedIn
<1>2. ASSUME s # <<>> PROVE Head(s) \in IdleSteps /\ Tail(s) \in Seq(IdleSteps)
  BY <1>2, HeadTailProperties
<1>3. \A h \in IdleSteps : /\ h.op \in {"read", "version3", "version4"} /\ h.n \in Nat
                           /\ h.mpi \in BOOLEAN /\ h.exact = FALSE
                           /\ h.key = "none" /\ h.fail = <<>>
  BY DEF IdleSteps
<1> QED BY <1>1, <1>2, <1>3

\* The scripts of the packets that have no reader of their own.
LEMMA IdleScripts ==
  /\ <<>> \in Seq(IdleSteps)
  /\ \A n \in Nat : <<limited_read(n, <<>>)>> \in Seq(IdleSteps)
  /\ \A n \in Nat : limited_read_mpi(n, "none", <<>>) \in Seq(IdleSteps)
  /\ \A v3 \in BOOLEAN : SecretKeyLocked(v3) \in Seq(IdleSteps)
<1>1. <<>> \in Seq(IdleSteps) BY EmptySeq
<1>2. \A n \in Nat : limited_read(n, <<>>) \in IdleSteps BY DEF limited_read, Step, IdleSteps
<1>3. ASSUME NEW n \in Nat PROVE limited_read_mpi(n, "none", <<>>) \in Seq(IdleSteps)
 <2> DEFINE a == [Step("read") EXCEPT !.n = 2, !.mpi = TRUE, !.key = "none", !.fail = <<>>]
            b == [Step("read") EXCEPT !.n = n, !.key = "none", !.fail = <<>>]
 <2>1. a \in IdleSteps /\ b \in IdleSteps BY DEF Step, IdleSteps
 <2>2. limited_read_mpi(n, "none", <<>>) = <<a, b>> BY DEF limited_read_mpi
 <2> HIDE DEF a, b
 <2>3. <<a, b>> \in Seq(IdleSteps) BY <2>1
 <2> QED BY <2>2, <2>3
<1>4. ASSUME NEW v3 \in BOOLEAN PROVE SecretKeyLocked(v3) \in Seq(IdleSteps)
 <2> DEFINE a == limited_read(1, <<>>)
            v == Step(IF v3 THEN "version3" ELSE "version4")
 <2>1. SecretKeyLocked(v3) = <<a, v>> \o <<a>> BY DEF SecretKeyLocked, parse_public_key_data
 <2>2. a \in IdleSteps BY <1>2
 <2>3. v \in IdleSteps BY DEF Step, IdleSteps
 <2> HIDE DEF a, v
 <2>4. <<a, v>> \o <<a>> = <<a, v, a>> BY ShortConcat
 <2>5. <<a, v, a>> \in Seq(IdleSteps) BY <2>2, <2>3
 <2> QED BY <2>1, <2>4, <2>5
<1>5. ASSUME NEW n \in Nat PROVE <<limited_read(n, <<>>)>> \in Seq(IdleSteps)
 <2> DEFINE a == limited_read(n, <<>>)
 <2>1. a \in IdleSteps BY <1>2
 <2> HIDE DEF a
 <2> QED BY <2>1 DEF a
<1> QED BY <1>1, <1>3, <1>4, <1>5

\* What a packet has to do: to read, or to read a secret key.
LEMMA PacketFacts ==
  ASSUME NEW p \in Packets
  PROVE  \/ p \in Seq(IdleSteps)
         \/ \E k \in SecretKeys : p = Rest(parse_secret_key(k), 1) /\ 1 \in 1 .. EndAt(k)
<1>1. CASE \E v3 \in BOOLEAN : p = SecretKeyLocked(v3) BY <1>1, IdleScripts
<1>2. CASE \E n \in 1 .. MaxMpi : p = limited_read_mpi(n, "none", <<>>)
 <2>1. PICK n \in 1 .. MaxMpi : p = limited_read_mpi(n, "none", <<>>) BY <1>2
 <2>2. n \in Nat BY ConstantFacts
 <2> QED BY <2>1, <2>2, IdleScripts
<1>3. ASSUME NEW k \in SecretKeys, p = parse_secret_key(k)
      PROVE  p = Rest(parse_secret_key(k), 1) /\ 1 \in 1 .. EndAt(k)
 <2> DEFINE s == parse_secret_key(k)
            r == Rest(s, 1)
 <2>1. Listed(s) /\ k.read \in Nat BY SecretSteps
 <2>2. Len(s) \in Nat BY <2>1, ListedFacts
 <2> HIDE DEF s
 <2>3. 1 \in 1 .. Len(s) + 1 BY <2>2
 <2>4. /\ Listed(r) /\ Len(r) = Len(s) - 1 + 1
       /\ \A i \in 1 .. Len(s) - 1 + 1 : r[i] = s[1 + i - 1]
   BY <2>1, <2>3, RestFacts
 <2> HIDE DEF r
 <2>5. Len(r) = Len(s) /\ \A i \in 1 .. Len(s) : r[i] = s[i] BY <2>2, <2>4
 <2>6. r = s BY <2>1, <2>4, <2>5, ListedEqual
 <2>7. 1 \in 1 .. EndAt(k) BY <2>1 DEF EndAt
 <2> QED BY <1>3, <2>6, <2>7 DEF r, s
<1>4. \/ \E v3 \in BOOLEAN : p = SecretKeyLocked(v3)
      \/ \E k \in SecretKeys : p = parse_secret_key(k)
      \/ \E n \in 1 .. MaxMpi : p = limited_read_mpi(n, "none", <<>>)
  BY DEF Packets
<1> QED BY <1>1, <1>2, <1>3, <1>4

\* What a container has to do before its reader is there.
LEMMA ContainerFacts ==
  ASSUME NEW p \in Containers
  PROVE  \E len \in Lengths, t \in OpenScripts : p \in Pushing(len, t)
<1> DEFINE x  == exact_limited_read(BlockSize + 2)
           rd == limited_read(1, <<>>)
           re == Step("resync")
           pa == Step("parse")
           po == Step("pop")
<1>1. CASE \E len \in Lengths, okay \in BOOLEAN : p = ops_decrypt_se_data(len, okay)
 <2>1. PICK len \in Lengths, okay \in BOOLEAN : p = ops_decrypt_se_data(len, okay) BY <1>1
 <2> DEFINE pu == PushStep(len)
 <2>2. p = (<<rd, pu, x>> \o (IF okay THEN <<re, pa>> ELSE <<>>)) \o <<po>>
   BY <2>1 DEF ops_decrypt_se_data, PushStep
 <2>3. <<x, re, pa, po>> \in OpenScripts /\ <<x, po>> \in OpenScripts BY DEF OpenScripts
 <2>4. \A q \in {<<x, re, pa, po>>, <<x, po>>} :
         <<rd>> \o (<<pu>> \o q) \in Pushing(len, q)
   BY DEF Pushing
 <2> HIDE DEF x, rd, re, pa, po, pu
 <2>5. CASE okay
  <3> DEFINE s == <<rd, pu, x>>
             u == <<re, pa>>
             w == <<rd, pu, x, re, pa>>
             v == <<po>>
             z == <<rd, pu, x, re, pa, po>>
             q == <<x, re, pa, po>>
  <3>1. w \in Seq({rd, pu, x, re, pa}) /\ z \in Seq({rd, pu, x, re, pa, po}) OBVIOUS
  <3>2. /\ Listed(w) /\ Len(w) = 5 /\ Listed(z) /\ Len(z) = 6
        /\ Listed(s) /\ Len(s) = 3 /\ Listed(u) /\ Len(u) = 2 /\ Listed(v) /\ Len(v) = 1
        /\ Listed(q) /\ Len(q) = 4
    BY <3>1, ListedIn, ListedShort
  <3>3. /\ w[1] = rd /\ w[2] = pu /\ w[3] = x /\ w[4] = re /\ w[5] = pa
        /\ z[1] = rd /\ z[2] = pu /\ z[3] = x /\ z[4] = re /\ z[5] = pa /\ z[6] = po
        /\ s[1] = rd /\ s[2] = pu /\ s[3] = x /\ u[1] = re /\ u[2] = pa /\ v[1] = po
        /\ q[1] = x /\ q[2] = re /\ q[3] = pa /\ q[4] = po
    OBVIOUS
  <3> HIDE DEF s, u, w, v, z, q
  <3>4. s \o u = w
   <4>1. \A i \in 1 .. 5 : w[i] = IF i <= 3 THEN s[i] ELSE u[i - 3] BY <3>3
   <4>2. Len(w) = Len(s) + Len(u) /\ \A i \in 1 .. Len(w) : w[i] = IF i <= Len(s) THEN s[i] ELSE u[i - Len(s)]
     BY <3>2, <4>1
   <4> QED BY <3>2, <4>2, ConcatIs
  <3>5. w \o v = z
   <4>1. \A i \in 1 .. 6 : z[i] = IF i <= 5 THEN w[i] ELSE v[i - 5] BY <3>3
   <4>2. Len(z) = Len(w) + Len(v) /\ \A i \in 1 .. Len(z) : z[i] = IF i <= Len(w) THEN w[i] ELSE v[i - Len(w)]
     BY <3>2, <4>1
   <4> QED BY <3>2, <4>2, ConcatIs, ZenonT(60)
  <3> DEFINE a == <<rd>>
             b == <<pu>>
             c == b \o q
  <3>6. Listed(a) /\ Len(a) = 1 /\ a[1] = rd /\ Listed(b) /\ Len(b) = 1 /\ b[1] = pu
    BY ListedShort
  <3> HIDE DEF a, b
  <3>7. /\ Listed(c) /\ Len(c) = 5 /\ \A i \in 1 .. 5 : c[i] = IF i <= 1 THEN b[i] ELSE q[i - 1]
   <4>1. /\ Listed(b \o q) /\ Len(b \o q) = Len(b) + Len(q)
         /\ \A i \in 1 .. Len(b) + Len(q) : (b \o q)[i] = IF i <= Len(b) THEN b[i] ELSE q[i - Len(b)]
     BY <3>2, <3>6, ListedConcat
   <4>2. Len(b) = 1 /\ Len(q) = 4 /\ Len(b) + Len(q) = 5 BY <3>2, <3>6
   <4> QED BY <4>1, <4>2
  <3> HIDE DEF c
  <3>8. a \o c = z
   <4>1. \A i \in 1 .. 6 : z[i] = IF i <= 1 THEN a[i] ELSE c[i - 1] BY <3>3, <3>6, <3>7
   <4>2. Len(z) = Len(a) + Len(c) /\ \A i \in 1 .. Len(z) : z[i] = IF i <= Len(a) THEN a[i] ELSE c[i - Len(a)]
     BY <3>2, <3>6, <3>7, <4>1
   <4>3. Listed(a) /\ Listed(c) /\ Listed(z) BY <3>2, <3>6, <3>7
   <4> QED BY <4>2, <4>3, ConcatIs
  <3>9. p = (s \o u) \o v BY <2>2, <2>5 DEF s, u, v
  <3>10. p = a \o (b \o q) BY <3>4, <3>5, <3>8, <3>9 DEF c
  <3>11. q \in OpenScripts /\ a \o (b \o q) \in Pushing(len, q) BY <2>3, <2>4 DEF a, b, q
  <3> QED BY <3>10, <3>11
 <2>6. CASE ~okay
  <3> DEFINE s == <<rd, pu, x>>
             v == <<po>>
             w == <<>>
             z == <<rd, pu, x, po>>
             q == <<x, po>>
  <3>2. /\ Listed(z) /\ Len(z) = 4 /\ Listed(w) /\ Len(w) = 0
        /\ Listed(s) /\ Len(s) = 3 /\ Listed(v) /\ Len(v) = 1
        /\ Listed(q) /\ Len(q) = 2
    BY ListedShort
  <3>3. /\ z[1] = rd /\ z[2] = pu /\ z[3] = x /\ z[4] = po
        /\ s[1] = rd /\ s[2] = pu /\ s[3] = x /\ v[1] = po /\ q[1] = x /\ q[2] = po
    OBVIOUS
  <3> HIDE DEF s, w, v, z, q
  <3>4. s \o w = s
   <4>2. Len(s) = Len(s) + Len(w) /\ \A i \in 1 .. Len(s) : s[i] = IF i <= Len(s) THEN s[i] ELSE w[i - Len(s)]
     BY <3>2
   <4> QED BY <3>2, <4>2, ConcatIs
  <3>5. s \o v = z
   <4>1. \A i \in 1 .. 4 : z[i] = IF i <= 3 THEN s[i] ELSE v[i - 3] BY <3>3
   <4>2. Len(z) = Len(s) + Len(v) /\ \A i \in 1 .. Len(z) : z[i] = IF i <= Len(s) THEN s[i] ELSE v[i - Len(s)]
     BY <3>2, <4>1
   <4> QED BY <3>2, <4>2, ConcatIs
  <3> DEFINE a == <<rd>>
             b == <<pu>>
             c == b \o q
  <3>6. Listed(a) /\ Len(a) = 1 /\ a[1] = rd /\ Listed(b) /\ Len(b) = 1 /\ b[1] = pu
    BY ListedShort
  <3> HIDE DEF a, b
  <3>7. /\ Listed(c) /\ Len(c) = 3 /\ \A i \in 1 .. 3 : c[i] = IF i <= 1 THEN b[i] ELSE q[i - 1]
   <4>1. /\ Listed(b \o q) /\ Len(b \o q) = Len(b) + Len(q)
         /\ \A i \in 1 .. Len(b) + Len(q) : (b \o q)[i] = IF i <= Len(b) THEN b[i] ELSE q[i - Len(b)]
     BY <3>2, <3>6, ListedConcat
   <4>2. Len(b) = 1 /\ Len(q) = 2 /\ Len(b) + Len(q) = 3 BY <3>2, <3>6
   <4> QED BY <4>1, <4>2
  <3> HIDE DEF c
  <3>8. a \o c = z
   <4>1. \A i \in 1 .. 4 : z[i] = IF i <= 1 THEN a[i] ELSE c[i - 1] BY <3>3, <3>6, <3>7
   <4>2. Len(z) = Len(a) + Len(c) /\ \A i \in 1 .. Len(z) : z[i] = IF i <= Len(a) THEN a[i] ELSE c[i - Len(a)]
     BY <3>2, <3>6, <3>7, <4>1
   <4>3. Listed(a) /\ Listed(c) /\ Listed(z) BY <3>2, <3>6, <3>7
   <4> QED BY <4>2, <4>3, ConcatIs
  <3>9. p = (s \o w) \o v BY <2>2, <2>6 DEF s, w, v
  <3>10. p = a \o (b \o q) BY <3>4, <3>5, <3>8, <3>9 DEF c
  <3>11. q \in OpenScripts /\ a \o (b \o q) \in Pushing(len, q) BY <2>3, <2>4 DEF a, b, q
  <3> QED BY <3>10, <3>11
 <2> QED BY <2>5, <2>6
<1>2. CASE \E len \in Lengths : p = ops_decrypt_se_ip_data(len)
 <2>1. PICK len \in Lengths : p = ops_decrypt_se_ip_data(len) BY <1>2
 <2> DEFINE pu == PushStep(len)
            y  == limited_read(len, <<Step("pop")>>)
            q  == <<y, po>>
 <2>2. p = <<pu, y, po>> BY <2>1 DEF ops_decrypt_se_ip_data, PushStep
 <2>3. q \in OpenScripts BY DEF OpenScripts
 <2>4. <<pu>> \o q \in Pushing(len, q) BY DEF Pushing
 <2> HIDE DEF po, pu, y
 <2> DEFINE z == <<pu, y, po>>
            b == <<pu>>
 <2>5. /\ Listed(z) /\ Len(z) = 3 /\ Listed(b) /\ Len(b) = 1 /\ Listed(q) /\ Len(q) = 2
       /\ z[1] = pu /\ z[2] = y /\ z[3] = po /\ b[1] = pu /\ q[1] = y /\ q[2] = po
   BY ListedShort
 <2> HIDE DEF z, b, q
 <2>6. b \o q = z
  <3>1. \A i \in 1 .. 3 : z[i] = IF i <= 1 THEN b[i] ELSE q[i - 1] BY <2>5
  <3>2. Len(z) = Len(b) + Len(q) /\ \A i \in 1 .. Len(z) : z[i] = IF i <= Len(b) THEN b[i] ELSE q[i - Len(b)]
    BY <2>5, <3>1
  <3> QED BY <2>5, <3>2, ConcatIs
 <2>7. p = b \o q BY <2>2, <2>6 DEF z
 <2>8. b \o q \in Pushing(len, q) BY <2>4 DEF b
 <2> QED BY <2>3, <2>7, <2>8
<1> QED BY <1>1, <1>2 DEF Containers

\* The steps of a container before its reader is there.
PushingStep(s, len, t) ==
  /\ Listed(s) /\ s # <<>>
  /\ Head(s).op \in {"read", "push"} /\ Head(s).exact = FALSE
  /\ Head(s).op = "read" =>
       /\ Head(s).n = 1 /\ Head(s).mpi = FALSE /\ Head(s).key = "none" /\ Head(s).fail = <<>>
       /\ Tail(s) \in Pushing(len, t)
  /\ Head(s).op = "push" => Head(s).n = len /\ Head(s).key = "session" /\ Tail(s) = t
\* Each script of Pushing is as PushingStep says.
LEMMA PushingFacts ==
  ASSUME NEW len, NEW t, Listed(t), NEW s \in Pushing(len, t) PROVE PushingStep(s, len, t)
<1> DEFINE pu == PushStep(len)
           rd == limited_read(1, <<>>)
           q  == <<pu>> \o t
<1>1. pu.op = "push" /\ pu.n = len /\ pu.key = "session" /\ pu.exact = FALSE BY StepFacts
<1>2. rd.op = "read" /\ rd.n = 1 /\ rd.mpi = FALSE /\ rd.exact = FALSE /\ rd.key = "none" /\ rd.fail = <<>>
  BY StepFacts
<1>3. s \in {q, <<rd>> \o q} /\ q \in Pushing(len, t) BY DEF Pushing
<1>4. Listed(q) /\ q # <<>> /\ Head(q) = pu /\ Tail(q) = t BY ConsFacts
<1> HIDE DEF pu, rd, q
<1>5. CASE s = q BY <1>1, <1>4, <1>5 DEF PushingStep
<1>6. CASE s = <<rd>> \o q
 <2>1. Listed(s) /\ s # <<>> /\ Head(s) = rd /\ Tail(s) = q BY <1>4, <1>6, ConsFacts
 <2> QED BY <1>2, <1>3, <2>1 DEF PushingStep
<1> QED BY <1>3, <1>5, <1>6

\* A handler's script is put in place of the one on top.
LEMMA UnderFacts ==
  ASSUME Listed(scripts), scripts # <<>>, NEW x, NEW u, u = Under(x)
  PROVE  /\ Listed(u) /\ u # <<>> /\ Len(u) = Len(scripts) /\ u[Len(u)] = x
         /\ \A i \in 1 .. Len(scripts) - 1 : u[i] = scripts[i]
         /\ Len(scripts) \in Nat \ {0}
<1>1. Len(scripts) \in Nat /\ Len(scripts) # 0 BY ListedFacts
<1> DEFINE f == Front(scripts)
<1>2. /\ Listed(f) /\ Len(f) = Len(scripts) - 1
      /\ \A i \in 1 .. Len(scripts) - 1 : f[i] = scripts[i]
  BY ListedFront
<1>3. u = Append(f, x) BY DEF Under
<1> HIDE DEF f
<1>4. /\ Listed(Append(f, x)) /\ Len(Append(f, x)) = Len(f) + 1
      /\ Append(f, x)[Len(f) + 1] = x
      /\ \A i \in 1 .. Len(f) : Append(f, x)[i] = f[i]
  BY <1>2, ListedAppend
<1>5. Listed(u) /\ Len(u) = Len(f) + 1 /\ u[Len(f) + 1] = x /\ \A i \in 1 .. Len(f) : u[i] = f[i]
  BY <1>3, <1>4
<1>6. Len(u) = Len(scripts) /\ Len(u) = Len(f) + 1 BY <1>1, <1>2, <1>5
<1>7. u # <<>> BY <1>1, <1>5, <1>6, ListedFacts
<1> QED BY <1>1, <1>2, <1>5, <1>6, <1>7

\* A secret key's script, step by step.
KeyStep(s, k, at) ==
  /\ Listed(s) /\ s # <<>> /\ Head(s).exact = FALSE
  /\ at # EndAt(k) => at + 1 \in 1 .. EndAt(k) /\ Tail(s) = Rest(parse_secret_key(k), at + 1)
  /\ at = 1 => /\ Head(s).op = "read" /\ Head(s).n = 1 /\ Head(s).mpi = FALSE
               /\ Head(s).key = "none" /\ Head(s).fail = <<>>
  /\ at = 2 => Head(s).op = IF k.v3 THEN "version3" ELSE "version4"
  /\ at = 3 => Head(s).op = "set_key"
  /\ at = 4 => Head(s).op = "push" /\ Head(s).n = k.ends[Mpis] + 2 /\ Head(s).key = "secret"
  /\ at > 4 /\ at # EndAt(k) =>
       /\ Head(s).op = "read" /\ Head(s).n \in Nat /\ Head(s).mpi \in BOOLEAN
       /\ Head(s).key = (IF k.v3 THEN "v3" ELSE "v4")
       /\ Head(s).fail = <<Step("end"), Step("pop")>>
       /\ StartOf(k, at) \in Nat /\ StartOf(k, at + 1) = StartOf(k, at) + Head(s).n
  /\ at = EndAt(k) =>
       /\ Head(s).op = "end"
       /\ Tail(s) = IF ~k.ok THEN <<Step("pop")>>
                    ELSE IF k.v3 THEN <<Step("pop"), limited_read(2, <<>>)>>
                         ELSE <<limited_read(2, <<Step("leave")>>), Step("pop")>>
       /\ StartOf(k, EndAt(k)) = k.ends[k.read]
\* A secret key's script is as KeyStep says, whatever its place.
LEMMA KeyFacts ==
  ASSUME NEW k \in SecretKeys, NEW at \in 1 .. EndAt(k), NEW s,
         s = Rest(parse_secret_key(k), at)
  PROVE  /\ KeyStep(s, k, at) /\ k.v3 \in BOOLEAN /\ k.ok \in BOOLEAN
         /\ k.ok => k.read = Mpis
         /\ k.ends[Mpis] \in Nat /\ StartOf(k, 5) = 0 /\ EndAt(k) \in Nat /\ EndAt(k) > 4
<1>1. /\ EndAt(k) \in Nat /\ EndAt(k) > 4 /\ k.ends[Mpis] \in Nat /\ StartOf(k, 5) = 0
      /\ k.v3 \in BOOLEAN /\ k.ok \in BOOLEAN /\ (k.ok => k.read = Mpis)
 <2>1. EndAt(k) \in Nat /\ EndAt(k) >= 5 /\ k.ends[Mpis] \in Nat /\ StartOf(k, 5) = 0
   BY SecretLast
 <2>2. k.v3 \in BOOLEAN /\ k.ok \in BOOLEAN /\ (k.ok => k.read = Mpis) BY DEF SecretKeys
 <2> QED BY <2>1, <2>2
<1> DEFINE r(i) == Rest(parse_secret_key(k), i)
<1>2. CASE at \in 1 .. 4
 <2>1. /\ Listed(s) /\ s # <<>> /\ at + 1 \in 1 .. EndAt(k)
       /\ Tail(s) = r(at + 1)
       /\ at = 1 => Head(s) = limited_read(1, <<>>)
       /\ at = 2 => Head(s) = Step(IF k.v3 THEN "version3" ELSE "version4")
       /\ at = 3 => Head(s) = Step("set_key")
       /\ at = 4 => Head(s) = [Step("push") EXCEPT !.n = Total(k.ends) + 2, !.key = "secret"]
   BY <1>2, SecretHead
 <2> DEFINE h == Head(s)
 <2>2. at = 1 => /\ h.op = "read" /\ h.n = 1 /\ h.mpi = FALSE /\ h.key = "none" /\ h.fail = <<>>
                 /\ h.exact = FALSE
   BY <2>1, StepFacts
 <2>3. /\ at = 2 => h.op = (IF k.v3 THEN "version3" ELSE "version4") /\ h.exact = FALSE
       /\ at = 3 => h.op = "set_key" /\ h.exact = FALSE
  <3> DEFINE v == IF k.v3 THEN "version3" ELSE "version4"
  <3> HIDE DEF v
  <3>1. at = 2 => Head(s) = Step(v) BY <2>1 DEF v
  <3>2. at = 2 => h.op = v /\ h.exact = FALSE BY <3>1, StepFacts
  <3>3. at = 3 => h.op = "set_key" /\ h.exact = FALSE BY <2>1, StepFacts
  <3> QED BY <3>2, <3>3 DEF v
 <2>4. at = 4 => /\ h.op = "push" /\ h.n = k.ends[Mpis] + 2 /\ h.key = "secret"
                 /\ h.exact = FALSE
   BY <2>1 DEF Step, Total
 <2>5. at # EndAt(k) /\ at \in {1, 2, 3, 4} /\ ~(at > 4) BY <1>1, <1>2
 <2>6. h.exact = FALSE BY <2>2, <2>3, <2>4, <2>5
 <2> HIDE DEF h
 <2>7. KeyStep(s, k, at) BY <2>1, <2>2, <2>3, <2>4, <2>5, <2>6 DEF KeyStep, h
 <2> QED BY <1>1, <2>7
<1>3. CASE at \in 5 .. EndAt(k) - 1
 <2>1. /\ Listed(s) /\ s # <<>> /\ at + 1 \in 1 .. EndAt(k)
       /\ Tail(s) = r(at + 1)
       /\ Head(s).op = "read" /\ Head(s).n \in Nat /\ Head(s).mpi \in BOOLEAN
       /\ Head(s).exact = FALSE
       /\ Head(s).key = (IF k.v3 THEN "v3" ELSE "v4")
       /\ Head(s).fail = <<Step("end"), Step("pop")>>
       /\ StartOf(k, at) \in Nat /\ StartOf(k, at + 1) = StartOf(k, at) + Head(s).n
   BY <1>3, SecretNumber
 <2>2. at # EndAt(k) /\ at # 1 /\ at # 2 /\ at # 3 /\ at # 4 /\ at > 4 BY <1>1, <1>3
 <2>3. KeyStep(s, k, at) BY <2>1, <2>2 DEF KeyStep
 <2> QED BY <1>1, <2>3
<1>4. CASE at = EndAt(k)
 <2>1. /\ Listed(s) /\ s # <<>> /\ Head(s) = Step("end")
       /\ Tail(s) = IF ~k.ok THEN <<Step("pop")>>
                    ELSE IF k.v3 THEN <<Step("pop"), limited_read(2, <<>>)>>
                         ELSE <<limited_read(2, <<Step("leave")>>), Step("pop")>>
       /\ StartOf(k, EndAt(k)) = k.ends[k.read]
   BY <1>4, SecretLast
 <2>2. Head(s).op = "end" /\ Head(s).exact = FALSE BY <2>1, StepFacts
 <2>3. at # 1 /\ at # 2 /\ at # 3 /\ at # 4 BY <1>1, <1>4
 <2>4. KeyStep(s, k, at) BY <1>4, <2>1, <2>2, <2>3 DEF KeyStep
 <2> QED BY <1>1, <2>4
<1> QED BY <1>1, <1>2, <1>3, <1>4

\* What the handler on top may do next.
KeyAt(k, at) ==
  /\ k \in SecretKeys /\ at \in 1 .. EndAt(k) /\ KeyStep(Script, k, at)
  /\ KeyBegun(k, at) \/ KeyRead(k, at)
Opening(len, t) ==
  /\ len \in Lengths /\ t \in OpenScripts /\ Enough(0) /\ Sessions(Depth)
  /\ \/ Now.op = "session_key" /\ Tail(Script) \in Pushing(len, t) /\ readers = <<>>
     \/ /\ PushingStep(Script, len, t)
        /\ readers = <<>> => ciphers["session"] = std_set_iv
Closing ==
  /\ ClosingTop
  /\ \/ ClosingStep(Script)
     \/ /\ Script = <<Step("pop"), limited_read(2, <<>>)>> /\ Now.op = "pop"
        /\ Reader.decrypted = <<>> /\ Reader.left = 2
Which ==
  /\ Script = <<>> => BaseTop \/ IdleTop
  /\ Script # <<>> => Now.op \in {"read", "version3", "version4", "end", "session_key",
                                   "set_key", "push", "pop", "resync", "parse", "leave"}
  /\ Script # <<>> /\ Now.op = "read" =>
       /\ Now.n \in Nat /\ Now.mpi \in BOOLEAN /\ Now.exact \in BOOLEAN
       /\ \/ IdleTop
          \/ \E len, t : Opening(len, t)
          \/ SessionTop
          \/ \E k : KeyAt(k, 1) /\ KeyBegun(k, 1)
          \/ \E k, at : KeyAt(k, at) /\ KeyRead(k, at) /\ at # EndAt(k)
          \/ Closing
  /\ Script # <<>> /\ Now.op \in {"version3", "version4"} =>
       IdleTop \/ \E k : KeyAt(k, 2) /\ KeyBegun(k, 2)
  /\ Script # <<>> /\ Now.op = "end" =>
       (\E k : KeyAt(k, EndAt(k)) /\ KeyRead(k, EndAt(k))) \/ Closing
  /\ Script # <<>> /\ Now.op = "session_key" => \E len, t : Opening(len, t)
  /\ Script # <<>> /\ Now.op = "set_key" => \E k : KeyAt(k, 3) /\ KeyBegun(k, 3)
  /\ Script # <<>> /\ Now.op = "push" =>
       (\E len, t : Opening(len, t)) \/ \E k : KeyAt(k, 4) /\ KeyBegun(k, 4)
  /\ Script # <<>> /\ Now.op = "pop" => SessionTop \/ Closing
  /\ Script # <<>> /\ Now.op \in {"resync", "parse"} => SessionTop \/ BaseTop
  /\ Script # <<>> /\ Now.op = "resync" => SessionTop
  /\ Script # <<>> /\ Now.op = "leave" => Closing
\* The next step tells what kind of handler is on top.
LEMMA WhichFacts ==
  ASSUME OnTop PROVE Listed(Script) /\ Which
<1> USE DEF Now
<1>0. 1 \in Nat /\ 2 \in Nat OBVIOUS
<1>1. CASE BaseTop
 <2>1. Script \in {<<Step("parse")>>, <<>>} BY <1>1 DEF BaseTop
 <2>2. CASE Script = <<>>
  <3>1. Listed(Script) BY <2>2, ListedShort
  <3> QED BY <1>1, <2>2, <3>1 DEF Which
 <2>3. CASE Script = <<Step("parse")>>
  <3>1. Listed(Script) /\ Script # <<>> /\ Head(Script) = Step("parse")
    BY <2>3, ListedShort, TupleFacts
  <3>2. Now.op = "parse" BY <3>1, StepFacts
  <3> QED BY <1>1, <3>1, <3>2 DEF Which
 <2> QED BY <2>1, <2>2, <2>3
<1>2. CASE IdleTop
 <2>1. Script \in Seq(IdleSteps) BY <1>2 DEF IdleTop
 <2>2. /\ Listed(Script)
       /\ Script # <<>> => /\ Now.op \in {"read", "version3", "version4"} /\ Now.n \in Nat
                           /\ Now.mpi \in BOOLEAN /\ Now.exact \in BOOLEAN
   BY <2>1, IdleFacts
 <2>3. Which BY <1>2, <2>2 DEF Which
 <2> QED BY <2>2, <2>3
<1>3. CASE ContainerTop
 <2>1. PICK len \in Lengths, t \in OpenScripts :
         \/ \E s \in Pushing(len, t) : Script = parse_pk_session_key \o s /\ readers = <<>>
         \/ Script \in Pushing(len, t) /\ (readers = <<>> => ciphers["session"] = std_set_iv)
   BY <1>3 DEF ContainerTop
 <2>2. Listed(t) /\ Enough(0) /\ Sessions(Depth) BY <1>3, OpenFacts DEF OpenStep, ContainerTop
 <2>3. CASE \E s \in Pushing(len, t) : Script = parse_pk_session_key \o s /\ readers = <<>>
  <3>1. PICK s \in Pushing(len, t) : Script = <<Step("session_key")>> \o s /\ readers = <<>>
    BY <2>3 DEF parse_pk_session_key
  <3>2. Listed(s) BY <2>2, PushingFacts DEF PushingStep
  <3>3. Listed(Script) /\ Script # <<>> /\ Now = Step("session_key") /\ Tail(Script) = s
    BY <3>1, <3>2, ConsFacts
  <3>4. Now.op = "session_key" BY <3>3, StepFacts
  <3>5. Opening(len, t) BY <2>2, <3>1, <3>3, <3>4 DEF Opening
  <3> QED BY <3>3, <3>4, <3>5 DEF Which
 <2>4. CASE Script \in Pushing(len, t) /\ (readers = <<>> => ciphers["session"] = std_set_iv)
  <3>1. PushingStep(Script, len, t) BY <2>2, <2>4, PushingFacts
  <3>2. Opening(len, t) BY <2>2, <2>4, <3>1 DEF Opening
  <3>3. /\ Listed(Script) /\ Script # <<>> /\ Now.op \in {"read", "push"} /\ Now.exact = FALSE
        /\ Now.op = "read" => Now.n = 1 /\ Now.mpi = FALSE
    BY <3>1 DEF PushingStep
  <3>4. Now.op = "read" => Now.n \in Nat /\ Now.mpi \in BOOLEAN /\ Now.exact \in BOOLEAN
    BY <1>0, <3>3, Zenon
  <3>5. \E l, u : Opening(l, u) BY <3>2
  <3> QED BY <3>3, <3>4, <3>5 DEF Which
 <2> QED BY <2>1, <2>3, <2>4
<1>4. CASE SessionTop
 <2>1. OpenStep(Script) BY <1>4, OpenFacts DEF SessionTop
 <2>2. /\ Listed(Script) /\ Script # <<>> /\ Now.op \in {"read", "resync", "parse", "pop"}
       /\ Now.op = "read" => Now.n \in Nat /\ Now.mpi = FALSE /\ Now.exact \in BOOLEAN
   BY <2>1 DEF OpenStep
 <2> QED BY <1>4, <2>2 DEF Which
<1>5. CASE SecretTop
 <2>0. PICK k \in SecretKeys :
         \E at \in 1 .. EndAt(k) :
           Script = Rest(parse_secret_key(k), at) /\ (KeyBegun(k, at) \/ KeyRead(k, at))
   BY <1>5 DEF SecretTop
 <2>1. PICK at \in 1 .. EndAt(k) :
         Script = Rest(parse_secret_key(k), at) /\ (KeyBegun(k, at) \/ KeyRead(k, at))
   BY <2>0
 <2>2. KeyStep(Script, k, at) /\ EndAt(k) \in Nat /\ EndAt(k) > 4 BY <2>1, KeyFacts
 <2>3. KeyAt(k, at) BY <2>1, <2>2 DEF KeyAt
 <2>4. Listed(Script) /\ Script # <<>> /\ Now.exact = FALSE BY <2>2 DEF KeyStep
 <2>5. CASE KeyBegun(k, at)
  <3>1. at \in {1, 2, 3, 4} BY <2>5 DEF KeyBegun
  <3>2. /\ at = 1 => Now.op = "read" /\ Now.n = 1 /\ Now.mpi = FALSE
        /\ at = 2 => Now.op \in {"version3", "version4"}
        /\ at = 3 => Now.op = "set_key"
        /\ at = 4 => Now.op = "push"
    BY <2>2 DEF KeyStep
  <3>3. CASE at = 1
   <4>1. /\ Now.op = "read" /\ Now.n \in Nat /\ Now.mpi \in BOOLEAN /\ Now.exact \in BOOLEAN
     BY <1>0, <2>4, <3>2, <3>3, Zenon
   <4>2. KeyAt(k, 1) /\ KeyBegun(k, 1) BY <2>3, <2>5, <3>3
   <4> QED BY <2>4, <4>1, <4>2 DEF Which
  <3>4. CASE at = 2 BY <2>3, <2>4, <2>5, <3>2, <3>4 DEF Which
  <3>5. CASE at = 3 BY <2>3, <2>4, <2>5, <3>2, <3>5 DEF Which
  <3>6. CASE at = 4 BY <2>3, <2>4, <2>5, <3>2, <3>6 DEF Which
  <3> QED BY <3>1, <3>3, <3>4, <3>5, <3>6
 <2>6. CASE KeyRead(k, at)
  <3>1. at > 4 BY <2>6 DEF KeyRead
  <3>2. /\ at # EndAt(k) => Now.op = "read" /\ Now.n \in Nat /\ Now.mpi \in BOOLEAN
        /\ at = EndAt(k) => Now.op = "end"
    BY <2>2, <3>1 DEF KeyStep
  <3>3. CASE at = EndAt(k) BY <2>3, <2>4, <2>6, <3>2, <3>3 DEF Which
  <3>4. CASE at # EndAt(k) BY <2>3, <2>4, <2>6, <3>2, <3>4 DEF Which
  <3> QED BY <3>3, <3>4
 <2> QED BY <2>1, <2>5, <2>6
<1>6. CASE ClosingTop
 <2>1. CASE Script \in ClosingScripts
  <3>1. ClosingStep(Script) BY <2>1, ClosingFacts
  <3>2. Closing BY <1>6, <3>1 DEF Closing
  <3>3. /\ Listed(Script) /\ Script # <<>> /\ Now.op \in {"end", "pop", "leave", "read"}
        /\ Now.exact = FALSE /\ (Now.op = "read" => Now.n = 2 /\ Now.mpi = FALSE)
    BY <3>1 DEF ClosingStep
  <3>4. Now.op = "read" => Now.n \in Nat /\ Now.mpi \in BOOLEAN /\ Now.exact \in BOOLEAN
    BY <1>0, <3>3, Zenon
  <3> QED BY <3>2, <3>3, <3>4 DEF Which
 <2>2. CASE /\ Script = <<Step("pop"), limited_read(2, <<>>)>>
            /\ Reader.decrypted = <<>> /\ Reader.left = 2
  <3>1. Listed(Script) /\ Script # <<>> /\ Now = Step("pop") BY <2>2, ListedShort, TupleFacts
  <3>2. Now.op = "pop" BY <3>1, StepFacts
  <3>3. Closing BY <1>6, <2>2, <3>2 DEF Closing
  <3> QED BY <3>1, <3>2, <3>3 DEF Which
 <2> QED BY <1>6, <2>1, <2>2 DEF ClosingTop
<1> QED BY <1>1, <1>2, <1>3, <1>4, <1>5, <1>6 DEF OnTop

-----------------------------------------------------------------------------
(* The steps of the parser: what is left to do. *)

\* Another script in place of the one on top.
LEMMA LowerUnder ==
  ASSUME Listed(scripts), Lower, scripts # <<>>, NEW x, scripts' = Under(x)
  PROVE  /\ Lower' /\ Listed(scripts') /\ scripts' # <<>> /\ Len(scripts') = Len(scripts)
         /\ Script' = x /\ Len(scripts) \in Nat
<1> DEFINE u == Under(x)
<1>1. /\ Listed(u) /\ u # <<>> /\ Len(u) = Len(scripts) /\ u[Len(u)] = x
      /\ \A i \in 1 .. Len(scripts) - 1 : u[i] = scripts[i]
      /\ Len(scripts) \in Nat \ {0}
  BY UnderFacts
<1>2. DOMAIN scripts = 1 .. Len(scripts) /\ DOMAIN u = 1 .. Len(scripts) BY <1>1, ListedFacts
<1> HIDE DEF u
<1>3. scripts' = u BY DEF u
<1>4. \A i \in 1 .. Len(scripts) - 1 :
        scripts[i] = IF i = 1 THEN <<Step("parse")>> ELSE <<Step("parse"), Step("pop")>>
  BY <1>1, <1>2 DEF Lower
<1>5. Lower'
 <2>1. \A i \in DOMAIN u : i < Len(u) =>
         u[i] = IF i = 1 THEN <<Step("parse")>> ELSE <<Step("parse"), Step("pop")>>
   BY <1>1, <1>2, <1>4
 <2> QED BY <1>3, <2>1 DEF Lower
<1>6. Script' = x BY <1>1, <1>3 DEF Script
<1> QED BY <1>1, <1>3, <1>5, <1>6

\* What holds before every step of the parser.
LEMMA DoingFacts ==
  ASSUME Shapes, Scripted, NEW op, Doing(op)
  PROVE  /\ mode = "run" /\ calls = <<>> /\ scripts # <<>> /\ Script # <<>> /\ Now.op = op
         /\ Listed(scripts) /\ Listed(readers) /\ Lower /\ Which /\ Listed(Script)
         /\ Len(scripts) \in Nat /\ Depth \in Nat
<1>1. /\ mode = "run" /\ calls = <<>> /\ scripts # <<>> /\ Script # <<>> /\ Now.op = op
  BY DEF Doing, Running
<1>2. Listed(scripts) /\ Listed(readers) BY DEF Shapes
<1>3. Lower /\ OnTop BY <1>1 DEF Scripted
<1>4. Which /\ Listed(Script) BY <1>3, WhichFacts
<1>5. Len(scripts) \in Nat /\ Depth \in Nat BY <1>2, ListedFacts DEF Depth
<1> QED BY <1>1, <1>2, <1>3, <1>4, <1>5

\* Before a packet: a handler of the packets in the stream, or in a container.
LEMMA ParseFacts ==
  ASSUME Shapes, Scripted, Doing("parse")
  PROVE  /\ Sessions(Depth) /\ Len(scripts) >= 1 /\ Depth >= Len(scripts) - 1
         /\ \/ Len(scripts) = 1 /\ Script = <<Step("parse")>> /\ BaseTop
            \/ Len(scripts) > 1 /\ Script = <<Step("parse"), Step("pop")>> /\ SessionTop
<1>1. /\ Script # <<>> /\ Now.op = "parse" /\ Which /\ Len(scripts) \in Nat /\ Depth \in Nat
  BY DoingFacts
<1>2. SessionTop \/ BaseTop BY <1>1 DEF Which
<1>3. CASE BaseTop BY <1>1, <1>3 DEF BaseTop
<1>4. CASE SessionTop
 <2>1. OpenStep(Script) /\ Enough(1) /\ Sessions(Depth) BY <1>4, OpenFacts DEF SessionTop
 <2>2. Script = <<Step("parse"), Step("pop")>> BY <1>1, <2>1 DEF OpenStep, Now
 <2>3. Len(scripts) > 1 /\ Depth >= Len(scripts) - 1 BY <1>1, <2>1 DEF Enough
 <2> QED BY <1>1, <1>4, <2>1, <2>2, <2>3
<1> QED BY <1>2, <1>3, <1>4

\* A packet is begun: its handler's script is one of those of OnTop.
LEMMA ParsePacketScripts ==
  ASSUME Shapes, Scripted, ParsePacket PROVE Scripted'
<1>1. Doing("parse") /\ readers' = readers /\ ciphers' = ciphers /\ mode' = mode
  BY DEF ParsePacket
<1>2. /\ Listed(scripts) /\ Listed(readers) /\ Lower /\ Len(scripts) \in Nat /\ Depth \in Nat
  BY <1>1, DoingFacts
<1>3. /\ Sessions(Depth) /\ Len(scripts) >= 1 /\ Depth >= Len(scripts) - 1
      /\ \/ Len(scripts) = 1 /\ Script = <<Step("parse")>>
         \/ Len(scripts) > 1 /\ Script = <<Step("parse"), Step("pop")>>
  BY <1>1, ParseFacts
<1>4. PICK p : /\ scripts' = Append(scripts, p)
               /\ \/ p \in Packets
                  \/ \E c \in Containers :
                       p = IF readers = <<>> THEN parse_pk_session_key \o c ELSE c
  BY DEF ParsePacket
<1>5. /\ Listed(scripts') /\ Len(scripts') = Len(scripts) + 1
      /\ scripts'[Len(scripts) + 1] = p /\ \A i \in 1 .. Len(scripts) : scripts'[i] = scripts[i]
  BY <1>2, <1>4, ListedAppend
<1>6. DOMAIN scripts' = 1 .. Len(scripts) + 1 /\ DOMAIN scripts = 1 .. Len(scripts)
  BY <1>2, <1>5, ListedFacts
<1>7. Script' = p BY <1>5 DEF Script
<1>8. Lower'
 <2>1. SUFFICES ASSUME NEW i \in 1 .. Len(scripts)
                PROVE  scripts'[i] = IF i = 1 THEN <<Step("parse")>> ELSE <<Step("parse"), Step("pop")>>
   BY <1>2, <1>5, <1>6 DEF Lower
 <2>2. CASE i < Len(scripts) BY <1>2, <1>5, <1>6, <2>2 DEF Lower
 <2>3. CASE i = Len(scripts)
  <3>1. scripts'[i] = Script BY <1>5, <2>3 DEF Script
  <3> QED BY <1>3, <2>3, <3>1
 <2> QED BY <1>2, <2>2, <2>3
<1>9. Enough(0)' /\ Sessions(Depth)'
 <2>1. Enough(0)' BY <1>1, <1>2, <1>3, <1>5 DEF Enough, Depth
 <2> QED BY <1>1, <1>3, <2>1 DEF Sessions, Depth
<1>10. CASE p \in Packets
 <2>1. CASE p \in Seq(IdleSteps) BY <1>7, <1>8, <1>9, <2>1 DEF Scripted, OnTop, IdleTop
 <2>2. CASE \E k \in SecretKeys : p = Rest(parse_secret_key(k), 1) /\ 1 \in 1 .. EndAt(k)
  <3>1. PICK k \in SecretKeys : p = Rest(parse_secret_key(k), 1) /\ 1 \in 1 .. EndAt(k) BY <2>2
  <3>2. KeyBegun(k, 1)' BY <1>9 DEF KeyBegun
  <3>3. SecretTop' BY <1>7, <3>1, <3>2 DEF SecretTop
  <3> QED BY <1>8, <3>3 DEF Scripted, OnTop
 <2> QED BY <1>10, <2>1, <2>2, PacketFacts
<1>11. CASE \E c \in Containers : p = IF readers = <<>> THEN parse_pk_session_key \o c ELSE c
 <2>1. PICK c \in Containers : p = IF readers = <<>> THEN parse_pk_session_key \o c ELSE c
   BY <1>11
 <2>2. PICK len \in Lengths, t \in OpenScripts : c \in Pushing(len, t) BY ContainerFacts
 <2>3. \/ Script' = parse_pk_session_key \o c /\ readers' = <<>>
       \/ Script' \in Pushing(len, t) /\ readers' # <<>>
   BY <1>1, <1>7, <2>1, <2>2
 <2>4. ContainerTop' BY <1>9, <2>2, <2>3 DEF ContainerTop
 <2> QED BY <1>8, <2>4 DEF Scripted, OnTop
<1> QED BY <1>4, <1>10, <1>11

\* No more packets are parsed: what is left of the handler.
LEMMA ParseEndScripts ==
  ASSUME Shapes, Scripted, ParseEnd PROVE Scripted'
<1>1. /\ Doing("parse") /\ readers' = readers /\ ciphers' = ciphers /\ mode' = mode
      /\ calls' = calls /\ scripts' = Under(Tail(Script))
  BY DEF ParseEnd, Advance
<1>2. /\ Listed(scripts) /\ Lower /\ scripts # <<>> /\ Depth \in Nat BY <1>1, DoingFacts
<1>3. /\ Lower' /\ Len(scripts') = Len(scripts) /\ Script' = Tail(Script)
  BY <1>1, <1>2, LowerUnder
<1>4. /\ Sessions(Depth)
      /\ \/ Len(scripts) = 1 /\ Script = <<Step("parse")>> /\ BaseTop
         \/ Len(scripts) > 1 /\ Script = <<Step("parse"), Step("pop")>> /\ SessionTop
  BY <1>1, ParseFacts
<1>5. Sessions(Depth)' BY <1>1, <1>4 DEF Sessions, Depth
<1>6. CASE Len(scripts) = 1 /\ Script = <<Step("parse")>>
 <2>1. Script' = <<>> BY <1>3, <1>6, TupleFacts
 <2>2. BaseTop' BY <1>3, <1>5, <1>6, <2>1 DEF BaseTop
 <2> QED BY <1>3, <2>2 DEF Scripted, OnTop
<1>7. CASE Script = <<Step("parse"), Step("pop")>> /\ SessionTop
 <2>1. Script' = <<Step("pop")>> BY <1>3, <1>7, TupleFacts
 <2>2. Script' \in OpenScripts BY <2>1 DEF OpenScripts
 <2>3. Head(Script') = Step("pop") BY <2>1, TupleFacts
 <2>4. Now'.op = "pop" /\ Now'.exact = FALSE BY <2>3, StepFacts DEF Now
 <2>5. Enough(1)' BY <1>1, <1>3, <1>7 DEF SessionTop, Enough, Depth
 <2>6. SessionTop' BY <1>5, <2>2, <2>4, <2>5 DEF SessionTop
 <2> QED BY <1>3, <2>6 DEF Scripted, OnTop
<1> QED BY <1>4, <1>6, <1>7

\* A handler returns to the one that parsed its packet.
LEMMA HandlerEndScripts ==
  ASSUME Shapes, Scripted, HandlerEnd PROVE Scripted'
<1>1. /\ mode = "run" /\ mode' = mode /\ calls = <<>> /\ scripts # <<>> /\ Script = <<>>
      /\ readers' = readers /\ ciphers' = ciphers /\ scripts' = Front(scripts)
  BY DEF HandlerEnd, Running
<1>2. Listed(scripts) /\ Listed(readers) /\ Lower /\ OnTop BY <1>1 DEF Shapes, Scripted
<1>3. BaseTop \/ IdleTop BY <1>1, <1>2, WhichFacts DEF Which
<1>4. /\ Len(scripts) \in Nat /\ Len(scripts) > 0 /\ Depth \in Nat
      /\ DOMAIN scripts = 1 .. Len(scripts)
  BY <1>1, <1>2, ListedFacts DEF Depth
<1>5. /\ Listed(scripts') /\ Len(scripts') = Len(scripts) - 1
      /\ \A i \in 1 .. Len(scripts) - 1 : scripts'[i] = scripts[i]
  BY <1>1, <1>2, ListedFront
<1>6. DOMAIN scripts' = 1 .. Len(scripts) - 1 BY <1>5, ListedFacts
<1>7. Lower' BY <1>2, <1>4, <1>5, <1>6 DEF Lower
<1>8. CASE BaseTop
 <2>1. Len(scripts) = 1 BY <1>8 DEF BaseTop
 <2>2. Len(scripts') = 0 BY <1>5, <2>1
 <2>3. scripts' = <<>> BY <1>5, <2>2, ListedFacts
 <2> QED BY <1>7, <2>3 DEF Scripted
<1>9. CASE IdleTop
 <2>1. Len(scripts) >= 2 /\ Depth >= Len(scripts) - 2 /\ Sessions(Depth)
   BY <1>4, <1>9 DEF IdleTop, Enough
 <2>2. Sessions(Depth)' BY <1>1, <2>1 DEF Sessions, Depth
 <2> DEFINE n == Len(scripts) - 1
 <2>3. n \in 1 .. Len(scripts) - 1 /\ n \in DOMAIN scripts /\ n < Len(scripts) BY <1>4, <2>1
 <2>4. Script' = IF n = 1 THEN <<Step("parse")>> ELSE <<Step("parse"), Step("pop")>>
   BY <1>2, <1>5, <2>3 DEF Lower, Script
 <2>5. CASE n = 1
  <3>1. BaseTop' BY <1>5, <2>2, <2>4, <2>5 DEF BaseTop
  <3> QED BY <1>7, <3>1 DEF Scripted, OnTop
 <2>6. CASE n # 1
  <3>1. Script' = <<Step("parse"), Step("pop")>> BY <2>4, <2>6
  <3>2. Script' \in OpenScripts BY <3>1 DEF OpenScripts
  <3>3. Head(Script') = Step("parse") BY <3>1, TupleFacts
  <3>4. Now'.op = "parse" /\ Now'.exact = FALSE BY <3>3, StepFacts DEF Now
  <3>5. Enough(1)' BY <1>1, <1>4, <1>5, <2>1, <2>3, <2>6 DEF Enough, Depth
  <3>6. SessionTop' BY <2>2, <3>2, <3>4, <3>5 DEF SessionTop
  <3> QED BY <1>7, <3>6 DEF Scripted, OnTop
 <2> QED BY <2>5, <2>6
<1> QED BY <1>3, <1>8, <1>9

\* The version is read: reading_v3_secret is the key's.
LEMMA SetVersionScripts ==
  ASSUME Shapes, Scripted, SetVersion PROVE Scripted'
<1>1. PICK op \in {"version3", "version4"} : Doing(op) BY DEF SetVersion
<1>2. /\ readers' = readers /\ ciphers' = ciphers /\ mode' = mode
      /\ calls' = calls /\ scripts' = Under(Tail(Script))
      /\ reading_v3_secret' = (Now.op = "version3")
  BY DEF SetVersion, Advance
<1>3. /\ Listed(scripts) /\ Lower /\ scripts # <<>> /\ Script # <<>> /\ Which /\ Now.op = op
  BY <1>1, DoingFacts
<1>4. /\ Lower' /\ Len(scripts') = Len(scripts) /\ Script' = Tail(Script)
  BY <1>2, <1>3, LowerUnder
<1>5. IdleTop \/ \E k : KeyAt(k, 2) /\ KeyBegun(k, 2) BY <1>3 DEF Which
<1>6. ASSUME Enough(0), Sessions(Depth) PROVE Enough(0)' /\ Sessions(Depth)'
  BY <1>2, <1>4, <1>6 DEF Enough, Sessions, Depth
<1>7. CASE IdleTop
 <2>1. Script \in Seq(IdleSteps) /\ Enough(0)' /\ Sessions(Depth)' BY <1>6, <1>7 DEF IdleTop
 <2>2. Script' \in Seq(IdleSteps) BY <1>3, <1>4, <2>1, IdleFacts
 <2> QED BY <1>4, <2>1, <2>2 DEF Scripted, OnTop, IdleTop
<1>8. CASE \E k : KeyAt(k, 2) /\ KeyBegun(k, 2)
 <2>1. PICK k : KeyAt(k, 2) /\ KeyBegun(k, 2) BY <1>8
 <2>2. /\ k \in SecretKeys /\ KeyStep(Script, k, 2) /\ Enough(0) /\ Sessions(Depth) /\ 2 \in 1 .. EndAt(k)
   BY <2>1 DEF KeyAt, KeyBegun
 <2>3. k.v3 \in BOOLEAN /\ EndAt(k) \in Nat /\ EndAt(k) > 4 BY <2>2, KeyFacts
 <2>4. /\ Tail(Script) = Rest(parse_secret_key(k), 2 + 1) /\ 2 + 1 \in 1 .. EndAt(k)
       /\ Now.op = IF k.v3 THEN "version3" ELSE "version4"
   BY <2>2, <2>3 DEF KeyStep, Now
 <2>5. reading_v3_secret' = k.v3 BY <1>2, <2>3, <2>4
 <2>6. Enough(0)' /\ Sessions(Depth)' BY <1>6, <2>2
 <2>7. KeyBegun(k, 3)' BY <2>5, <2>6 DEF KeyBegun
 <2>8. Script' = Rest(parse_secret_key(k), 3) /\ 3 \in 1 .. EndAt(k) BY <1>4, <2>4
 <2>9. SecretTop' BY <2>2, <2>7, <2>8 DEF SecretTop
 <2> QED BY <1>4, <2>9 DEF Scripted, OnTop
<1> QED BY <1>5, <1>7, <1>8

\* The numbers of a version 3 key have been read to the last: there is nothing
\* in the buffer, and the packet has two units left.
LEMMA SecretReadScripts ==
  ASSUME Shapes, Scripted, SecretRead PROVE Scripted'
<1>1. /\ Doing("end") /\ readers' = readers /\ ciphers' = ciphers /\ mode' = mode
      /\ calls' = calls /\ scripts' = Under(Tail(Script))
  BY DEF SecretRead, Advance
<1>2. /\ Listed(scripts) /\ Lower /\ scripts # <<>> /\ Script # <<>> /\ Which /\ Now.op = "end"
      /\ calls = <<>> /\ Listed(readers) /\ Depth \in Nat
  BY <1>1, DoingFacts
<1>3. /\ Lower' /\ Len(scripts') = Len(scripts) /\ Script' = Tail(Script)
  BY <1>1, <1>2, LowerUnder
<1>4. (\E k : KeyAt(k, EndAt(k)) /\ KeyRead(k, EndAt(k))) \/ Closing BY <1>2 DEF Which
<1>5. ASSUME SecretOpen PROVE SecretOpen'
  BY <1>1, <1>3, <1>5 DEF SecretOpen, Enough, Sessions, Depth, Reader
<1>6. CASE Closing
 <2>1. SecretOpen /\ (ClosingStep(Script) \/ Now.op = "pop") BY <1>6 DEF Closing, ClosingTop
 <2>2. Script' = <<Step("pop")>> BY <1>2, <1>3, <2>1 DEF ClosingStep, Now
 <2>3. ClosingTop' BY <1>5, <2>1, <2>2 DEF ClosingTop, ClosingScripts
 <2> QED BY <1>3, <2>3 DEF Scripted, OnTop
<1>7. CASE \E k : KeyAt(k, EndAt(k)) /\ KeyRead(k, EndAt(k))
 <2>1. PICK k : KeyAt(k, EndAt(k)) /\ KeyRead(k, EndAt(k)) BY <1>7
 <2>2. k \in SecretKeys /\ EndAt(k) \in 1 .. EndAt(k) /\ KeyStep(Script, k, EndAt(k))
   BY <2>1 DEF KeyAt
 <2>3. /\ k.v3 \in BOOLEAN /\ k.ok \in BOOLEAN /\ (k.ok => k.read = Mpis) /\ k.ends[Mpis] \in Nat
   BY <2>2, KeyFacts
 <2>4. /\ Tail(Script) = IF ~k.ok THEN <<Step("pop")>>
                         ELSE IF k.v3 THEN <<Step("pop"), limited_read(2, <<>>)>>
                              ELSE <<limited_read(2, <<Step("leave")>>), Step("pop")>>
       /\ StartOf(k, EndAt(k)) = k.ends[k.read]
   BY <2>2 DEF KeyStep
 <2>5. SecretOpen /\ (k.v3 => Sparing /\ Accounted(k.ends[Mpis] + 2 - StartOf(k, EndAt(k))))
   BY <2>1, <2>3 DEF KeyRead
 <2>6. CASE ~k.ok
  <3>1. Script' \in ClosingScripts BY <1>3, <2>4, <2>6 DEF ClosingScripts
  <3>2. ClosingTop' BY <1>5, <2>5, <3>1 DEF ClosingTop
  <3> QED BY <1>3, <3>2 DEF Scripted, OnTop
 <2>7. CASE k.ok /\ ~k.v3
  <3>1. Script' \in ClosingScripts BY <1>3, <2>4, <2>7 DEF ClosingScripts
  <3>2. ClosingTop' BY <1>5, <2>5, <3>1 DEF ClosingTop
  <3> QED BY <1>3, <3>2 DEF Scripted, OnTop
 <2>8. CASE k.ok /\ k.v3
  <3>1. Script' = <<Step("pop"), limited_read(2, <<>>)>> BY <1>3, <2>4, <2>8
  <3>2. Reader.decrypted = <<>> BY <1>2, <2>5, <2>8 DEF Sparing
  <3>3. Reader.left = 2
   <4>1. /\ Reader.left + Len(Reader.decrypted) + 0 = k.ends[Mpis] + 2 - k.ends[k.read]
         /\ k.read = Mpis
     BY <1>2, <2>3, <2>4, <2>5, <2>8 DEF Accounted
   <4>2. Len(Reader.decrypted) = 0 BY <3>2, ListedShort
   <4>3. Reader.left \in Nat
    <5>1. Depth \in 1 .. Depth /\ DOMAIN readers = 1 .. Depth
     <6>1. DOMAIN readers = 1 .. Depth BY <1>2, ListedFacts DEF Depth
     <6>2. Depth >= 1
      <7>1. Len(scripts) >= 2 /\ Depth >= Len(scripts) - 2 + 1 /\ Len(scripts) \in Nat
        BY <1>2, <2>5, ListedFacts DEF SecretOpen, Enough
      <7> QED BY <1>2, <7>1
     <6> QED BY <1>2, <6>1, <6>2
    <5>2. ReaderShape(readers[Depth]) BY <5>1 DEF Shapes
    <5> QED BY <5>2 DEF ReaderShape, Reader
   <4> DEFINE l == Reader.left
              n == k.ends[Mpis]
              m == Len(Reader.decrypted)
   <4>4. l + m + 0 = n + 2 - n /\ m = 0 /\ l \in Nat /\ n \in Nat BY <2>3, <4>1, <4>2, <4>3
   <4> HIDE DEF l, n, m
   <4>5. l = 2 BY <4>4
   <4> QED BY <4>5 DEF l
  <3>4. Reader' = Reader BY <1>1 DEF Reader, Depth
  <3>5. ClosingTop' BY <1>5, <2>5, <3>1, <3>2, <3>3, <3>4 DEF ClosingTop
  <3> QED BY <1>3, <3>5 DEF Scripted, OnTop
 <2> QED BY <2>3, <2>6, <2>7, <2>8
<1> QED BY <1>4, <1>6, <1>7

\* A key is set up, and the cipher of the reader to come starts afresh.
LEMMA SetKeyScripts ==
  ASSUME Shapes, Scripted, SetKey PROVE Scripted'
<1>1. PICK op \in {"session_key", "set_key"} : Doing(op) BY DEF SetKey
<1>2. /\ readers' = readers /\ mode' = mode /\ calls' = calls /\ scripts' = Under(Tail(Script))
      /\ reading_v3_secret' = reading_v3_secret
      /\ ciphers' = [ciphers EXCEPT
           ![IF Now.op = "set_key" THEN "secret" ELSE "session"] = std_set_iv]
      /\ DOMAIN ciphers = {"session", "secret"}
  BY DEF SetKey, Advance, Shapes
<1>3. /\ Listed(scripts) /\ Lower /\ scripts # <<>> /\ Script # <<>> /\ Which /\ Now.op = op
  BY <1>1, DoingFacts
<1>4. /\ Lower' /\ Len(scripts') = Len(scripts) /\ Script' = Tail(Script)
  BY <1>2, <1>3, LowerUnder
<1>5. ASSUME Enough(0), Sessions(Depth) PROVE Enough(0)' /\ Sessions(Depth)'
  BY <1>2, <1>4, <1>5 DEF Enough, Sessions, Depth
<1>6. CASE op = "session_key"
 <2>1. PICK len, t : Opening(len, t) BY <1>3, <1>6 DEF Which
 <2>2. /\ len \in Lengths /\ t \in OpenScripts /\ Enough(0) /\ Sessions(Depth)
       /\ \/ Tail(Script) \in Pushing(len, t)
          \/ PushingStep(Script, len, t)
   BY <2>1 DEF Opening
 <2>3. Tail(Script) \in Pushing(len, t) BY <1>3, <1>6, <2>2 DEF PushingStep, Now
 <2>4. ciphers'["session"] = std_set_iv BY <1>2, <1>3, <1>6
 <2>5. ContainerTop' BY <1>4, <1>5, <2>2, <2>3, <2>4 DEF ContainerTop
 <2> QED BY <1>4, <2>5 DEF Scripted, OnTop
<1>7. CASE op = "set_key"
 <2>1. PICK k : KeyAt(k, 3) /\ KeyBegun(k, 3) BY <1>3, <1>7 DEF Which
 <2>2. /\ k \in SecretKeys /\ KeyStep(Script, k, 3) /\ Enough(0) /\ Sessions(Depth)
       /\ reading_v3_secret = k.v3 /\ 3 \in 1 .. EndAt(k)
   BY <2>1 DEF KeyAt, KeyBegun
 <2>3. EndAt(k) \in Nat /\ EndAt(k) > 4 BY <2>2, KeyFacts
 <2>4. Tail(Script) = Rest(parse_secret_key(k), 4) /\ 4 \in 1 .. EndAt(k)
  <3>1. Tail(Script) = Rest(parse_secret_key(k), 3 + 1) /\ 3 + 1 \in 1 .. EndAt(k)
    BY <2>2, <2>3 DEF KeyStep
  <3> QED BY <3>1
 <2>5. ciphers'["secret"] = std_set_iv BY <1>2, <1>3, <1>7
 <2>6. KeyBegun(k, 4)' BY <1>2, <1>5, <2>2, <2>5 DEF KeyBegun
 <2>7. SecretTop' BY <1>4, <2>2, <2>4, <2>6 DEF SecretTop
 <2> QED BY <1>4, <2>7 DEF Scripted, OnTop
<1> QED BY <1>6, <1>7

\* A reader is left on the stack, and the run ends.
LEMMA LeaveReaderScripts ==
  ASSUME Shapes, Scripted, LeaveReader PROVE Scripted'
<1>1. Doing("leave") /\ mode' = "dangling" /\ scripts' = Under(Tail(Script))
  BY DEF LeaveReader, Advance
<1>2. Listed(scripts) /\ Lower /\ scripts # <<>> BY <1>1, DoingFacts
<1>3. Lower' BY <1>1, <1>2, LowerUnder
<1> QED BY <1>1, <1>3 DEF Scripted

\* The reader that is pushed.
LEMMA PushFacts ==
  ASSUME Listed(readers), Depth \in Nat, ops_reader_push_decrypt
  PROVE  /\ Listed(readers') /\ Len(readers') = Depth + 1 /\ readers' # <<>>
         /\ \A i \in 1 .. Depth :
              readers'[i] = IF readers[i].crypt = Now.key THEN [readers[i] EXCEPT !.alone = FALSE]
                            ELSE readers[i]
         /\ DOMAIN readers'[Depth + 1] = {"crypt", "left", "decrypted", "prev_read_was_plain",
                                          "hist", "start", "alone"}
         /\ readers'[Depth + 1].crypt = Now.key /\ readers'[Depth + 1].left = Now.n
         /\ readers'[Depth + 1].decrypted = <<>> /\ readers'[Depth + 1].hist = <<>>
         /\ readers'[Depth + 1].prev_read_was_plain = FALSE
         /\ readers'[Depth + 1].start = ZeroIv
         /\ readers'[Depth + 1].alone = \A i \in 1 .. Depth : readers[i].crypt # Now.key
<1> DEFINE g == [i \in DOMAIN readers |->
                   IF readers[i].crypt = Now.key THEN [readers[i] EXCEPT !.alone = FALSE]
                   ELSE readers[i]]
           n == [crypt |-> Now.key, left |-> Now.n, decrypted |-> <<>>,
                 prev_read_was_plain |-> FALSE, hist |-> <<>>, start |-> ZeroIv,
                 alone |-> \A i \in DOMAIN readers : readers[i].crypt # Now.key]
<1>1. readers' = Append(g, n) BY DEF ops_reader_push_decrypt
<1>2. DOMAIN readers = 1 .. Depth BY ListedFacts DEF Depth
<1>3. /\ g = [i \in 1 .. Depth |-> g[i]]
      /\ \A i \in 1 .. Depth :
           g[i] = IF readers[i].crypt = Now.key THEN [readers[i] EXCEPT !.alone = FALSE]
                  ELSE readers[i]
  BY <1>2
<1>4. /\ DOMAIN n = {"crypt", "left", "decrypted", "prev_read_was_plain", "hist", "start",
                     "alone"}
      /\ n.crypt = Now.key /\ n.left = Now.n /\ n.decrypted = <<>> /\ n.hist = <<>>
      /\ n.prev_read_was_plain = FALSE
      /\ n.start = ZeroIv
  OBVIOUS
<1>5. n.alone = \A i \in 1 .. Depth : readers[i].crypt # Now.key BY <1>2
<1> HIDE DEF g, n
<1>6. Listed(g) /\ Len(g) = Depth BY <1>3, ListedFun
<1>7. /\ Listed(readers') /\ Len(readers') = Depth + 1 /\ readers'[Depth + 1] = n
      /\ \A i \in 1 .. Depth : readers'[i] = g[i]
  BY <1>1, <1>6, ListedAppend
<1>8. readers' # <<>> BY <1>7, ListedFacts
<1> QED BY <1>3, <1>4, <1>5, <1>7, <1>8

\* A reader is put on the stack: of a container, or of a secret key.
LEMMA PushScripts ==
  ASSUME Shapes, Scripted, ops_reader_push_decrypt PROVE Scripted'
<1>1. /\ Doing("push") /\ mode' = mode /\ calls' = calls /\ scripts' = Under(Tail(Script))
      /\ reading_v3_secret' = reading_v3_secret
  BY DEF ops_reader_push_decrypt, Advance
<1>2. /\ Listed(scripts) /\ Lower /\ scripts # <<>> /\ Script # <<>> /\ Which /\ Now.op = "push"
      /\ Listed(readers) /\ Depth \in Nat /\ calls = <<>>
  BY <1>1, DoingFacts
<1>3. /\ Lower' /\ Len(scripts') = Len(scripts) /\ Script' = Tail(Script) /\ Len(scripts) \in Nat
  BY <1>1, <1>2, LowerUnder
<1>4. /\ Len(readers') = Depth + 1 /\ readers'[Depth + 1].crypt = Now.key
      /\ readers'[Depth + 1].left = Now.n /\ readers'[Depth + 1].decrypted = <<>>
      /\ \A i \in 1 .. Depth :
           readers'[i] = IF readers[i].crypt = Now.key THEN [readers[i] EXCEPT !.alone = FALSE]
                         ELSE readers[i]
  BY <1>2, PushFacts
<1>5. /\ Depth' = Depth + 1 /\ Reader'.crypt = Now.key /\ Reader'.left = Now.n
      /\ Reader'.decrypted = <<>>
  BY <1>4 DEF Depth, Reader
<1>6. ASSUME Enough(0), Sessions(Depth)
      PROVE  Enough(1)' /\ \A i \in 1 .. Depth : readers'[i].crypt = "session"
 <2>1. Enough(1)' BY <1>2, <1>3, <1>5, <1>6 DEF Enough
 <2>2. ASSUME NEW i \in 1 .. Depth PROVE readers'[i].crypt = "session"
  <3>1. readers[i].crypt = "session" BY <1>6 DEF Sessions
  <3>2. [readers[i] EXCEPT !.alone = FALSE].crypt = readers[i].crypt
   <4>1. DOMAIN readers = 1 .. Depth BY <1>2, ListedFacts DEF Depth
   <4>2. ReaderShape(readers[i]) BY <4>1 DEF Shapes
   <4> QED BY <4>2 DEF ReaderShape
  <3> QED BY <1>4, <3>1, <3>2
 <2> QED BY <2>1, <2>2
<1>7. Sparing' BY <1>1, <1>2, <1>5 DEF Sparing
<1>8. (\E len, t : Opening(len, t)) \/ \E k : KeyAt(k, 4) /\ KeyBegun(k, 4) BY <1>2 DEF Which
<1>9. CASE \E len, t : Opening(len, t)
 <2>1. PICK len, t : Opening(len, t) BY <1>9
 <2>2. /\ t \in OpenScripts /\ Enough(0) /\ Sessions(Depth) /\ PushingStep(Script, len, t)
   BY <1>2, <2>1 DEF Opening
 <2>3. Script' = t /\ Now.key = "session" BY <1>2, <1>3, <2>2 DEF PushingStep, Now
 <2>4. Sessions(Depth)'
  <3>1. \A i \in 1 .. Depth + 1 : readers'[i].crypt = "session"
   <4>1. ASSUME NEW i \in 1 .. Depth + 1 PROVE readers'[i].crypt = "session"
    <5>1. i \in 1 .. Depth \/ i = Depth + 1 BY <1>2
    <5> QED BY <1>4, <1>6, <2>2, <2>3, <5>1
   <4> QED BY <4>1
  <3> QED BY <1>5, <3>1 DEF Sessions
 <2>5. SessionTop' BY <1>5, <1>6, <1>7, <2>2, <2>3, <2>4 DEF SessionTop
 <2> QED BY <1>3, <2>5 DEF Scripted, OnTop
<1>10. CASE \E k : KeyAt(k, 4) /\ KeyBegun(k, 4)
 <2>1. PICK k : KeyAt(k, 4) /\ KeyBegun(k, 4) BY <1>10
 <2>2. /\ k \in SecretKeys /\ KeyStep(Script, k, 4) /\ Enough(0) /\ Sessions(Depth)
       /\ reading_v3_secret = k.v3 /\ 4 \in 1 .. EndAt(k)
   BY <2>1 DEF KeyAt, KeyBegun
 <2>3. EndAt(k) \in Nat /\ EndAt(k) > 4 /\ k.ends[Mpis] \in Nat /\ StartOf(k, 5) = 0
   BY <2>2, KeyFacts
 <2>4. /\ Tail(Script) = Rest(parse_secret_key(k), 4 + 1) /\ 4 + 1 \in 1 .. EndAt(k)
       /\ Now.n = k.ends[Mpis] + 2 /\ Now.key = "secret"
   BY <2>2, <2>3 DEF KeyStep, Now
 <2>5. SecretOpen'
  <3>1. Depth' - 1 = Depth BY <1>2, <1>5
  <3>2. Sessions(Depth - 1)' BY <1>6, <2>2, <3>1 DEF Sessions
  <3> QED BY <1>5, <1>6, <2>2, <2>4, <3>2 DEF SecretOpen
 <2>6. Accounted(k.ends[Mpis] + 2 - StartOf(k, 5))'
  <3>1. Len(Reader'.decrypted) = 0 BY <1>5, ListedShort
  <3>2. k.ends[Mpis] + 2 + 0 + 0 = k.ends[Mpis] + 2 - 0 BY <2>3
  <3> QED BY <1>1, <1>2, <1>5, <2>3, <2>4, <3>1, <3>2 DEF Accounted
 <2>7. PadsAre(1)'
  <3>1. DOMAIN Reader'.decrypted = {} BY <1>5
  <3> QED BY <1>1, <1>2, <3>1 DEF PadsAre
 <2>8. KeyRead(k, 5)' BY <1>1, <1>2, <1>7, <2>2, <2>5, <2>6, <2>7 DEF KeyRead
 <2>9. Script' = Rest(parse_secret_key(k), 5) /\ 5 \in 1 .. EndAt(k) BY <1>3, <2>4
 <2>10. SecretTop' BY <2>2, <2>8, <2>9 DEF SecretTop
 <2> QED BY <1>3, <2>10 DEF Scripted, OnTop
<1> QED BY <1>8, <1>9, <1>10

\* There is a reader where one is needed.
LEMMA PopFacts ==
  ASSUME Shapes, Scripted, Doing("pop")
  PROVE  /\ readers # <<>> /\ Depth \in Nat /\ Depth > 0 /\ Depth >= Len(scripts) - 1
         /\ Len(scripts) >= 2 /\ Sessions(Depth - 1)
         /\ \/ Script = <<Step("pop")>>
            \/ /\ Script = <<Step("pop"), limited_read(2, <<>>)>>
               /\ Reader.decrypted = <<>> /\ Reader.left = 2
<1>1. /\ Script # <<>> /\ Which /\ Now.op = "pop" /\ Listed(readers) /\ Depth \in Nat
      /\ Len(scripts) \in Nat
  BY DoingFacts
<1>2. SessionTop \/ Closing BY <1>1 DEF Which
<1>3. /\ Enough(1) /\ Sessions(Depth - 1)
      /\ \/ Script = <<Step("pop")>>
         \/ /\ Script = <<Step("pop"), limited_read(2, <<>>)>>
            /\ Reader.decrypted = <<>> /\ Reader.left = 2
 <2>1. CASE SessionTop
  <3>1. Enough(1) /\ Sessions(Depth) /\ OpenStep(Script) BY <2>1, OpenFacts DEF SessionTop
  <3>2. Sessions(Depth - 1) BY <1>1, <3>1 DEF Sessions
  <3> QED BY <1>1, <3>1, <3>2 DEF OpenStep, Now
 <2>2. CASE Closing
  <3>1. Enough(1) /\ Sessions(Depth - 1) BY <2>2 DEF Closing, ClosingTop, SecretOpen
  <3> QED BY <1>1, <2>2, <3>1 DEF Closing, ClosingStep, Now
 <2> QED BY <1>2, <2>1, <2>2
<1>4. Depth > 0 /\ Depth >= Len(scripts) - 1 /\ Len(scripts) >= 2 BY <1>1, <1>3 DEF Enough
<1>5. readers # <<>> BY <1>1, <1>4, ListedFacts DEF Depth
<1> QED BY <1>1, <1>3, <1>4, <1>5

\* A reader is taken off the stack by the handler that put it there.
LEMMA PopScripts ==
  ASSUME Shapes, Scripted, ops_reader_pop_decrypt PROVE Scripted'
<1>1. /\ Doing("pop") /\ mode' = mode /\ calls' = calls /\ scripts' = Under(Tail(Script))
      /\ readers' = Front(readers)
  BY DEF ops_reader_pop_decrypt, Advance
<1>2. /\ Listed(scripts) /\ Lower /\ scripts # <<>> /\ Listed(readers) BY <1>1, DoingFacts
<1>3. /\ Lower' /\ Len(scripts') = Len(scripts) /\ Script' = Tail(Script) /\ Len(scripts) \in Nat
  BY <1>1, <1>2, LowerUnder
<1>4. /\ readers # <<>> /\ Depth \in Nat /\ Depth > 0 /\ Depth >= Len(scripts) - 1
      /\ Len(scripts) >= 2 /\ Sessions(Depth - 1)
      /\ \/ Script = <<Step("pop")>> \/ Script = <<Step("pop"), limited_read(2, <<>>)>>
  BY <1>1, PopFacts
<1>5. /\ Len(readers') = Depth - 1 /\ \A i \in 1 .. Depth - 1 : readers'[i] = readers[i]
  BY <1>1, <1>2, <1>4, ListedFront DEF Depth
<1>6. Enough(0)' /\ Sessions(Depth)'
 <2>1. Depth' = Depth - 1 BY <1>5 DEF Depth
 <2>2. Enough(0)' BY <1>3, <1>4, <2>1 DEF Enough
 <2>3. \A i \in 1 .. Depth - 1 : readers'[i].crypt = "session" BY <1>4, <1>5 DEF Sessions
 <2> QED BY <2>1, <2>2, <2>3 DEF Sessions
<1>7. Script' \in Seq(IdleSteps)
 <2>1. CASE Script = <<Step("pop")>> BY <1>3, <2>1, TupleFacts, IdleScripts
 <2>2. CASE Script = <<Step("pop"), limited_read(2, <<>>)>>
  <3>1. Script' = <<limited_read(2, <<>>)>> /\ 2 \in Nat BY <1>3, <2>2, TupleFacts
  <3> QED BY <3>1, IdleScripts
 <2> QED BY <1>4, <2>1, <2>2
<1> QED BY <1>3, <1>6, <1>7 DEF Scripted, OnTop, IdleTop

\* A resynchronisation is of a container's own reader.
LEMMA ResyncFacts ==
  ASSUME Shapes, Scripted, Doing("resync")
  PROVE  /\ readers # <<>> /\ Depth \in Nat /\ Depth > 0 /\ Enough(1) /\ Sessions(Depth)
         /\ Script = <<Step("resync"), Step("parse"), Step("pop")>>
         /\ Reader.decrypted = <<>> /\ ReaderShape(Reader)
<1>1. /\ Script # <<>> /\ Which /\ Now.op = "resync" /\ Listed(readers) /\ Depth \in Nat
      /\ Len(scripts) \in Nat
  BY DoingFacts
<1>2. SessionTop BY <1>1 DEF Which
<1>3. Enough(1) /\ Sessions(Depth) /\ OpenStep(Script) /\ Reader.decrypted = <<>>
  BY <1>1, <1>2, OpenFacts DEF SessionTop
<1>4. Script = <<Step("resync"), Step("parse"), Step("pop")>> BY <1>1, <1>3 DEF OpenStep, Now
<1>5. Depth > 0 BY <1>1, <1>3 DEF Enough
<1>6. readers # <<>> /\ ReaderShape(Reader)
 <2>1. DOMAIN readers = 1 .. Depth /\ (readers = <<>> => Depth = 0)
   BY <1>1, ListedFacts DEF Depth
 <2>2. Depth \in DOMAIN readers BY <1>1, <1>5, <2>1
 <2> QED BY <1>5, <2>1, <2>2 DEF Shapes, Reader
<1> QED BY <1>1, <1>3, <1>4, <1>5, <1>6

\* A container's cipher is resynchronised, with nothing in the buffer.
LEMMA ResyncScripts ==
  ASSUME Shapes, Scripted, Resync PROVE Scripted'
<1>1. /\ Doing("resync") /\ mode' = mode /\ calls' = calls /\ scripts' = Under(Tail(Script))
      /\ readers' = [readers EXCEPT ![Depth] = Resynced(readers[Depth])]
  BY DEF Resync, Advance
<1>2. /\ Listed(scripts) /\ Lower /\ scripts # <<>> /\ Listed(readers) BY <1>1, DoingFacts
<1>3. /\ Lower' /\ Len(scripts') = Len(scripts) /\ Script' = Tail(Script) /\ Len(scripts) \in Nat
  BY <1>1, <1>2, LowerUnder
<1>4. /\ readers # <<>> /\ Depth \in Nat /\ Depth > 0 /\ Enough(1) /\ Sessions(Depth)
      /\ Script = <<Step("resync"), Step("parse"), Step("pop")>> /\ ReaderShape(Reader)
  BY <1>1, ResyncFacts
<1>5. /\ Len(readers') = Depth /\ readers'[Depth] = Resynced(readers[Depth])
      /\ \A i \in 1 .. Depth : i # Depth => readers'[i] = readers[i]
 <2>1. Depth \in 1 .. Len(readers) /\ Len(readers) = Depth BY <1>4 DEF Depth
 <2> QED BY <1>1, <1>2, <2>1, ListedPut
<1>6. readers'[Depth].crypt = readers[Depth].crypt BY <1>4, <1>5 DEF ReaderShape, Resynced, Reader
<1>7. Depth' = Depth BY <1>5 DEF Depth
<1>8. Sessions(Depth)' BY <1>4, <1>5, <1>6, <1>7 DEF Sessions
<1>9. Enough(1)' BY <1>3, <1>4, <1>7 DEF Enough
<1>10. Script' = <<Step("parse"), Step("pop")>> BY <1>3, <1>4, TupleFacts
<1>11. Script' \in OpenScripts BY <1>10 DEF OpenScripts
<1>12. Head(Script') = Step("parse") BY <1>10, TupleFacts
<1>13. Now'.op = "parse" /\ Now'.exact = FALSE BY <1>12, StepFacts DEF Now
<1>14. SessionTop' BY <1>8, <1>9, <1>11, <1>13 DEF SessionTop
<1> QED BY <1>3, <1>14 DEF Scripted, OnTop

-----------------------------------------------------------------------------
(* A read: what is left to do. *)

\* What holds while a read is in progress.
LEMMA CallFacts ==
  ASSUME Shapes, Scripted, Chained, mode = "run", calls # <<>>
  PROVE  /\ scripts # <<>> /\ Script # <<>> /\ Now.op = "read"
         /\ Listed(scripts) /\ Listed(readers) /\ Listed(calls) /\ Lower /\ Which /\ OnTop
         /\ Listed(Script) /\ Len(scripts) \in Nat /\ Depth \in Nat
         /\ Len(calls) \in Nat /\ Len(calls) > 0 /\ Len(calls) <= Depth + 1
         /\ DOMAIN readers = 1 .. Depth /\ DOMAIN calls = 1 .. Len(calls)
         /\ \A j \in 1 .. Len(calls) : calls[j].depth = Depth + 1 - j /\ CallShape(calls[j])
         /\ Now.n \in Nat /\ Now.mpi \in BOOLEAN /\ Now.exact \in BOOLEAN
         /\ calls[1].length + Len(calls[1].units) = Now.n
<1>1. /\ scripts # <<>> /\ Script # <<>> /\ Now.op = "read" /\ Len(calls) <= Depth + 1
      /\ \A j \in DOMAIN calls : calls[j].depth = Depth + 1 - j
      /\ calls[1].length + Len(calls[1].units) = Now.n
  BY DEF Chained
<1>2. /\ Listed(scripts) /\ Listed(readers) /\ Listed(calls)
      /\ \A j \in DOMAIN calls : CallShape(calls[j])
  BY DEF Shapes
<1>3. Lower /\ OnTop BY <1>1 DEF Scripted
<1>4. Which /\ Listed(Script) BY <1>3, WhichFacts
<1>5. /\ Len(scripts) \in Nat /\ Depth \in Nat /\ Len(calls) \in Nat /\ Len(calls) > 0
      /\ DOMAIN readers = 1 .. Depth /\ DOMAIN calls = 1 .. Len(calls)
  BY <1>2, ListedFacts DEF Depth
<1>6. Now.n \in Nat /\ Now.mpi \in BOOLEAN /\ Now.exact \in BOOLEAN BY <1>1, <1>4 DEF Which
<1> QED BY <1>1, <1>2, <1>3, <1>4, <1>5, <1>6

\* A step in which no handler goes on: what has to be shown of it.
LEMMA SteadyScripts ==
  ASSUME Shapes, Scripted, mode = "run", scripts # <<>>, Script # <<>>, Now.op = "read",
         scripts' = scripts, reading_v3_secret' = reading_v3_secret, Len(readers') = Len(readers),
         readers = <<>> <=> readers' = <<>>,
         readers = <<>> => ciphers' = ciphers,
         \A i \in 1 .. Depth : readers'[i].crypt = readers[i].crypt,
         readers # <<>> =>
           /\ Now.exact \/ reading_v3_secret => (Sparing => Sparing')
           /\ \A n : Accounted(n) => Accounted(n)'
           /\ ~reading_v3_secret => (PadsAre(1) => PadsAre(1)')
           /\ reading_v3_secret /\ Sparing
                /\ (calls # <<>> => PadsAre(IF Now.mpi THEN 0 ELSE 1))
                => PadsAre(IF Now.mpi THEN 0 ELSE 1)'
  PROVE  Scripted'
<1>1. Lower /\ OnTop /\ Listed(readers) BY DEF Scripted, Shapes
<1>2. Lower' /\ Script' = Script /\ Depth' = Depth /\ Now' = Now
  BY <1>1 DEF Lower, Script, Depth, Now
<1>3. Which BY <1>1, WhichFacts
<1>4. Depth \in Nat BY <1>1, ListedFacts DEF Depth
<1>5. \A o \in {0, 1} : Enough(o) => Enough(o)' BY <1>2 DEF Enough
<1>6. ASSUME NEW n \in Int, n <= Depth, Sessions(n) PROVE Sessions(n)' BY <1>4, <1>6 DEF Sessions
<1>7. Sessions(Depth) => Sessions(Depth)' BY <1>2, <1>4, <1>6
<1>8. SecretOpen => SecretOpen'
 <2>1. SUFFICES ASSUME SecretOpen PROVE SecretOpen' OBVIOUS
 <2>2. Enough(1) /\ Reader.crypt = "secret" /\ Sessions(Depth - 1) BY <2>1 DEF SecretOpen
 <2>3. Depth >= 1
  <3>1. Len(scripts) >= 2 /\ Depth >= Len(scripts) - 2 + 1 /\ Len(scripts) \in Nat
    BY <1>1, <2>2, ListedFacts DEF Enough, Shapes
  <3> QED BY <1>4, <3>1
 <2>4. Reader'.crypt = "secret" BY <1>2, <1>4, <2>2, <2>3 DEF Reader
 <2>5. Sessions(Depth - 1)' BY <1>2, <1>4, <1>6, <2>2 DEF Sessions
 <2> QED BY <1>5, <2>2, <2>4, <2>5 DEF SecretOpen
<1>99. Enough(1) => readers # <<>>
 <2>1. SUFFICES ASSUME Enough(1) PROVE readers # <<>> OBVIOUS
 <2>2. Len(scripts) >= 2 /\ Depth >= Len(scripts) - 2 + 1 /\ Len(scripts) \in Nat
   BY <1>1, <2>1, ListedFacts DEF Enough, Shapes
 <2>3. Depth > 0 BY <1>4, <2>2
 <2>4. readers = <<>> => Depth = 0 BY <1>1, ListedFacts DEF Depth
 <2> QED BY <2>3, <2>4
<1>9. CASE BaseTop \/ IdleTop
 <2>1. BaseTop' \/ IdleTop' BY <1>2, <1>5, <1>7, <1>9 DEF BaseTop, IdleTop
 <2> QED BY <1>2, <2>1 DEF Scripted, OnTop
<1>10. CASE ContainerTop
 <2>1. ContainerTop'
  <3>1. PICK len \in Lengths, t \in OpenScripts :
          \/ \E s \in Pushing(len, t) : Script = parse_pk_session_key \o s /\ readers = <<>>
          \/ Script \in Pushing(len, t) /\ (readers = <<>> => ciphers["session"] = std_set_iv)
    BY <1>10 DEF ContainerTop
  <3>2. \/ \E s \in Pushing(len, t) : Script' = parse_pk_session_key \o s /\ readers' = <<>>
        \/ Script' \in Pushing(len, t) /\ (readers' = <<>> => ciphers'["session"] = std_set_iv)
    BY <1>2, <3>1
  <3>3. Enough(0)' /\ Sessions(Depth)' BY <1>5, <1>7, <1>10 DEF ContainerTop
  <3> QED BY <3>2, <3>3 DEF ContainerTop
 <2> QED BY <1>2, <2>1 DEF Scripted, OnTop
<1>11. CASE SessionTop
 <2>1. /\ Enough(1) /\ Sessions(Depth) /\ Script \in OpenScripts
       /\ Now.exact => Sparing
   BY <1>11 DEF SessionTop
 <2>2. SessionTop' BY <1>2, <1>5, <1>7, <1>99, <2>1 DEF SessionTop
 <2> QED BY <1>2, <2>2 DEF Scripted, OnTop
<1>12. CASE SecretTop
 <2>0. PICK k \in SecretKeys :
         \E at \in 1 .. EndAt(k) :
           Script = Rest(parse_secret_key(k), at) /\ (KeyBegun(k, at) \/ KeyRead(k, at))
   BY <1>12 DEF SecretTop
 <2>1. PICK at \in 1 .. EndAt(k) :
         Script = Rest(parse_secret_key(k), at) /\ (KeyBegun(k, at) \/ KeyRead(k, at))
   BY <2>0
 <2>2. KeyStep(Script, k, at) /\ k.v3 \in BOOLEAN BY <2>1, KeyFacts
 <2>3. CASE KeyBegun(k, at)
  <3>1. at < 5 /\ Enough(0) /\ Sessions(Depth) /\ (at > 2 => reading_v3_secret = k.v3)
    BY <2>3 DEF KeyBegun
  <3>2. at # 4 BY <2>2 DEF KeyStep, Now
  <3>3. Enough(0)' /\ Sessions(Depth)' BY <1>5, <1>7, <3>1
  <3>4. KeyBegun(k, at)' BY <3>1, <3>2, <3>3 DEF KeyBegun
  <3>5. SecretTop' BY <1>2, <2>1, <3>4 DEF SecretTop
  <3> QED BY <1>2, <3>5 DEF Scripted, OnTop
 <2>4. CASE KeyRead(k, at)
  <3>0. at > 4 /\ SecretOpen /\ reading_v3_secret = k.v3 BY <2>4 DEF KeyRead
  <3>1. at > 4 /\ SecretOpen /\ reading_v3_secret = k.v3 /\ readers # <<>>
    BY <1>99, <3>0 DEF SecretOpen
  <3>2. CASE k.v3
   <4>1. /\ Sparing /\ Accounted(k.ends[Mpis] + 2 - StartOf(k, at))
         /\ calls # <<>> => PadsAre(IF Now.mpi THEN 0 ELSE 1)
     BY <2>4, <3>2 DEF KeyRead
   <4>2. Sparing' /\ Accounted(k.ends[Mpis] + 2 - StartOf(k, at))' BY <3>1, <3>2, <4>1
   <4>3. PadsAre(IF Now.mpi THEN 0 ELSE 1)' BY <3>1, <3>2, <4>1
   <4>4. KeyRead(k, at)' BY <1>8, <3>1, <3>2, <4>2, <4>3 DEF KeyRead
   <4>5. SecretTop' BY <1>2, <2>1, <4>4 DEF SecretTop
   <4> QED BY <1>2, <4>5 DEF Scripted, OnTop
  <3>3. CASE ~k.v3
   <4>1. PadsAre(1) BY <2>4, <3>3 DEF KeyRead
   <4>2. PadsAre(1)' BY <3>1, <3>3, <4>1
   <4>3. KeyRead(k, at)' BY <1>8, <3>1, <3>3, <4>2 DEF KeyRead
   <4>4. SecretTop' BY <1>2, <2>1, <4>3 DEF SecretTop
   <4> QED BY <1>2, <4>4 DEF Scripted, OnTop
  <3> QED BY <3>2, <3>3
 <2> QED BY <2>1, <2>3, <2>4
<1>13. CASE ClosingTop
 <2>1. SecretOpen' /\ Script \in ClosingScripts
  <3>1. SecretOpen BY <1>13 DEF ClosingTop
  <3>2. Script # <<Step("pop"), limited_read(2, <<>>)>>
   <4>1. SUFFICES ASSUME Script = <<Step("pop"), limited_read(2, <<>>)>> PROVE FALSE OBVIOUS
   <4>2. Now = Step("pop") BY <4>1, TupleFacts DEF Now
   <4>3. Now.op = "pop" BY <4>2, StepFacts
   <4> QED BY <4>3
  <3> QED BY <1>8, <1>13, <3>1, <3>2 DEF ClosingTop
 <2>2. ClosingTop' BY <1>2, <2>1 DEF ClosingTop
 <2> QED BY <1>2, <2>2 DEF Scripted, OnTop
<1> QED BY <1>1, <1>9, <1>10, <1>11, <1>12, <1>13 DEF OnTop

\* A read begins with nothing fetched yet.
LEMMA ReadScripts ==
  ASSUME Shapes, Scripted, Read PROVE Scripted'
<1>1. /\ Doing("read") /\ calls' = <<Call(Depth, Now.n)>> /\ mode' = mode
      /\ scripts' = scripts /\ readers' = readers /\ ciphers' = ciphers
      /\ reading_v3_secret' = reading_v3_secret
  BY DEF Read
<1>2. /\ mode = "run" /\ calls = <<>> /\ scripts # <<>> /\ Script # <<>> /\ Now.op = "read"
      /\ Which /\ Listed(readers)
  BY <1>1, DoingFacts
<1>3. Now.n \in Nat BY <1>2 DEF Which
<1>4. /\ calls' # <<>> /\ Len(calls') = 1 /\ calls'[1].units = <<>> /\ calls'[1].length = Now.n
 <2> DEFINE c == Call(Depth, Now.n)
 <2>1. c.units = <<>> /\ c.length = Now.n BY DEF Call
 <2> HIDE DEF c
 <2>2. Len(<<c>>) = 1 /\ <<c>>[1] = c /\ <<c>> # <<>> BY ListedShort, TupleFacts
 <2>3. calls' = <<c>> BY <1>1 DEF c
 <2> QED BY <2>1, <2>2, <2>3
<1>5. Depth' = Depth /\ Reader' = Reader BY <1>1 DEF Depth, Reader
<1>6. Sparing => Sparing'
 <2>1. SUFFICES ASSUME Sparing PROVE Sparing' OBVIOUS
 <2>2. Reader'.decrypted = <<>> BY <1>2, <1>5, <2>1 DEF Sparing
 <2>3. Len(Reader'.decrypted) = 0 BY <2>2, ListedShort
 <2>4. InFlight' = 0 BY <1>4 DEF InFlight
 <2>5. Len(Reader'.decrypted) + InFlight' <= calls'[1].length BY <1>3, <1>4, <2>3, <2>4
 <2> QED BY <1>4, <2>5 DEF Sparing
<1>7. \A n : Accounted(n) => Accounted(n)'
 <2>1. Len(calls'[1].units) = 0 BY <1>4, ListedShort
 <2> QED BY <1>2, <1>4, <1>5, <2>1 DEF Accounted
<1>8. DOMAIN calls'[1].units = {} BY <1>4
<1>9. PadsAre(1) => PadsAre(1)' BY <1>5, <1>8 DEF PadsAre
<1>10. Sparing => PadsAre(IF Now.mpi THEN 0 ELSE 1)'
 <2>1. SUFFICES ASSUME Sparing PROVE PadsAre(IF Now.mpi THEN 0 ELSE 1)' OBVIOUS
 <2>2. DOMAIN Reader'.decrypted = {} BY <1>2, <1>5, <2>1 DEF Sparing
 <2> QED BY <1>8, <2>2 DEF PadsAre
<1>11. Len(readers') = Len(readers) /\ \A i \in 1 .. Depth : readers'[i].crypt = readers[i].crypt
  BY <1>1
<1> QED BY <1>1, <1>2, <1>6, <1>7, <1>9, <1>10, <1>11, SteadyScripts

\* A read is done: the handler goes on, with nothing in the buffer
\* where nothing may be.
LEMMA ReadDoneScripts ==
  ASSUME Shapes, Scripted, Chained, ReadDone PROVE Scripted'
<1>1. /\ mode = "run" /\ Len(calls) = 1 /\ Top.length = 0 /\ calls' = <<>>
      /\ scripts' = Under(Tail(Script)) /\ readers' = readers /\ ciphers' = ciphers
      /\ reading_v3_secret' = reading_v3_secret /\ mode' = mode
  BY DEF ReadDone, Advance
<1>2. calls # <<>>
 <2>1. Listed(calls) BY DEF Shapes
 <2>2. calls = <<>> => Len(calls) = 0 BY <2>1, ListedFacts
 <2> QED BY <1>1, <2>2
<1>3. /\ scripts # <<>> /\ Script # <<>> /\ Now.op = "read" /\ Listed(scripts) /\ Listed(readers)
      /\ Lower /\ Which /\ Depth \in Nat
      /\ DOMAIN readers = 1 .. Depth /\ DOMAIN calls = 1 .. Len(calls)
      /\ \A j \in 1 .. Len(calls) : CallShape(calls[j])
      /\ calls[1].length + Len(calls[1].units) = Now.n
  BY <1>1, <1>2, CallFacts
<1>4. /\ Lower' /\ Len(scripts') = Len(scripts) /\ Script' = Tail(Script) /\ Len(scripts) \in Nat
  BY <1>1, <1>3, LowerUnder
<1>5. calls[1].length = 0 /\ Len(calls[1].units) = Now.n /\ Now.n \in Nat
 <2>1. Top = calls[1] BY <1>1 DEF Top
 <2>2. Now.n \in Nat BY <1>3 DEF Which
 <2>3. Len(calls[1].units) \in Nat BY <1>1, <1>3, ListedFacts DEF CallShape
 <2> QED BY <1>1, <1>3, <2>1, <2>2, <2>3
<1>6. Depth' = Depth /\ Reader' = Reader BY <1>1 DEF Depth, Reader
<1>7. \A o \in {0, 1} : Enough(o) => Enough(o)' BY <1>4, <1>6 DEF Enough
<1>8. Sessions(Depth) => Sessions(Depth)' BY <1>1, <1>6 DEF Sessions
<1>9. SecretOpen => SecretOpen' BY <1>1, <1>6, <1>7 DEF SecretOpen, Sessions
<1>10. ASSUME Sparing, Listed(Reader.decrypted) PROVE Reader.decrypted = <<>>
 <2>1. InFlight = 0 BY <1>1 DEF InFlight
 <2>2. Len(Reader.decrypted) + 0 <= 0 BY <1>2, <1>5, <1>10, <2>1 DEF Sparing
 <2>3. Len(Reader.decrypted) = 0 BY <1>10, <2>2, ListedFacts
 <2> QED BY <1>10, <2>3, ListedFacts
<1>11. ASSUME Enough(1) PROVE Listed(Reader.decrypted)
 <2>1. Depth > 0 BY <1>3, <1>4, <1>11 DEF Enough
 <2>2. Depth \in DOMAIN readers BY <1>3, <2>1
 <2> QED BY <2>2 DEF Shapes, ReaderShape, Reader
<1>12. \/ IdleTop
       \/ \E len, t : Opening(len, t)
       \/ SessionTop
       \/ \E k : KeyAt(k, 1) /\ KeyBegun(k, 1)
       \/ \E k, at : KeyAt(k, at) /\ KeyRead(k, at) /\ at # EndAt(k)
       \/ Closing
  BY <1>3 DEF Which
<1>13. CASE IdleTop
 <2>1. Script' \in Seq(IdleSteps) BY <1>3, <1>4, <1>13, IdleFacts DEF IdleTop
 <2>2. IdleTop' BY <1>7, <1>8, <1>13, <2>1 DEF IdleTop
 <2> QED BY <1>4, <2>2 DEF Scripted, OnTop
<1>14. CASE \E len, t : Opening(len, t)
 <2>1. PICK len, t : Opening(len, t) BY <1>14
 <2>2. /\ len \in Lengths /\ t \in OpenScripts /\ Enough(0) /\ Sessions(Depth)
       /\ PushingStep(Script, len, t) /\ (readers = <<>> => ciphers["session"] = std_set_iv)
   BY <1>3, <2>1 DEF Opening
 <2>3. Script' \in Pushing(len, t) BY <1>3, <1>4, <2>2 DEF PushingStep, Now
 <2>4. ContainerTop' BY <1>1, <1>7, <1>8, <2>2, <2>3 DEF ContainerTop
 <2> QED BY <1>4, <2>4 DEF Scripted, OnTop
<1>15. CASE SessionTop
 <2>1. /\ Enough(1) /\ Sessions(Depth) /\ OpenStep(Script) /\ (Now.exact => Sparing)
   BY <1>15, OpenFacts DEF SessionTop
 <2>2. /\ Script' \in OpenScripts /\ Head(Script').exact = FALSE
       /\ ~Now.exact => Script' = <<Step("pop")>>
   BY <1>3, <1>4, <2>1 DEF OpenStep, Now
 <2>3. Now'.op = "resync" => Reader'.decrypted = <<>>
  <3>1. CASE Now.exact BY <1>6, <1>10, <1>11, <2>1, <3>1
  <3>2. CASE ~Now.exact
   <4>1. Head(Script') = Step("pop") BY <2>2, <3>2, TupleFacts
   <4>2. Now'.op = "pop" BY <4>1, StepFacts DEF Now
   <4> QED BY <4>2
  <3> QED BY <3>1, <3>2
 <2>4. Now'.exact = FALSE BY <2>2 DEF Now
 <2>5. SessionTop' BY <1>7, <1>8, <2>1, <2>2, <2>3, <2>4 DEF SessionTop
 <2> QED BY <1>4, <2>5 DEF Scripted, OnTop
<1>16. CASE \E k : KeyAt(k, 1) /\ KeyBegun(k, 1)
 <2>1. PICK k : KeyAt(k, 1) /\ KeyBegun(k, 1) BY <1>16
 <2>2. k \in SecretKeys /\ KeyStep(Script, k, 1) /\ Enough(0) /\ Sessions(Depth) /\ 1 \in 1 .. EndAt(k)
   BY <2>1 DEF KeyAt, KeyBegun
 <2>3. EndAt(k) \in Nat /\ EndAt(k) > 4 BY <2>2, KeyFacts
 <2>4. Tail(Script) = Rest(parse_secret_key(k), 2) /\ 2 \in 1 .. EndAt(k)
  <3>1. Tail(Script) = Rest(parse_secret_key(k), 1 + 1) /\ 1 + 1 \in 1 .. EndAt(k)
    BY <2>2, <2>3 DEF KeyStep
  <3> QED BY <3>1
 <2>5. KeyBegun(k, 2)' BY <1>7, <1>8, <2>2 DEF KeyBegun
 <2>6. SecretTop' BY <1>4, <2>2, <2>4, <2>5 DEF SecretTop
 <2> QED BY <1>4, <2>6 DEF Scripted, OnTop
<1>17. CASE \E k, at : KeyAt(k, at) /\ KeyRead(k, at) /\ at # EndAt(k)
 <2>1. PICK k, at : KeyAt(k, at) /\ KeyRead(k, at) /\ at # EndAt(k) BY <1>17
 <2>2. k \in SecretKeys /\ at \in 1 .. EndAt(k) /\ KeyStep(Script, k, at) BY <2>1 DEF KeyAt
 <2>3. k.v3 \in BOOLEAN /\ EndAt(k) \in Nat /\ k.ends[Mpis] \in Nat BY <2>2, KeyFacts
 <2>4. at > 4 /\ SecretOpen /\ reading_v3_secret = k.v3 BY <2>1 DEF KeyRead
 <2>5. /\ at + 1 \in 1 .. EndAt(k) /\ Tail(Script) = Rest(parse_secret_key(k), at + 1)
       /\ StartOf(k, at) \in Nat /\ StartOf(k, at + 1) = StartOf(k, at) + Now.n
   BY <2>1, <2>2, <2>4 DEF KeyStep, Now
 <2>6. Enough(1) /\ SecretOpen' BY <1>9, <2>4 DEF SecretOpen
 <2>7. CASE k.v3
  <3>1. Sparing /\ Accounted(k.ends[Mpis] + 2 - StartOf(k, at)) BY <2>1, <2>7 DEF KeyRead
  <3>2. Reader.decrypted = <<>> BY <1>10, <1>11, <2>6, <3>1
  <3>3. Sparing' BY <1>1, <1>6, <3>2 DEF Sparing
  <3>4. Accounted(k.ends[Mpis] + 2 - StartOf(k, at + 1))'
   <4> DEFINE l == Reader.left
              d == Len(Reader.decrypted)
              e == k.ends[Mpis]
              s == StartOf(k, at)
              n == Now.n
   <4>1. l + d + n = e + 2 - s BY <1>2, <1>5, <3>1 DEF Accounted
   <4>2. l \in Nat /\ d \in Nat
    <5>1. Depth > 0 BY <1>3, <1>4, <2>6 DEF Enough
    <5>2. Depth \in DOMAIN readers BY <1>3, <5>1
    <5>3. ReaderShape(Reader) BY <5>2 DEF Shapes, Reader
    <5> QED BY <5>3, ListedFacts DEF ReaderShape
   <4>3. e \in Nat /\ s \in Nat /\ n \in Nat BY <1>5, <2>3, <2>5
   <4> HIDE DEF l, d, e, s, n
   <4>4. l + d + 0 = e + 2 - (s + n) BY <4>1, <4>2, <4>3
   <4>5. l + d + 0 = e + 2 - StartOf(k, at + 1) BY <2>5, <4>4 DEF s, n
   <4> QED BY <1>1, <1>6, <4>5 DEF Accounted, l, d, e
  <3>5. KeyRead(k, at + 1)' BY <1>1, <2>2, <2>4, <2>6, <2>7, <3>3, <3>4 DEF KeyRead
  <3>6. SecretTop' BY <1>4, <2>2, <2>5, <3>5 DEF SecretTop
  <3> QED BY <1>4, <3>6 DEF Scripted, OnTop
 <2>8. CASE ~k.v3
  <3>1. PadsAre(1) BY <2>1, <2>8 DEF KeyRead
  <3>2. PadsAre(1)' BY <1>1, <1>6, <3>1 DEF PadsAre
  <3>3. KeyRead(k, at + 1)' BY <1>1, <2>2, <2>4, <2>6, <2>8, <3>2 DEF KeyRead
  <3>4. SecretTop' BY <1>4, <2>2, <2>5, <3>3 DEF SecretTop
  <3> QED BY <1>4, <3>4 DEF Scripted, OnTop
 <2> QED BY <2>3, <2>7, <2>8
<1>18. CASE Closing
 <2>1. SecretOpen /\ ClosingStep(Script) BY <1>3, <1>18 DEF Closing, ClosingTop
 <2>2. Script' = <<Step("pop")>> BY <1>3, <1>4, <2>1 DEF ClosingStep, Now
 <2>3. ClosingTop' BY <1>9, <2>1, <2>2 DEF ClosingTop, ClosingScripts
 <2> QED BY <1>4, <2>3 DEF Scripted, OnTop
<1> QED BY <1>12, <1>13, <1>14, <1>15, <1>16, <1>17, <1>18

\* A read fails: the handler goes on with what it does then.
LEMMA ReadFailsScripts ==
  ASSUME Shapes, Scripted, Chained, ReadFails PROVE Scripted'
<1>1. /\ mode = "run" /\ calls # <<>> /\ calls' = <<>>
      /\ scripts' = Under(Now.fail) /\ readers' = readers /\ ciphers' = ciphers
      /\ reading_v3_secret' = reading_v3_secret /\ mode' = mode
  BY DEF ReadFails
<1>2. /\ scripts # <<>> /\ Script # <<>> /\ Now.op = "read" /\ Listed(scripts) /\ Lower /\ Which
      /\ Depth \in Nat
  BY <1>1, CallFacts
<1>3. /\ Lower' /\ Len(scripts') = Len(scripts) /\ Script' = Now.fail /\ Len(scripts) \in Nat
  BY <1>1, <1>2, LowerUnder
<1>4. Depth' = Depth /\ Reader' = Reader BY <1>1 DEF Depth, Reader
<1>5. \A o \in {0, 1} : Enough(o) => Enough(o)' BY <1>3, <1>4 DEF Enough
<1>6. Sessions(Depth) => Sessions(Depth)' BY <1>1, <1>4 DEF Sessions
<1>7. SecretOpen => SecretOpen' BY <1>1, <1>4, <1>5 DEF SecretOpen, Sessions
<1>8. \/ IdleTop
      \/ \E len, t : Opening(len, t)
      \/ SessionTop
      \/ \E k : KeyAt(k, 1) /\ KeyBegun(k, 1)
      \/ \E k, at : KeyAt(k, at) /\ KeyRead(k, at) /\ at # EndAt(k)
      \/ Closing
  BY <1>2 DEF Which
<1>9. ASSUME Enough(0), Sessions(Depth), Now.fail = <<>> PROVE Scripted'
 <2>1. Script' \in Seq(IdleSteps) BY <1>3, <1>9, IdleScripts
 <2>2. IdleTop' BY <1>5, <1>6, <1>9, <2>1 DEF IdleTop
 <2> QED BY <1>3, <2>2 DEF Scripted, OnTop
<1>10. CASE IdleTop
 <2>1. Enough(0) /\ Sessions(Depth) /\ Now.fail = <<>> BY <1>2, <1>10, IdleFacts DEF IdleTop, Now
 <2> QED BY <1>9, <2>1
<1>11. CASE \E len, t : Opening(len, t)
 <2>1. PICK len, t : Opening(len, t) BY <1>11
 <2>2. Enough(0) /\ Sessions(Depth) /\ Now.fail = <<>>
   BY <1>2, <2>1 DEF Opening, PushingStep, Now
 <2> QED BY <1>9, <2>2
<1>12. CASE SessionTop
 <2>1. Enough(1) /\ Sessions(Depth) /\ OpenStep(Script) BY <1>12, OpenFacts DEF SessionTop
 <2>2. Now.fail \in {<<>>, <<Step("pop")>>} BY <1>2, <2>1 DEF OpenStep, Now
 <2>3. CASE Now.fail = <<>>
  <3>1. Enough(0) BY <1>2, <1>3, <2>1 DEF Enough
  <3> QED BY <1>9, <2>1, <2>3, <3>1
 <2>4. CASE Now.fail = <<Step("pop")>>
  <3>1. Script' \in OpenScripts /\ Head(Script') = Step("pop")
    BY <1>3, <2>4, TupleFacts DEF OpenScripts
  <3>2. Now'.op = "pop" /\ Now'.exact = FALSE BY <3>1, StepFacts DEF Now
  <3>3. SessionTop' BY <1>5, <1>6, <2>1, <3>1, <3>2 DEF SessionTop
  <3> QED BY <1>3, <3>3 DEF Scripted, OnTop
 <2> QED BY <2>2, <2>3, <2>4
<1>13. CASE \E k : KeyAt(k, 1) /\ KeyBegun(k, 1)
 <2>1. PICK k : KeyAt(k, 1) /\ KeyBegun(k, 1) BY <1>13
 <2>2. Enough(0) /\ Sessions(Depth) /\ Now.fail = <<>> BY <2>1 DEF KeyAt, KeyBegun, KeyStep, Now
 <2> QED BY <1>9, <2>2
<1>14. CASE \E k, at : KeyAt(k, at) /\ KeyRead(k, at) /\ at # EndAt(k)
 <2>1. PICK k, at : KeyAt(k, at) /\ KeyRead(k, at) /\ at # EndAt(k) BY <1>14
 <2>2. SecretOpen /\ Now.fail = <<Step("end"), Step("pop")>>
   BY <2>1 DEF KeyAt, KeyRead, KeyStep, Now
 <2>3. Script' \in ClosingScripts BY <1>3, <2>2 DEF ClosingScripts
 <2>4. ClosingTop' BY <1>7, <2>2, <2>3 DEF ClosingTop
 <2> QED BY <1>3, <2>4 DEF Scripted, OnTop
<1>15. CASE Closing
 <2>1. SecretOpen /\ Now.fail = <<Step("leave")>>
   BY <1>2, <1>15 DEF Closing, ClosingTop, ClosingStep, Now
 <2>2. Script' \in ClosingScripts BY <1>3, <2>1 DEF ClosingScripts
 <2>3. ClosingTop' BY <1>7, <2>1, <2>2 DEF ClosingTop
 <2> QED BY <1>3, <2>3 DEF Scripted, OnTop
<1> QED BY <1>8, <1>10, <1>11, <1>12, <1>13, <1>14, <1>15

-----------------------------------------------------------------------------
(* The reads in progress. *)

\* The read at the bottom.
LEMMA PutCall ==
  ASSUME Listed(calls), calls # <<>>, NEW c, calls' = ReadOf(c)
  PROVE  /\ Listed(calls') /\ calls' # <<>> /\ Len(calls') = Len(calls) /\ Top' = c
         /\ calls'[Len(calls)] = c /\ \A j \in 1 .. Len(calls) - 1 : calls'[j] = calls[j]
<1>1. Len(calls) \in Nat /\ Len(calls) > 0 BY ListedFacts
<1>2. Len(calls) \in 1 .. Len(calls) BY <1>1
<1>3. /\ Listed(calls') /\ Len(calls') = Len(calls) /\ calls'[Len(calls)] = c
      /\ \A j \in 1 .. Len(calls) : j # Len(calls) => calls'[j] = calls[j]
 <2> DEFINE n == Len(calls)
            u == [calls EXCEPT ![n] = c]
 <2>1. calls' = u BY DEF ReadOf
 <2>2. /\ Listed(u) /\ Len(u) = Len(calls) /\ u[n] = c
       /\ \A j \in 1 .. Len(calls) : j # n => u[j] = calls[j]
  <3>1. n \in 1 .. Len(calls) BY <1>2
  <3> HIDE DEF n
  <3> QED BY <3>1, ListedPut
 <2> HIDE DEF u
 <2> QED BY <2>1, <2>2 DEF n
<1>4. calls' # <<>> BY <1>1, <1>3, ListedFacts
<1>5. Top' = c BY <1>3 DEF Top
<1> QED BY <1>1, <1>3, <1>4, <1>5

\* The read at the bottom, and the one that it is for.
LEMMA TopFacts ==
  ASSUME Shapes, Scripted, Chained, mode = "run", calls # <<>>
  PROVE  /\ Top = calls[Len(calls)] /\ CallShape(Top) /\ Top.depth = Depth + 1 - Len(calls)
         /\ Top.depth \in 0 .. Depth /\ Top.length \in Nat /\ Len(Top.units) \in Nat
         /\ Listed(Top.units) /\ (Top.units = <<>> <=> Len(Top.units) = 0)
         /\ AtBottom
         /\ Top.depth > 0 => Top.depth \in 1 .. Depth /\ ReaderShape(Serving) /\ readers # <<>>
         /\ Len(calls) > 1 <=> Top.depth < Depth
         /\ Len(calls) > 1 =>
              /\ calls[Len(calls) - 1].depth = Top.depth + 1 /\ Top.depth + 1 \in 1 .. Depth
              /\ ReaderShape(readers[Top.depth + 1])
              /\ Fits(calls[Len(calls) - 1], readers[Top.depth + 1], Top)
              /\ CallShape(calls[Len(calls) - 1]) /\ readers # <<>>
<1> DEFINE m == Len(calls)
<1>1. /\ Listed(readers) /\ Depth \in Nat /\ m \in Nat /\ m > 0 /\ m <= Depth + 1
      /\ DOMAIN readers = 1 .. Depth /\ DOMAIN calls = 1 .. m
      /\ \A j \in 1 .. m : calls[j].depth = Depth + 1 - j /\ CallShape(calls[j])
  BY CallFacts
<1>2. /\ \A j \in DOMAIN calls : j < m => Fits(calls[j], readers[calls[j].depth], calls[j + 1])
      /\ AtBottom
  BY DEF Chained
<1>3. \A i \in 1 .. Depth : ReaderShape(readers[i]) BY <1>1 DEF Shapes
<1>4. Top = calls[m] BY DEF Top
<1> HIDE DEF m
<1>5. m \in 1 .. m BY <1>1
<1>6. Top.depth = Depth + 1 - m /\ CallShape(Top) BY <1>1, <1>4, <1>5
<1>7. /\ Top.length \in Nat /\ Len(Top.units) \in Nat /\ Listed(Top.units)
      /\ (Top.units = <<>> <=> Len(Top.units) = 0)
  BY <1>6, ListedFacts DEF CallShape
<1>8. Top.depth \in 0 .. Depth BY <1>1, <1>6
<1>9. readers = <<>> => Depth = 0 BY <1>1, ListedFacts DEF Depth
<1>10. Top.depth > 0 => Top.depth \in 1 .. Depth /\ ReaderShape(Serving) /\ readers # <<>>
  BY <1>1, <1>3, <1>8, <1>9 DEF Serving
<1>11. m > 1 <=> Top.depth < Depth BY <1>1, <1>6
<1>12. ASSUME m > 1
       PROVE  /\ calls[m - 1].depth = Top.depth + 1 /\ Top.depth + 1 \in 1 .. Depth
              /\ ReaderShape(readers[Top.depth + 1])
              /\ Fits(calls[m - 1], readers[Top.depth + 1], Top) /\ CallShape(calls[m - 1])
              /\ readers # <<>>
 <2>1. m - 1 \in 1 .. m /\ m - 1 < m /\ m - 1 + 1 = m BY <1>1, <1>12
 <2>2. calls[m - 1].depth = Top.depth + 1 /\ Top.depth + 1 \in 1 .. Depth
  <3>1. calls[m - 1].depth = Depth + 1 - (m - 1) BY <1>1, <2>1
  <3>2. Depth + 1 - (m - 1) = Top.depth + 1 /\ Top.depth + 1 \in 1 .. Depth BY <1>1, <1>6, <1>12
  <3> QED BY <3>1, <3>2
 <2>3. Fits(calls[m - 1], readers[calls[m - 1].depth], calls[m - 1 + 1]) BY <1>1, <1>2, <2>1
 <2> QED BY <1>1, <1>3, <1>4, <1>9, <2>1, <2>2, <2>3
<1> QED BY <1>2, <1>4, <1>6, <1>7, <1>8, <1>10, <1>11, <1>12 DEF m

\* A step of the read at the bottom leaves the others as they are.
LEMMA ChainedPut ==
  ASSUME Shapes, Scripted, Chained, mode = "run", calls # <<>>, scripts' = scripts,
         Len(readers') = Len(readers), NEW c, calls' = ReadOf(c), c.depth = Top.depth,
         Len(calls) = 1 => c.length + Len(c.units) = Top.length + Len(Top.units),
         Len(calls) > 1 => Fits(calls[Len(calls) - 1], readers'[Top.depth + 1], c),
         \A i \in Top.depth + 2 .. Depth : readers'[i] = readers[i],
         AtBottom'
  PROVE  Chained'
<1> DEFINE m == Len(calls)
<1>1. /\ scripts # <<>> /\ Script # <<>> /\ Now.op = "read" /\ Listed(calls)
      /\ m \in Nat /\ m > 0 /\ m <= Depth + 1 /\ Depth \in Nat
      /\ DOMAIN readers = 1 .. Depth /\ DOMAIN calls = 1 .. m
      /\ \A j \in 1 .. m : calls[j].depth = Depth + 1 - j
      /\ calls[1].length + Len(calls[1].units) = Now.n
  BY CallFacts
<1>2. \A j \in DOMAIN calls : j < m => Fits(calls[j], readers[calls[j].depth], calls[j + 1])
  BY DEF Chained
<1>3. /\ Top = calls[m] /\ Top.depth = Depth + 1 - m BY TopFacts
<1>4. /\ Listed(calls') /\ calls' # <<>> /\ Len(calls') = m
      /\ calls'[m] = c /\ \A j \in 1 .. m - 1 : calls'[j] = calls[j]
  BY <1>1, PutCall
<1>5. DOMAIN calls' = 1 .. m BY <1>4, ListedFacts
<1>6. Script' = Script /\ Now' = Now /\ Depth' = Depth BY DEF Script, Now, Depth
<1>7. m > 1 => Fits(calls[m - 1], readers'[Top.depth + 1], c) OBVIOUS
<1> HIDE DEF m
<1>8. calls'[1].length + Len(calls'[1].units) = Now.n
 <2>1. CASE m = 1 BY <1>1, <1>3, <1>4, <2>1 DEF m
 <2>2. CASE m # 1 BY <1>1, <1>4, <2>2
 <2> QED BY <2>1, <2>2
<1>9. \A j \in 1 .. m : calls'[j].depth = Depth + 1 - j
 <2>1. SUFFICES ASSUME NEW j \in 1 .. m PROVE calls'[j].depth = Depth + 1 - j OBVIOUS
 <2>2. CASE j = m BY <1>3, <1>4, <2>2
 <2>3. CASE j # m BY <1>1, <1>4, <2>3
 <2> QED BY <2>2, <2>3
<1>10. ASSUME NEW j \in 1 .. m, j < m
       PROVE  Fits(calls'[j], readers'[calls'[j].depth], calls'[j + 1])
 <2>1. calls'[j] = calls[j] /\ calls'[j].depth = Depth + 1 - j BY <1>1, <1>4, <1>9, <1>10
 <2>2. CASE j = m - 1
  <3>1. Depth + 1 - j = Top.depth + 1 /\ j + 1 = m /\ m > 1 BY <1>1, <1>3, <2>2
  <3> QED BY <1>4, <1>7, <2>1, <2>2, <3>1
 <2>3. CASE j # m - 1
  <3>1. j + 1 \in 1 .. m - 1 /\ Depth + 1 - j \in Top.depth + 2 .. Depth
    BY <1>1, <1>3, <1>10, <2>3
  <3>2. calls'[j + 1] = calls[j + 1] /\ readers'[Depth + 1 - j] = readers[Depth + 1 - j]
    BY <1>4, <3>1
  <3>3. Fits(calls[j], readers[calls[j].depth], calls[j + 1]) BY <1>1, <1>2, <1>10
  <3> QED BY <2>1, <3>2, <3>3
 <2> QED BY <2>2, <2>3
<1> QED BY <1>1, <1>4, <1>5, <1>6, <1>8, <1>9, <1>10 DEF Chained

\* What is counted on of the reads in progress does not change in a step of the
\* read at the bottom that leaves the current reader alone.
LEMMA SparingPut ==
  ASSUME Shapes, Scripted, Chained, mode = "run", calls # <<>>, Len(readers') = Len(readers),
         NEW c, calls' = ReadOf(c),
         Len(calls) > 1, Reader' = Reader,
         Len(calls) = 2 => c.length + Len(c.units) = Top.length + Len(Top.units)
  PROVE  /\ Sparing => Sparing'
         /\ \A n : Accounted(n) => Accounted(n)'
         /\ \A n : PadsAre(n) => PadsAre(n)'
<1> DEFINE m == Len(calls)
<1>1. Listed(calls) /\ m \in Nat /\ m > 1 BY CallFacts
<1>2. /\ calls' # <<>> /\ Len(calls') = m /\ calls'[m] = c
      /\ \A j \in 1 .. m - 1 : calls'[j] = calls[j]
  BY <1>1, PutCall
<1>3. calls[m] = Top BY DEF Top
<1>4. Depth' = Depth BY DEF Depth
<1> HIDE DEF m
<1>5. calls'[1] = calls[1] BY <1>1, <1>2
<1>6. InFlight' = InFlight
 <2>1. CASE m = 2 BY <1>2, <1>3, <2>1 DEF InFlight, m
 <2>2. CASE m # 2
  <3>1. 2 \in 1 .. m - 1 BY <1>1, <2>2
  <3>2. calls'[2] = calls[2] BY <1>2, <3>1
  <3> QED BY <1>2, <3>2 DEF InFlight, m
 <2> QED BY <2>1, <2>2
<1> QED BY <1>2, <1>4, <1>5, <1>6 DEF Sparing, Accounted, PadsAre

\* SteadyScripts where a read is in progress and goes on.
LEMMA SteadyCalls ==
  ASSUME Shapes, Scripted, Chained, mode = "run", calls # <<>>,
         scripts' = scripts, reading_v3_secret' = reading_v3_secret, Len(readers') = Len(readers),
         readers = <<>> => readers' = readers /\ ciphers' = ciphers,
         Listed(readers'),
         \A i \in 1 .. Depth : readers'[i].crypt = readers[i].crypt,
         readers # <<>> =>
           /\ Now.exact \/ reading_v3_secret => (Sparing => Sparing')
           /\ \A n : Accounted(n) => Accounted(n)'
           /\ \A n : n = (IF CopiedPlain THEN 0 ELSE 1) => (PadsAre(n) => PadsAre(n)')
  PROVE  Scripted'
<1>1. /\ scripts # <<>> /\ Script # <<>> /\ Now.op = "read" /\ Listed(readers) BY CallFacts
<1>2. readers = <<>> <=> readers' = <<>> BY <1>1, ListedFacts
<1>3. ASSUME readers # <<>>
      PROVE  /\ ~reading_v3_secret => (PadsAre(1) => PadsAre(1)')
             /\ reading_v3_secret => (PadsAre(IF Now.mpi THEN 0 ELSE 1)
                  => PadsAre(IF Now.mpi THEN 0 ELSE 1)')
 <2>1. Now' = Now BY DEF Now, Script
 <2>2. ~reading_v3_secret => (PadsAre(1) => PadsAre(1)') BY <1>3 DEF CopiedPlain
 <2>3. ASSUME reading_v3_secret, PadsAre(IF Now.mpi THEN 0 ELSE 1)
       PROVE  PadsAre(IF Now.mpi THEN 0 ELSE 1)'
  <3> DEFINE n == IF Now.mpi THEN 0 ELSE 1
             e == n
  <3>1. n = (IF CopiedPlain THEN 0 ELSE 1) BY <2>3 DEF CopiedPlain, reading_mpi_length
  <3>2. \A l : l = n => (PadsAre(l) => PadsAre(l)') BY <1>3, <3>1
  <3>3. n' = n BY <2>1
  <3>4. PadsAre(n) BY <2>3
  <3> HIDE DEF n
  <3>5. PICK l : l = n OBVIOUS
  <3>6. PadsAre(l)' BY <3>2, <3>4, <3>5
  <3>7. PadsAre(n)' BY <3>3, <3>5, <3>6 DEF PadsAre
  <3> QED BY <3>7 DEF n
 <2> QED BY <2>2, <2>3
<1> QED BY <1>1, <1>2, <1>3, SteadyScripts

\* A step of the read at the bottom: types.
LEMMA ShapesPut ==
  ASSUME Shapes, calls # <<>>, NEW c, CallShape(c), calls' = ReadOf(c),
         packets' = packets, scripts' = scripts, reading_v3_secret' = reading_v3_secret,
         source' \in 0 .. StreamLen, mode' \in {"run", "abort", "dangling"},
         Listed(readers'), Len(readers') = Len(readers),
         \A i \in 1 .. Depth : ReaderShape(readers'[i]),
         DOMAIN ciphers' = {"session", "secret"}, \A k \in DOMAIN ciphers' : CipherShape(ciphers'[k])
  PROVE  Shapes'
<1>1. /\ packets \in 0 .. MaxPackets /\ reading_v3_secret \in BOOLEAN /\ Listed(scripts)
      /\ Listed(calls) /\ \A j \in DOMAIN calls : CallShape(calls[j])
  BY DEF Shapes
<1>2. /\ Listed(calls') /\ Len(calls') = Len(calls) /\ calls'[Len(calls)] = c
      /\ \A j \in 1 .. Len(calls) - 1 : calls'[j] = calls[j]
  BY <1>1, PutCall
<1>3. /\ DOMAIN calls = 1 .. Len(calls) /\ DOMAIN calls' = 1 .. Len(calls) /\ Len(calls) \in Nat
      /\ DOMAIN readers' = 1 .. Depth
  BY <1>1, <1>2, ListedFacts DEF Depth
<1>4. ASSUME NEW j \in DOMAIN calls' PROVE CallShape(calls'[j])
 <2>1. CASE j = Len(calls) BY <1>2, <2>1
 <2>2. CASE j # Len(calls) BY <1>1, <1>2, <1>3, <2>2
 <2> QED BY <2>1, <2>2
<1>5. \A i \in DOMAIN readers' : ReaderShape(readers'[i]) BY <1>3
<1> QED BY <1>1, <1>2, <1>4, <1>5 DEF Shapes

\* One of the readers is another.
LEMMA PutReader ==
  ASSUME Shapes, NEW d \in 1 .. Depth, NEW r, ReaderShape(r), readers' = [readers EXCEPT ![d] = r]
  PROVE  /\ Listed(readers') /\ Len(readers') = Len(readers) /\ readers'[d] = r /\ Depth' = Depth
         /\ \A i \in 1 .. Depth : i # d => readers'[i] = readers[i]
         /\ \A i \in 1 .. Depth : ReaderShape(readers[i]) /\ ReaderShape(readers'[i])
<1>1. Listed(readers) /\ d \in 1 .. Len(readers) BY DEF Shapes, Depth
<1> DEFINE s == readers
           u == [s EXCEPT ![d] = r]
<1>a. Listed(s) /\ d \in 1 .. Len(s) BY <1>1
<1> HIDE DEF s
<1>b. /\ Listed([s EXCEPT ![d] = r]) /\ Len([s EXCEPT ![d] = r]) = Len(s)
      /\ [s EXCEPT ![d] = r][d] = r
      /\ \A j \in 1 .. Len(s) : j # d => [s EXCEPT ![d] = r][j] = s[j]
  BY ONLY <1>a, ListedPut
<1>2. /\ Listed(u) /\ Len(u) = Len(readers) /\ u[d] = r
      /\ \A i \in 1 .. Len(readers) : i # d => u[i] = readers[i]
  BY <1>b DEF s
<1> HIDE DEF u
<1>3. \A i \in 1 .. Depth : ReaderShape(readers[i]) BY <1>1, ListedFacts DEF Shapes, Depth
<1>4. readers' = u BY DEF u, s
<1>5. /\ Listed(readers') /\ Len(readers') = Len(readers) /\ readers'[d] = r
      /\ \A i \in 1 .. Depth : i # d => readers'[i] = readers[i]
  BY <1>2, <1>4 DEF Depth
<1>6. Depth' = Depth BY <1>5 DEF Depth
<1> QED BY <1>3, <1>5, <1>6

-----------------------------------------------------------------------------
(* Entering a reader. *)

\* A cipher that is resynchronised or begins is a cipher still.
LEMMA CipherReset ==
  ASSUME NEW c, CipherShape(c)
  PROVE  /\ CipherShape(std_resync(c)) /\ CipherShape(ops_decrypt_init(c))
         /\ std_resync(c).num = 0 /\ ops_decrypt_init(c).num = 0 /\ ops_decrypt_init(c).iv = c.iv
<1>1. 0 \in 0 .. BlockSize - 1 BY ConstantFacts
<1>2. /\ DOMAIN std_resync(c) = {"iv", "num"} /\ std_resync(c).iv = c.iv /\ std_resync(c).num = 0
      /\ DOMAIN ops_decrypt_init(c) = {"iv", "num"} /\ ops_decrypt_init(c).iv = c.iv
      /\ ops_decrypt_init(c).num = 0
  BY DEF CipherShape, std_resync, ops_decrypt_init
<1> QED BY <1>1, <1>2 DEF CipherShape

\* A reader r0 that becomes r begins another stretch of its data.
Begins(r0, r) == r.hist = <<>> /\ r.start = RegisterAfter(r0.start, r0.hist)

\* What entering a reader does to it and to its cipher.
LEMMA EnterFacts ==
  ASSUME Shapes, Scripted, Chained, Enter
  PROVE  \E r : /\ mode = "run" /\ calls # <<>> /\ Top.depth \in 1 .. Depth
                /\ calls' = ReadOf([Top EXCEPT !.entered = TRUE])
                /\ readers' = [readers EXCEPT ![Top.depth] = r] /\ ReaderShape(r)
                /\ r.crypt = Serving.crypt /\ r.left = Serving.left
                /\ r.decrypted = Serving.decrypted /\ r.alone = Serving.alone
                /\ \/ r.hist = Serving.hist /\ r.start = Serving.start /\ ciphers' = ciphers
                   \/ /\ Begins(Serving, r)
                      /\ ciphers' = [ciphers EXCEPT ![Serving.crypt] = std_resync(ciphers[Serving.crypt])]
                /\ mode' \in {"run", "abort"}
                /\ scripts' = scripts /\ packets' = packets /\ source' = source
                /\ reading_v3_secret' = reading_v3_secret
<1>1. /\ mode = "run" /\ calls # <<>> /\ Top.depth > 0
      /\ calls' = ReadOf([Top EXCEPT !.entered = TRUE])
      /\ scripts' = scripts /\ packets' = packets /\ source' = source
      /\ reading_v3_secret' = reading_v3_secret
  BY DEF Enter, InReader
<1>2. Top.depth \in 1 .. Depth /\ ReaderShape(Serving) BY <1>1, TopFacts
<1>3. Now.mpi \in BOOLEAN /\ reading_v3_secret \in BOOLEAN BY <1>1, CallFacts DEF Shapes
<1>4. /\ DOMAIN Serving = {"crypt", "left", "decrypted", "prev_read_was_plain", "hist",
                           "start", "alone"}
      /\ {Serving.prev_read_was_plain, Serving.alone} \subseteq BOOLEAN
  BY <1>2 DEF ReaderShape
<1> DEFINE d == Top.depth
           r0 == readers[d]
           b  == r0.prev_read_was_plain \/ (reading_v3_secret /\ Now.mpi)
           r1 == [r0 EXCEPT !.prev_read_was_plain = b]
           r2 == [Resynced(r0) EXCEPT !.prev_read_was_plain = FALSE]
<1>5. b \in BOOLEAN OBVIOUS
<1> HIDE DEF b
<1>6. ReaderShape(r1) /\ ReaderShape(r2) /\ ReaderShape(r0)
  BY <1>2, <1>5, ListedShort DEF ReaderShape, Serving, Resynced
<1>7. /\ r1.crypt = r0.crypt /\ r1.left = r0.left /\ r1.decrypted = r0.decrypted
      /\ r1.hist = r0.hist /\ r1.alone = r0.alone /\ r1.start = r0.start
      /\ r2.crypt = r0.crypt /\ r2.left = r0.left /\ r2.decrypted = r0.decrypted
      /\ Begins(r0, r2) /\ r2.alone = r0.alone
  BY <1>4 DEF Serving, Resynced, Begins
<1>8. CASE Serving.prev_read_was_plain /\ ~reading_mpi_length /\ reading_v3_secret
 <2>1. /\ ciphers' = [ciphers EXCEPT ![Serving.crypt] = std_resync(ciphers[Serving.crypt])]
       /\ readers' = [readers EXCEPT ![d] = r2] /\ mode' = mode
   BY <1>8 DEF Enter, Resynced
 <2> HIDE DEF r2
 <2> QED BY <1>1, <1>2, <1>6, <1>7, <2>1 DEF Serving
<1>9. CASE Serving.prev_read_was_plain /\ ~reading_mpi_length /\ ~reading_v3_secret
 <2>1. ciphers' = ciphers /\ readers' = readers /\ mode' = "abort" BY <1>9 DEF Enter
 <2>2. readers' = [readers EXCEPT ![d] = r0]
  <3>1. Listed(readers) BY DEF Shapes
  <3>2. readers = [readers EXCEPT ![d] = readers[d]]
   <4>1. readers = [i \in 1 .. Len(readers) |-> readers[i]] BY <3>1 DEF Listed
   <4> QED BY <4>1
  <3> QED BY <2>1, <3>2
 <2> HIDE DEF r0
 <2> QED BY <1>1, <1>2, <1>6, <2>1, <2>2 DEF Serving, r0
<1>10. CASE ~(Serving.prev_read_was_plain /\ ~reading_mpi_length)
 <2>1. ciphers' = ciphers /\ readers' = [readers EXCEPT ![d] = r1] /\ mode' = mode
   BY <1>10 DEF Enter, b, reading_mpi_length
 <2> HIDE DEF r1
 <2> QED BY <1>1, <1>2, <1>6, <1>7, <2>1 DEF Serving
<1> QED BY <1>8, <1>9, <1>10

\* A reader that is entered: types.
LEMMA EnterShapes ==
  ASSUME Shapes, Scripted, Chained, Enter PROVE Shapes'
<1>1. PICK r :
        /\ mode = "run" /\ calls # <<>> /\ Top.depth \in 1 .. Depth
        /\ calls' = ReadOf([Top EXCEPT !.entered = TRUE])
        /\ readers' = [readers EXCEPT ![Top.depth] = r] /\ ReaderShape(r)
        /\ r.crypt = Serving.crypt
        /\ \/ ciphers' = ciphers
           \/ ciphers' = [ciphers EXCEPT ![Serving.crypt] = std_resync(ciphers[Serving.crypt])]
        /\ mode' \in {"run", "abort"}
        /\ scripts' = scripts /\ packets' = packets /\ source' = source
        /\ reading_v3_secret' = reading_v3_secret
  BY EnterFacts
<1>2. CallShape(Top) BY <1>1, TopFacts
<1> DEFINE c == [Top EXCEPT !.entered = TRUE]
           d == Top.depth
           k == Serving.crypt
<1>3. CallShape(c) BY <1>2 DEF CallShape
<1>4. k \in {"session", "secret"}
 <2>1. ReaderShape(r) /\ r.crypt = k BY <1>1
 <2> QED BY <2>1 DEF ReaderShape
<1>5. DOMAIN ciphers = {"session", "secret"} /\ \A x \in DOMAIN ciphers : CipherShape(ciphers[x])
  BY DEF Shapes
<1>6. CipherShape(std_resync(ciphers[k])) BY <1>4, <1>5, CipherReset
<1> DEFINE e == std_resync(ciphers[k])
<1>7. CipherShape(e) /\ (ciphers' = ciphers \/ ciphers' = [ciphers EXCEPT ![k] = e]) BY <1>1, <1>6
<1> HIDE DEF e, k, c
<1>8. DOMAIN ciphers' = {"session", "secret"} /\ \A x \in DOMAIN ciphers' : CipherShape(ciphers'[x])
  BY <1>4, <1>5, <1>7
<1>9. d \in 1 .. Depth /\ ReaderShape(r) /\ readers' = [readers EXCEPT ![d] = r] BY <1>1
<1> HIDE DEF d
<1>10. /\ Listed(readers') /\ Len(readers') = Len(readers)
       /\ \A i \in 1 .. Depth : ReaderShape(readers'[i])
  BY <1>9, PutReader
<1>11. calls' = ReadOf(c) BY <1>1 DEF c
<1>12. source' \in 0 .. StreamLen BY <1>1 DEF Shapes
<1> QED BY <1>1, <1>3, <1>8, <1>10, <1>11, <1>12, ShapesPut

\* The reads in progress and what is left to do, when a reader is entered.
LEMMA EnterSteps ==
  ASSUME Shapes, Scripted, Chained, Enter PROVE Chained' /\ Scripted'
<1>1. PICK r :
        /\ mode = "run" /\ calls # <<>> /\ Top.depth \in 1 .. Depth
        /\ calls' = ReadOf([Top EXCEPT !.entered = TRUE])
        /\ readers' = [readers EXCEPT ![Top.depth] = r] /\ ReaderShape(r)
        /\ r.crypt = Serving.crypt /\ r.left = Serving.left /\ r.decrypted = Serving.decrypted
        /\ mode' \in {"run", "abort"} /\ scripts' = scripts
        /\ reading_v3_secret' = reading_v3_secret
  BY EnterFacts
<1>2. /\ CallShape(Top) /\ Top = calls[Len(calls)] /\ readers # <<>>
      /\ Len(calls) > 1 <=> Top.depth < Depth
      /\ Len(calls) > 1 => /\ Fits(calls[Len(calls) - 1], readers[Top.depth + 1], Top)
                           /\ Top.depth + 1 \in 1 .. Depth
      /\ Listed(calls) /\ Len(calls) \in Nat /\ Len(calls) > 0 /\ Depth \in Nat
  BY <1>1, TopFacts, CallFacts
<1> DEFINE c == [Top EXCEPT !.entered = TRUE]
           d == Top.depth
<1>3. c.depth = d /\ c.length = Top.length /\ c.units = Top.units BY <1>2 DEF CallShape
<1>4. d \in 1 .. Depth /\ ReaderShape(r) /\ readers' = [readers EXCEPT ![d] = r] /\ d > 0 BY <1>1
<1>5. calls' = ReadOf(c) /\ d = Top.depth BY <1>1
<1> HIDE DEF c, d
<1>6. /\ Listed(readers') /\ Len(readers') = Len(readers) /\ readers'[d] = r /\ Depth' = Depth
      /\ \A i \in 1 .. Depth : i # d => readers'[i] = readers[i]
  BY <1>4, PutReader
<1>7. /\ Len(calls') = Len(calls) /\ Top' = c /\ calls' # <<>> /\ calls'[Len(calls)] = c
  BY <1>1, <1>2, <1>5, PutCall
<1>8. AtBottom' BY <1>3, <1>4, <1>7 DEF AtBottom
<1>9. Len(calls) > 1 => Fits(calls[Len(calls) - 1], readers'[d + 1], c)
 <2>1. SUFFICES ASSUME Len(calls) > 1 PROVE Fits(calls[Len(calls) - 1], readers'[d + 1], c)
   OBVIOUS
 <2>2. d + 1 \in 1 .. Depth /\ d + 1 # d /\ Fits(calls[Len(calls) - 1], readers[d + 1], Top)
   BY <1>2, <1>4, <1>5, <2>1
 <2>3. readers'[d + 1] = readers[d + 1] BY <1>6, <2>2
 <2> QED BY <1>3, <2>2, <2>3 DEF Fits
<1>10. \A i \in d + 2 .. Depth : readers'[i] = readers[i] BY <1>4, <1>6
<1>11. Chained'
 <2>1. /\ c.depth = Top.depth /\ (Len(calls) = 1 => c.length + Len(c.units) = Top.length + Len(Top.units))
       /\ (Len(calls) > 1 => Fits(calls[Len(calls) - 1], readers'[Top.depth + 1], c))
       /\ \A i \in Top.depth + 2 .. Depth : readers'[i] = readers[i]
   BY <1>3, <1>5, <1>9, <1>10
 <2> QED BY <1>1, <1>5, <1>6, <1>8, <2>1, ChainedPut
<1>12. \A i \in 1 .. Depth : readers'[i].crypt = readers[i].crypt BY <1>1, <1>5, <1>6 DEF Serving
<1>13. /\ Sparing => Sparing'
       /\ \A n : Accounted(n) => Accounted(n)'
       /\ \A n : PadsAre(n) => PadsAre(n)'
 <2>1. CASE Len(calls) > 1
  <3>1. Depth # d /\ Depth \in 1 .. Depth BY <1>2, <1>4, <1>5, <2>1
  <3>2. Reader' = Reader BY <1>6, <3>1 DEF Reader
  <3> QED BY <1>1, <1>3, <1>5, <1>6, <2>1, <3>2, SparingPut
 <2>2. CASE ~(Len(calls) > 1)
  <3>0. Len(calls) = 1 /\ ~(d < Depth)
   <4>1. Len(calls) \in Nat /\ Len(calls) > 0 /\ (Len(calls) > 1 <=> d < Depth) BY <1>2, <1>5
   <4> QED BY <4>1, <2>2
  <3>1. Len(calls) = 1 /\ d = Depth BY <1>2, <1>4, <3>0
  <3>2. Reader'.left = Reader.left /\ Reader'.decrypted = Reader.decrypted
    BY <1>1, <1>5, <1>6, <3>1 DEF Reader, Serving
  <3>3. /\ calls'[1].length = calls[1].length /\ calls'[1].units = calls[1].units
    BY <1>2, <1>3, <1>7, <3>1
  <3>4. InFlight' = InFlight BY <1>7, <3>1 DEF InFlight
  <3> QED BY <1>1, <1>6, <1>7, <3>2, <3>3, <3>4 DEF Sparing, Accounted, PadsAre
 <2> QED BY <2>1, <2>2
<1>14. Scripted' BY <1>1, <1>2, <1>6, <1>12, <1>13, SteadyCalls
<1> QED BY <1>11, <1>14

-----------------------------------------------------------------------------
(* What is in the buffer. *)

\* An assertion that fails changes nothing else.
LEMMA Aborted ==
  ASSUME Shapes, Chained, Scripted, mode = "run", mode' = "abort", packets' = packets,
         scripts' = scripts, readers' = readers, ciphers' = ciphers, calls' = calls,
         source' = source, reading_v3_secret' = reading_v3_secret
  PROVE  Shapes' /\ Chained' /\ Scripted'
<1>1. Shapes' BY DEF Shapes
<1>2. Depth' = Depth /\ Reader' = Reader /\ Script' = Script /\ Now' = Now /\ Top' = Top
  BY DEF Depth, Reader, Script, Now, Top
<1>3. Chained'
 <2>1. AtBottom => AtBottom' BY <1>2 DEF AtBottom
 <2> QED BY <1>2, <2>1 DEF Chained
<1>4. Lower' /\ (scripts # <<>> => OnTop) BY DEF Scripted, Lower
<1>5. InFlight' = InFlight BY DEF InFlight
<1>6. /\ \A o : Enough(o)' <=> Enough(o)
      /\ \A n : Sessions(n)' <=> Sessions(n)
      /\ Sparing' <=> Sparing
      /\ \A n : Accounted(n)' <=> Accounted(n)
      /\ \A n : PadsAre(n)' <=> PadsAre(n)
  BY <1>2, <1>5 DEF Enough, Sessions, Sparing, Accounted, PadsAre
<1>7. SecretOpen' <=> SecretOpen BY <1>2, <1>6 DEF SecretOpen, Sessions
<1>8. ASSUME OnTop PROVE OnTop'
 <2>1. BaseTop => BaseTop' BY <1>2, <1>6 DEF BaseTop, Sessions
 <2>2. IdleTop => IdleTop' BY <1>2, <1>6 DEF IdleTop, Sessions
 <2>3. ContainerTop => ContainerTop' BY <1>2, <1>6 DEF ContainerTop, Sessions
 <2>4. SessionTop => SessionTop' BY <1>2, <1>6 DEF SessionTop, Sessions
 <2>5. ASSUME SecretTop PROVE SecretTop'
  <3>1. PICK k \in SecretKeys :
          \E at \in 1 .. EndAt(k) :
            Script = Rest(parse_secret_key(k), at) /\ (KeyBegun(k, at) \/ KeyRead(k, at))
    BY <2>5 DEF SecretTop
  <3>2. PICK at \in 1 .. EndAt(k) :
          Script = Rest(parse_secret_key(k), at) /\ (KeyBegun(k, at) \/ KeyRead(k, at))
    BY <3>1
  <3>3. KeyBegun(k, at) => KeyBegun(k, at)' BY <1>2, <1>6 DEF KeyBegun, Sessions
  <3>4. KeyRead(k, at) => KeyRead(k, at)'
   <4>1. Accounted(k.ends[Mpis] + 2 - StartOf(k, at)) => Accounted(k.ends[Mpis] + 2 - StartOf(k, at))'
     BY <1>2 DEF Accounted
   <4>2. PadsAre(IF Now.mpi THEN 0 ELSE 1) => PadsAre(IF Now.mpi THEN 0 ELSE 1)'
     BY <1>2 DEF PadsAre
   <4>3. PadsAre(1) => PadsAre(1)' BY <1>2 DEF PadsAre
   <4> QED BY <1>6, <1>7, <4>1, <4>2, <4>3 DEF KeyRead
  <3> QED BY <1>2, <3>2, <3>3, <3>4 DEF SecretTop
 <2>6. ClosingTop => ClosingTop' BY <1>2, <1>7 DEF ClosingTop
 <2> QED BY <1>8, <2>1, <2>2, <2>3, <2>4, <2>5, <2>6 DEF OnTop
<1>9. scripts' # <<>> => OnTop' BY <1>4, <1>8
<1> QED BY <1>1, <1>3, <1>4, <1>9 DEF Scripted

\* n units go from a reader's buffer to the read at the bottom.
Handed(n, c, r) ==
  /\ n \in Nat /\ n > 0 /\ n <= Top.length /\ n <= Len(Serving.decrypted)
  /\ n < Len(Serving.decrypted) => n = Top.length
  /\ CallShape(c) /\ c.depth = Top.depth /\ c.length = Top.length - n
  /\ Len(c.units) = Len(Top.units) + n
  /\ \A j \in 1 .. Len(c.units) :
       c.units[j] = IF j <= Len(Top.units) THEN Top.units[j]
                    ELSE Serving.decrypted[j - Len(Top.units)]
  /\ ReaderShape(r) /\ r.crypt = Serving.crypt /\ r.left = Serving.left /\ r.hist = Serving.hist
  /\ r.alone = Serving.alone /\ r.start = Serving.start
  /\ Len(r.decrypted) = Len(Serving.decrypted) - n
  /\ \A j \in 1 .. Len(r.decrypted) : r.decrypted[j] = Serving.decrypted[n + j]
\* The read takes what the buffer has, up to what it wants, or an
\* assertion fails.
LEMMA FromBufferFacts ==
  ASSUME Shapes, Scripted, Chained, FromBuffer
  PROVE  /\ mode = "run" /\ calls # <<>> /\ Top.depth \in 1 .. Depth /\ ReaderShape(Serving)
         /\ scripts' = scripts /\ packets' = packets /\ source' = source /\ ciphers' = ciphers
         /\ reading_v3_secret' = reading_v3_secret
         /\ \/ mode' = "abort" /\ readers' = readers /\ calls' = calls
            \/ /\ mode' = mode
               /\ \E n, c, r : /\ Handed(n, c, r) /\ calls' = ReadOf(c)
                               /\ readers' = [readers EXCEPT ![Top.depth] = r]
<1>1. /\ mode = "run" /\ calls # <<>> /\ Top.depth > 0 /\ Top.length > 0
      /\ Serving.decrypted # <<>>
      /\ scripts' = scripts /\ packets' = packets /\ source' = source /\ ciphers' = ciphers
      /\ reading_v3_secret' = reading_v3_secret
  BY DEF FromBuffer, InReader
<1>2. /\ CallShape(Top) /\ Top.depth \in 1 .. Depth /\ ReaderShape(Serving)
      /\ Top.length \in Nat /\ Len(Top.units) \in Nat /\ Listed(Top.units)
  BY <1>1, TopFacts
<1> DEFINE s == Serving.decrypted
           n == Least(Top.length, Len(s))
           c == [Top EXCEPT !.length = Top.length - n, !.units = Top.units \o SubSeq(s, 1, n)]
           r == [readers[Top.depth] EXCEPT !.decrypted = SubSeq(s, n + 1, Len(s))]
<1>3. \/ mode' = "abort" /\ readers' = readers /\ calls' = calls
      \/ mode' = mode /\ calls' = ReadOf(c) /\ readers' = [readers EXCEPT ![Top.depth] = r]
  BY DEF FromBuffer, Serving
<1>4. Listed(s) /\ Len(s) \in Nat /\ Len(s) > 0 /\ Len(s) <= BufferSize
  BY <1>1, <1>2, ListedFacts DEF ReaderShape
<1>5. /\ n \in Nat /\ n > 0 /\ n <= Top.length /\ n <= Len(s) /\ (n < Len(s) => n = Top.length)
  BY <1>1, <1>2, <1>4 DEF Least
<1>6. /\ DOMAIN c = {"depth", "length", "units", "entered"} /\ c.depth = Top.depth
      /\ c.length = Top.length - n /\ c.units = Top.units \o SubSeq(s, 1, n)
      /\ c.entered \in BOOLEAN
  BY <1>2 DEF CallShape
<1>7. /\ DOMAIN r = {"crypt", "left", "decrypted", "prev_read_was_plain", "hist",
                     "start", "alone"}
      /\ r.decrypted = SubSeq(s, n + 1, Len(s))
      /\ r.crypt = Serving.crypt /\ r.left = Serving.left /\ r.hist = Serving.hist
      /\ r.alone = Serving.alone /\ r.start = Serving.start
      /\ r.prev_read_was_plain = Serving.prev_read_was_plain
  BY <1>2 DEF ReaderShape, Serving
<1> HIDE DEF s, n, c, r
<1>8. /\ Listed(SubSeq(s, 1, n)) /\ Len(SubSeq(s, 1, n)) = n
      /\ \A j \in 1 .. n : SubSeq(s, 1, n)[j] = s[j]
 <2>1. 1 \in 1 .. Len(s) + 1 /\ n \in 0 .. Len(s) /\ 1 <= n + 1 /\ n - 1 + 1 = n BY <1>4, <1>5
 <2>2. \A j \in 1 .. n : 1 + j - 1 = j BY <1>5
 <2>3. /\ Listed(SubSeq(s, 1, n)) /\ Len(SubSeq(s, 1, n)) = n - 1 + 1
       /\ \A j \in 1 .. n - 1 + 1 : SubSeq(s, 1, n)[j] = s[1 + j - 1]
   BY <1>4, <2>1, ListedPart
 <2> QED BY <2>1, <2>2, <2>3
<1>9. /\ Listed(r.decrypted) /\ Len(r.decrypted) = Len(s) - n
      /\ \A j \in 1 .. Len(r.decrypted) : r.decrypted[j] = s[n + j]
 <2>1. n + 1 \in 1 .. Len(s) + 1 /\ Len(s) \in 0 .. Len(s) /\ n + 1 <= Len(s) + 1 BY <1>4, <1>5
 <2>2. Len(s) - (n + 1) + 1 = Len(s) - n /\ \A j \in 1 .. Len(s) - n : n + 1 + j - 1 = n + j
   BY <1>4, <1>5
 <2> DEFINE q == n + 1
 <2>3. q \in 1 .. Len(s) + 1 /\ Len(s) \in 0 .. Len(s) /\ q <= Len(s) + 1 BY <2>1
 <2> HIDE DEF q
 <2>4. /\ Listed(SubSeq(s, q, Len(s))) /\ Len(SubSeq(s, q, Len(s))) = Len(s) - q + 1
       /\ \A j \in 1 .. Len(s) - q + 1 : SubSeq(s, q, Len(s))[j] = s[q + j - 1]
   BY <1>4, <2>3, ListedPart
 <2>5. /\ Listed(r.decrypted) /\ Len(r.decrypted) = Len(s) - (n + 1) + 1
       /\ \A j \in 1 .. Len(s) - (n + 1) + 1 : r.decrypted[j] = s[n + 1 + j - 1]
   BY <1>7, <2>4 DEF q
 <2> QED BY <2>2, <2>5
<1>10. /\ Listed(c.units) /\ Len(c.units) = Len(Top.units) + n
       /\ \A j \in 1 .. Len(c.units) :
            c.units[j] = IF j <= Len(Top.units) THEN Top.units[j] ELSE s[j - Len(Top.units)]
 <2> DEFINE t == Top.units
            q == SubSeq(s, 1, n)
 <2>1. Listed(t) /\ Len(t) \in Nat /\ Listed(q) /\ Len(q) = n /\ \A j \in 1 .. n : q[j] = s[j]
   BY <1>2, <1>8
 <2> HIDE DEF t, q
 <2>2. /\ Listed(t \o q) /\ Len(t \o q) = Len(t) + n
       /\ \A j \in 1 .. Len(t) + n : (t \o q)[j] = IF j <= Len(t) THEN t[j] ELSE q[j - Len(t)]
   BY <2>1, ListedConcat
 <2>3. \A j \in 1 .. Len(t) + n : ~(j <= Len(t)) => j - Len(t) \in 1 .. n BY <1>5, <2>1
 <2>4. c.units = t \o q BY <1>6 DEF t, q
 <2>5. \A j \in 1 .. Len(t) + n : c.units[j] = IF j <= Len(t) THEN t[j] ELSE s[j - Len(t)]
   BY <2>1, <2>2, <2>3, <2>4
 <2> QED BY <2>2, <2>4, <2>5 DEF t
<1>11. CallShape(c)
 <2>1. c.length \in Nat BY <1>2, <1>5, <1>6
 <2> QED BY <1>6, <1>10, <2>1 DEF CallShape
<1>12. ReaderShape(r)
 <2>1. Len(r.decrypted) <= BufferSize BY <1>4, <1>5, <1>9, ConstantFacts
 <2> QED BY <1>2, <1>7, <1>9, <2>1 DEF ReaderShape
<1>13. Handed(n, c, r) BY <1>5, <1>6, <1>7, <1>9, <1>10, <1>11, <1>12 DEF Handed, s
<1> QED BY <1>1, <1>2, <1>3, <1>13

\* The buffer's units: types.
LEMMA FromBufferShapes ==
  ASSUME Shapes, Scripted, Chained, FromBuffer PROVE Shapes'
<1>1. /\ mode = "run" /\ calls # <<>> /\ Top.depth \in 1 .. Depth
      /\ scripts' = scripts /\ packets' = packets /\ source' = source /\ ciphers' = ciphers
      /\ reading_v3_secret' = reading_v3_secret
      /\ \/ mode' = "abort" /\ readers' = readers /\ calls' = calls
         \/ /\ mode' = mode
            /\ \E n, c, r : /\ Handed(n, c, r) /\ calls' = ReadOf(c)
                            /\ readers' = [readers EXCEPT ![Top.depth] = r]
  BY FromBufferFacts
<1>2. CASE mode' = "abort" /\ readers' = readers /\ calls' = calls BY <1>1, <1>2, Aborted
<1>3. CASE mode' = mode /\ \E n, c, r : /\ Handed(n, c, r) /\ calls' = ReadOf(c)
                                        /\ readers' = [readers EXCEPT ![Top.depth] = r]
 <2>1. PICK n, c, r : /\ Handed(n, c, r) /\ calls' = ReadOf(c)
                      /\ readers' = [readers EXCEPT ![Top.depth] = r]
   BY <1>3
 <2>2. CallShape(c) /\ ReaderShape(r) BY <2>1 DEF Handed
 <2> DEFINE d == Top.depth
 <2>3. d \in 1 .. Depth /\ readers' = [readers EXCEPT ![d] = r] BY <1>1, <2>1
 <2> HIDE DEF d
 <2>4. /\ Listed(readers') /\ Len(readers') = Len(readers)
       /\ \A i \in 1 .. Depth : ReaderShape(readers'[i])
   BY <2>2, <2>3, PutReader
 <2>5. /\ source' \in 0 .. StreamLen /\ mode' \in {"run", "abort", "dangling"}
       /\ DOMAIN ciphers' = {"session", "secret"}
       /\ \A k \in DOMAIN ciphers' : CipherShape(ciphers'[k])
   BY <1>1, <1>3 DEF Shapes
 <2> QED BY <1>1, <2>1, <2>2, <2>4, <2>5, ShapesPut
<1> QED BY <1>1, <1>2, <1>3

\* What the reads in progress and the handlers still have to do, when units are
\* taken from the buffer.
LEMMA FromBufferSteps ==
  ASSUME Shapes, Scripted, Chained, FromBuffer PROVE Chained' /\ Scripted'
<1>1. /\ mode = "run" /\ calls # <<>> /\ Top.depth \in 1 .. Depth /\ ReaderShape(Serving)
      /\ scripts' = scripts /\ packets' = packets /\ source' = source /\ ciphers' = ciphers
      /\ reading_v3_secret' = reading_v3_secret
      /\ \/ mode' = "abort" /\ readers' = readers /\ calls' = calls
         \/ /\ mode' = mode
            /\ \E n, c, r : /\ Handed(n, c, r) /\ calls' = ReadOf(c)
                            /\ readers' = [readers EXCEPT ![Top.depth] = r]
  BY FromBufferFacts
<1>2. CASE mode' = "abort" /\ readers' = readers /\ calls' = calls BY <1>1, <1>2, Aborted
<1>3. CASE \E n, c, r : /\ Handed(n, c, r) /\ calls' = ReadOf(c)
                        /\ readers' = [readers EXCEPT ![Top.depth] = r]
 <2>1. PICK n, c, r : /\ Handed(n, c, r) /\ calls' = ReadOf(c)
                      /\ readers' = [readers EXCEPT ![Top.depth] = r]
   BY <1>3
 <2>2. /\ n \in Nat /\ n > 0 /\ n <= Top.length /\ n <= Len(Serving.decrypted)
       /\ c.depth = Top.depth /\ c.length = Top.length - n
       /\ Len(c.units) = Len(Top.units) + n
       /\ ReaderShape(r) /\ r.crypt = Serving.crypt /\ r.left = Serving.left
       /\ Len(r.decrypted) = Len(Serving.decrypted) - n /\ CallShape(c)
   BY <2>1 DEF Handed
 <2>3. /\ readers # <<>> /\ Top = calls[Len(calls)] /\ Top.length \in Nat /\ Len(Top.units) \in Nat
       /\ Len(calls) > 1 => /\ Fits(calls[Len(calls) - 1], readers[Top.depth + 1], Top)
                            /\ Top.depth + 1 \in 1 .. Depth
       /\ Listed(calls) /\ Len(calls) \in Nat /\ Len(calls) > 0 /\ Depth \in Nat
   BY <1>1, TopFacts, CallFacts
 <2>4. Len(calls) > 1 <=> Top.depth < Depth BY <1>1, TopFacts
 <2> DEFINE d == Top.depth
            m == Len(calls)
 <2>5. d \in 1 .. Depth /\ readers' = [readers EXCEPT ![d] = r] /\ d = Top.depth /\ d > 0
   BY <1>1, <2>1
 <2> HIDE DEF d
 <2>6. /\ Listed(readers') /\ Len(readers') = Len(readers) /\ readers'[d] = r /\ Depth' = Depth
       /\ \A i \in 1 .. Depth : i # d => readers'[i] = readers[i]
   BY <2>2, <2>5, PutReader
 <2>7. /\ Len(calls') = Len(calls) /\ Top' = c /\ calls' # <<>> /\ calls'[Len(calls)] = c
   BY <1>1, <2>1, <2>3, PutCall
 <2>8. AtBottom' BY <2>2, <2>5, <2>7 DEF AtBottom
 <2>9. c.length + Len(c.units) = Top.length + Len(Top.units) BY <2>2, <2>3
 <2>10. m > 1 => Fits(calls[m - 1], readers'[d + 1], c)
  <3>1. SUFFICES ASSUME m > 1 PROVE Fits(calls[m - 1], readers'[d + 1], c) OBVIOUS
  <3>2. d + 1 \in 1 .. Depth /\ d + 1 # d /\ Fits(calls[m - 1], readers[d + 1], Top)
    BY <2>3, <2>5, <3>1
  <3>3. readers'[d + 1] = readers[d + 1] BY <2>6, <3>2
  <3> DEFINE R == readers[d + 1]
  <3>4. readers'[d + 1] = R /\ ReaderShape(R) BY <3>2, <3>3, <2>5, <2>2, PutReader
  <3>5. Listed(R.decrypted) /\ Len(R.decrypted) \in Nat /\ R.left \in Nat
    BY <3>4, ListedFacts DEF ReaderShape
  <3>6. /\ calls[m - 1].length > 0 /\ Top.length + Len(Top.units) <= R.left
        /\ Len(R.decrypted) + Top.length + Len(Top.units) <= BufferSize
        /\ (Top.length > 0 => R.decrypted = <<>>)
    BY <3>2 DEF Fits
  <3> HIDE DEF R, m
  <3>7. /\ c.length + Len(c.units) <= R.left
        /\ Len(R.decrypted) + c.length + Len(c.units) <= BufferSize
        /\ (c.length > 0 => R.decrypted = <<>>)
    BY <2>2, <2>3, <3>5, <3>6, ConstantFacts
  <3> QED BY <3>4, <3>6, <3>7 DEF Fits
 <2>11. \A i \in d + 2 .. Depth : readers'[i] = readers[i] BY <2>5, <2>6
 <2>12. Chained'
  <3>1. /\ (Len(calls) = 1 => c.length + Len(c.units) = Top.length + Len(Top.units))
        /\ (Len(calls) > 1 => Fits(calls[Len(calls) - 1], readers'[Top.depth + 1], c))
        /\ \A i \in Top.depth + 2 .. Depth : readers'[i] = readers[i]
    BY <2>5, <2>9, <2>10, <2>11
  <3> QED BY <1>1, <2>1, <2>2, <2>6, <2>8, <3>1, ChainedPut
 <2>13. \A i \in 1 .. Depth : readers'[i].crypt = readers[i].crypt
   BY <2>2, <2>5, <2>6 DEF Serving
 <2>14. /\ Sparing => Sparing'
        /\ \A l : Accounted(l) => Accounted(l)'
        /\ \A l : PadsAre(l) => PadsAre(l)'
  <3>1. CASE m > 1
   <4>1. Depth # d /\ Depth \in 1 .. Depth BY <2>3, <2>4, <2>5, <3>1
   <4>2. Reader' = Reader BY <2>6, <4>1 DEF Reader
   <4> QED BY <1>1, <2>1, <2>6, <2>9, <3>1, <4>2, SparingPut
  <3>2. CASE ~(m > 1)
   <4>0. m = 1 /\ ~(d < Depth)
    <5>1. m \in Nat /\ m > 0 /\ (m > 1 <=> d < Depth) BY <2>3, <2>4, <2>5
    <5> QED BY <3>2, <5>1
   <4>1. d = Depth BY <2>3, <2>5, <4>0
   <4>2. Reader' = r /\ Reader = Serving BY <2>5, <2>6, <4>1 DEF Reader, Serving
   <4>3. /\ calls'[1] = c /\ calls[1] = Top BY <2>3, <2>7, <4>0
   <4>4. InFlight' = 0 /\ InFlight = 0 BY <2>7, <4>0 DEF InFlight
   <4>5. Len(Serving.decrypted) \in Nat /\ Serving.left \in Nat
     BY <1>1, ListedFacts DEF ReaderShape
   <4>6. Sparing => Sparing'
    <5>1. SUFFICES ASSUME Sparing PROVE Sparing' OBVIOUS
    <5>2. Len(Serving.decrypted) + 0 <= Top.length BY <1>1, <4>2, <4>3, <4>4, <5>1 DEF Sparing
    <5>3. Len(r.decrypted) + 0 <= c.length BY <2>2, <2>3, <4>5, <5>2
    <5> QED BY <2>7, <4>2, <4>3, <4>4, <5>3 DEF Sparing
   <4>7. ASSUME NEW l, Accounted(l) PROVE Accounted(l)'
    <5>1. Serving.left + Len(Serving.decrypted) + Len(Top.units) = l
      BY <1>1, <4>2, <4>3, <4>7 DEF Accounted
    <5>2. r.left + Len(r.decrypted) + Len(c.units) = l BY <2>2, <2>3, <4>5, <5>1
    <5> QED BY <2>7, <4>2, <4>3, <5>2 DEF Accounted
   <4>8. ASSUME NEW l, PadsAre(l) PROVE PadsAre(l)'
    <5>1. SUFFICES ASSUME Depth = 1
                   PROVE  /\ \A i \in DOMAIN r.decrypted : Len(r.decrypted[i].pads) = l
                          /\ \A i \in DOMAIN c.units : Len(c.units[i].pads) = l
      BY <2>6, <2>7, <4>2, <4>3 DEF PadsAre
    <5>2. /\ \A i \in DOMAIN Serving.decrypted : Len(Serving.decrypted[i].pads) = l
          /\ \A i \in DOMAIN Top.units : Len(Top.units[i].pads) = l
      BY <1>1, <4>2, <4>3, <4>8, <5>1 DEF PadsAre
    <5>3. /\ DOMAIN Serving.decrypted = 1 .. Len(Serving.decrypted)
          /\ DOMAIN r.decrypted = 1 .. Len(r.decrypted)
      BY <1>1, <2>2, ListedFacts DEF ReaderShape
    <5>4. /\ DOMAIN Top.units = 1 .. Len(Top.units) /\ DOMAIN c.units = 1 .. Len(c.units)
      BY <1>1, <2>2, TopFacts, ListedFacts DEF CallShape
    <5>5. /\ \A j \in 1 .. Len(c.units) :
               c.units[j] = IF j <= Len(Top.units) THEN Top.units[j]
                            ELSE Serving.decrypted[j - Len(Top.units)]
          /\ \A j \in 1 .. Len(r.decrypted) : r.decrypted[j] = Serving.decrypted[n + j]
      BY <2>1 DEF Handed
    <5>6. ASSUME NEW j \in 1 .. Len(r.decrypted) PROVE Len(r.decrypted[j].pads) = l
     <6>1. n + j \in 1 .. Len(Serving.decrypted) BY <2>2, <4>5
     <6> QED BY <5>2, <5>3, <5>5, <6>1
    <5>7. ASSUME NEW j \in 1 .. Len(c.units) PROVE Len(c.units[j].pads) = l
     <6>1. CASE j <= Len(Top.units)
      <7>1. j \in 1 .. Len(Top.units) /\ c.units[j] = Top.units[j] BY <2>3, <5>5, <6>1
      <7> QED BY <5>2, <5>4, <7>1
     <6>2. CASE ~(j <= Len(Top.units))
      <7>1. j - Len(Top.units) \in 1 .. Len(Serving.decrypted) BY <2>2, <2>3, <4>5, <6>2
      <7>2. c.units[j] = Serving.decrypted[j - Len(Top.units)] BY <5>5, <6>2
      <7> QED BY <5>2, <5>3, <7>1, <7>2
     <6> QED BY <6>1, <6>2
    <5> QED BY <5>3, <5>4, <5>6, <5>7
   <4> QED BY <4>6, <4>7, <4>8
  <3> QED BY <3>1, <3>2
 <2>15. Scripted' BY <1>1, <2>3, <2>6, <2>13, <2>14, SteadyCalls
 <2> QED BY <2>12, <2>15
<1> QED BY <1>1, <1>2, <1>3

-----------------------------------------------------------------------------
(* A read of the reader below. *)

\* What is asked for is in the packet and has room in the buffer; where nothing may
\* be read ahead it is no more than is needed.
LEMMA PortionFacts ==
  ASSUME NEW rem \in Nat, NEW length \in Nat
  PROVE  /\ Portion(rem, length) \in Nat /\ Portion(rem, length) <= rem
         /\ Portion(rem, length) <= BufferSize
         /\ reading_v3_secret \/ Now.exact => Portion(rem, length) <= length
BY ConstantFacts DEF Portion, Least, exact_read

\* A new read is put at the bottom.
LEMMA FetchFacts ==
  ASSUME Shapes, Scripted, Chained, Fetch
  PROVE  \E p \in Nat :
           /\ mode = "run" /\ calls # <<>> /\ Top.depth \in 1 .. Depth /\ ReaderShape(Serving)
           /\ Top.length > 0 /\ Serving.decrypted = <<>>
           /\ p <= Serving.left /\ p <= BufferSize
           /\ reading_v3_secret \/ Now.exact => p <= Top.length
           /\ Listed(calls') /\ Len(calls') = Len(calls) + 1 /\ calls' # <<>>
           /\ \A j \in 1 .. Len(calls) : calls'[j] = calls[j]
           /\ calls'[Len(calls) + 1] = Call(Top.depth - 1, p)
           /\ Top' = Call(Top.depth - 1, p)
           /\ CallShape(Call(Top.depth - 1, p))
           /\ scripts' = scripts /\ packets' = packets /\ readers' = readers /\ ciphers' = ciphers
           /\ source' = source /\ reading_v3_secret' = reading_v3_secret /\ mode' = mode
<1> DEFINE p == Portion(Serving.left, Top.length)
           c == Call(Top.depth - 1, p)
<1>1. /\ mode = "run" /\ calls # <<>> /\ Top.depth > 0 /\ Top.length > 0
      /\ Serving.decrypted = <<>> /\ calls' = Append(calls, c)
      /\ scripts' = scripts /\ packets' = packets /\ readers' = readers /\ ciphers' = ciphers
      /\ source' = source /\ reading_v3_secret' = reading_v3_secret /\ mode' = mode
  BY DEF Fetch, InReader
<1>2. Top.depth \in 1 .. Depth /\ ReaderShape(Serving) /\ Top.length \in Nat BY <1>1, TopFacts
<1>3. Serving.left \in Nat BY <1>2 DEF ReaderShape
<1>4. /\ p \in Nat /\ p <= Serving.left /\ p <= BufferSize
      /\ reading_v3_secret \/ Now.exact => p <= Top.length
  BY <1>2, <1>3, PortionFacts
<1> HIDE DEF p
<1>5. CallShape(c)
 <2>1. Listed(<<>>) BY ListedShort
 <2> QED BY <1>4, <2>1 DEF CallShape, Call
<1>6. Listed(calls) BY DEF Shapes
<1>7. /\ Listed(calls') /\ Len(calls') = Len(calls) + 1
      /\ \A j \in 1 .. Len(calls) : calls'[j] = calls[j]
      /\ calls'[Len(calls) + 1] = c
 <2> HIDE DEF c
 <2> QED BY <1>1, <1>6, ListedAppend
<1>8. calls' # <<>>
 <2>1. Len(calls) \in Nat BY <1>6, ListedFacts
 <2>2. Len(calls') # 0 BY <1>7, <2>1
 <2> QED BY <1>7, <2>2, ListedFacts
<1>9. Top' = c BY <1>7 DEF Top
<1> QED BY <1>1, <1>2, <1>4, <1>5, <1>7, <1>8, <1>9

\* A read of the reader below: types, reads in progress, what is left to do.
LEMMA FetchSteps ==
  ASSUME Shapes, Scripted, Chained, Fetch PROVE Shapes' /\ Chained' /\ Scripted'
<1>1. PICK p \in Nat :
        /\ mode = "run" /\ calls # <<>> /\ Top.depth \in 1 .. Depth /\ ReaderShape(Serving)
        /\ Top.length > 0 /\ Serving.decrypted = <<>>
        /\ p <= Serving.left /\ p <= BufferSize
        /\ reading_v3_secret \/ Now.exact => p <= Top.length
        /\ Listed(calls') /\ Len(calls') = Len(calls) + 1 /\ calls' # <<>>
        /\ \A j \in 1 .. Len(calls) : calls'[j] = calls[j]
        /\ calls'[Len(calls) + 1] = Call(Top.depth - 1, p)
        /\ Top' = Call(Top.depth - 1, p)
        /\ CallShape(Call(Top.depth - 1, p))
        /\ scripts' = scripts /\ packets' = packets /\ readers' = readers /\ ciphers' = ciphers
        /\ source' = source /\ reading_v3_secret' = reading_v3_secret /\ mode' = mode
  BY FetchFacts
<1> DEFINE c == Call(Top.depth - 1, p)
           m == Len(calls)
<1>2. c.depth = Top.depth - 1 /\ c.length = p /\ c.units = <<>> /\ Len(c.units) = 0
  BY ListedShort DEF Call
<1>3. /\ Listed(calls') /\ Len(calls') = m + 1 /\ \A j \in 1 .. m : calls'[j] = calls[j]
      /\ calls'[m + 1] = c /\ CallShape(c) /\ Top' = c
  BY <1>1
<1> HIDE DEF c
<1>4. /\ m \in Nat /\ m > 0 /\ Depth \in Nat /\ Listed(readers)
      /\ DOMAIN calls = 1 .. m /\ DOMAIN readers = 1 .. Depth
      /\ scripts # <<>> /\ Script # <<>> /\ Now.op = "read"
      /\ calls[1].length + Len(calls[1].units) = Now.n
      /\ \A j \in 1 .. m : calls[j].depth = Depth + 1 - j /\ CallShape(calls[j])
      /\ Now.n \in Nat
  BY <1>1, CallFacts
<1>5. /\ Top = calls[m] /\ Top.depth = Depth + 1 - m /\ readers # <<>> BY <1>1, TopFacts
<1>6. DOMAIN calls' = 1 .. m + 1 BY <1>3, ListedFacts
<1>7. Shapes'
 <2>1. \A j \in 1 .. m + 1 : CallShape(calls'[j])
  <3>1. SUFFICES ASSUME NEW j \in 1 .. m + 1 PROVE CallShape(calls'[j]) OBVIOUS
  <3>2. CASE j \in 1 .. m BY <1>3, <1>4, <3>2
  <3>3. CASE j = m + 1 BY <1>3, <3>3
  <3> QED BY <1>4, <3>2, <3>3
 <2> QED BY <1>1, <1>3, <1>6, <2>1 DEF Shapes
<1>8. Depth' = Depth /\ Script' = Script /\ Now' = Now /\ Reader' = Reader
  BY <1>1 DEF Depth, Script, Now, Reader
<1>9. \A j \in 1 .. m : j < m => Fits(calls[j], readers[calls[j].depth], calls[j + 1])
 <2>1. calls # <<>> BY <1>1
 <2> QED BY <1>4, <2>1 DEF Chained
<1>10. Chained'
 <2>1. calls'[1] = calls[1] BY <1>3, <1>4
 <2>2. m + 1 <= Depth + 1 BY <1>1, <1>4, <1>5
 <2>3. \A j \in 1 .. m + 1 : calls'[j].depth = Depth + 1 - j
  <3>1. SUFFICES ASSUME NEW j \in 1 .. m + 1 PROVE calls'[j].depth = Depth + 1 - j OBVIOUS
  <3>2. CASE j \in 1 .. m BY <1>3, <1>4, <3>2
  <3>3. CASE j = m + 1 BY <1>2, <1>3, <1>4, <1>5, <3>3
  <3> QED BY <1>4, <3>2, <3>3
 <2>4. ASSUME NEW j \in 1 .. m + 1, j < m + 1
       PROVE  Fits(calls'[j], readers[calls'[j].depth], calls'[j + 1])
  <3>1. j \in 1 .. m /\ calls'[j] = calls[j] BY <1>3, <1>4, <2>4
  <3>2. CASE j < m
   <4>1. calls'[j + 1] = calls[j + 1] BY <1>3, <1>4, <3>1, <3>2
   <4> QED BY <1>9, <3>1, <3>2, <4>1
  <3>3. CASE j = m
   <4>1. calls'[j] = Top /\ calls'[j + 1] = c /\ readers[calls'[j].depth] = Serving
     BY <1>3, <1>5, <3>1, <3>3 DEF Serving
   <4>2. Len(Serving.decrypted) = 0 BY <1>1, ListedShort
   <4>3. /\ c.length + Len(c.units) <= Serving.left
         /\ Len(Serving.decrypted) + c.length + Len(c.units) <= BufferSize
     BY <1>1, <1>2, <4>2, ConstantFacts
   <4>4. Fits(Top, Serving, c) BY <1>1, <4>3 DEF Fits
   <4> QED BY <4>1, <4>4
  <3>4. j < m \/ j = m
   <4>1. m \in Nat /\ j \in 1 .. m BY <1>4, <3>1
   <4> HIDE DEF m
   <4> QED BY <4>1
  <3> QED BY <3>2, <3>3, <3>4
 <2>5. AtBottom'
  <3>1. Len(Top'.units) = 0 /\ Top'.units = <<>> BY <1>2, <1>3
  <3>2. 0 <= source' BY <1>7 DEF Shapes
  <3>3. DOMAIN Top'.units = {} BY <3>1
  <3> QED BY <3>1, <3>2, <3>3 DEF AtBottom
 <2> QED BY <1>1, <1>3, <1>4, <1>6, <1>8, <2>1, <2>2, <2>3, <2>4, <2>5 DEF Chained
<1>11. Scripted'
 <2>1. \A i \in 1 .. Depth : readers'[i].crypt = readers[i].crypt BY <1>1
 <2>2. calls'[1] = calls[1] BY <1>3, <1>4
 <2>3. \A n : /\ Accounted(n) => Accounted(n)'
              /\ PadsAre(n) => PadsAre(n)'
   BY <1>1, <1>8, <2>2 DEF Accounted, PadsAre
 <2>4. ASSUME Now.exact \/ reading_v3_secret, Sparing PROVE Sparing'
  <3>1. CASE m > 1
   <4>1. 2 \in 1 .. m /\ Len(calls') > 1 BY <1>3, <1>4, <3>1
   <4>2. InFlight' = InFlight BY <1>3, <3>1, <4>1 DEF InFlight
   <4> QED BY <1>1, <1>8, <2>2, <2>4, <4>2 DEF Sparing
  <3>2. CASE ~(m > 1)
   <4>1. m = 1 BY <1>4, <3>2
   <4>2. Len(calls') > 1 /\ calls'[2] = c BY <1>3, <4>1
   <4>3. InFlight' = p BY <1>2, <4>2 DEF InFlight
   <4>4. calls[1] = Top /\ Reader = Serving
    <5>1. Top.depth = Depth BY <1>4, <1>5, <4>1
    <5> QED BY <1>5, <4>1, <5>1 DEF Reader, Serving
   <4>5. Len(Reader.decrypted) = 0 BY <1>1, <4>4, ListedShort
   <4>6. p <= calls[1].length BY <1>1, <2>4, <4>4
   <4> QED BY <1>1, <1>8, <2>2, <4>3, <4>5, <4>6 DEF Sparing
  <3> QED BY <3>1, <3>2
 <2> QED BY <1>1, <1>4, <1>5, <2>1, <2>3, <2>4, SteadyCalls
<1> QED BY <1>7, <1>10, <1>11

\* The read below is done with: types, reads in progress, what is left to do.
LEMMA FetchedSteps ==
  ASSUME Shapes, Scripted, Chained, Fetched PROVE Shapes' /\ Chained' /\ Scripted'
<1> DEFINE m == Len(calls)
<1>1. /\ mode = "run" /\ m > 1 /\ Top.length = 0 /\ Top.units = <<>> /\ calls' = Front(calls)
      /\ scripts' = scripts /\ packets' = packets /\ readers' = readers /\ ciphers' = ciphers
      /\ source' = source /\ reading_v3_secret' = reading_v3_secret /\ mode' = mode
  BY DEF Fetched
<1>2. Listed(calls) /\ calls # <<>>
 <2>1. Listed(calls) BY DEF Shapes
 <2>2. calls = <<>> => Len(calls) = 0 BY <2>1, ListedFacts
 <2> QED BY <1>1, <2>1, <2>2
<1>3. /\ m \in Nat /\ Depth \in Nat /\ Listed(readers) /\ m <= Depth + 1
      /\ DOMAIN calls = 1 .. m /\ DOMAIN readers = 1 .. Depth
      /\ scripts # <<>> /\ Script # <<>> /\ Now.op = "read"
      /\ calls[1].length + Len(calls[1].units) = Now.n
      /\ \A j \in 1 .. m : calls[j].depth = Depth + 1 - j /\ CallShape(calls[j])
  BY <1>1, <1>2, CallFacts
<1>4. /\ Listed(calls') /\ Len(calls') = m - 1 /\ \A j \in 1 .. m - 1 : calls'[j] = calls[j]
  BY <1>1, <1>2, ListedFront
<1>5. Top = calls[m] /\ Top.depth = Depth + 1 - m /\ readers # <<>> /\ Top.depth \in 0 .. Depth
  BY <1>1, <1>2, TopFacts
<1> HIDE DEF m
<1>6. DOMAIN calls' = 1 .. m - 1 /\ calls' # <<>> /\ calls'[1] = calls[1]
 <2>1. m - 1 # 0 /\ 1 \in 1 .. m - 1 BY <1>1, <1>3
 <2> QED BY <1>4, <2>1, ListedFacts
<1>7. Shapes'
 <2>1. \A j \in DOMAIN calls' : CallShape(calls'[j]) BY <1>3, <1>4, <1>6
 <2> QED BY <1>1, <1>4, <2>1 DEF Shapes
<1>8. Depth' = Depth /\ Script' = Script /\ Now' = Now /\ Reader' = Reader
  BY <1>1 DEF Depth, Script, Now, Reader
<1>9. \A j \in 1 .. m : j < m => Fits(calls[j], readers[calls[j].depth], calls[j + 1])
  BY <1>3, SMTT(30) DEF Chained, m
<1>10. Chained'
 <2>1. m - 1 <= Depth + 1 /\ \A j \in 1 .. m - 1 : calls'[j].depth = Depth + 1 - j BY <1>3, <1>4
 <2>2. ASSUME NEW j \in 1 .. m - 1, j < m - 1
       PROVE  Fits(calls'[j], readers[calls'[j].depth], calls'[j + 1])
  <3>1. j \in 1 .. m /\ j < m /\ j + 1 \in 1 .. m - 1 BY <1>3, <2>2
  <3> QED BY <1>4, <1>9, <3>1
 <2>3. AtBottom'
  <3>1. Top' = calls'[m - 1] BY <1>4 DEF Top
  <3>2. Top'.depth = Depth + 1 - (m - 1) BY <1>3, <1>6, <1>1, <2>1, <3>1
  <3>3. Top'.depth # 0 BY <1>3, <1>5, <3>2
  <3> QED BY <3>3 DEF AtBottom
 <2> QED BY <1>1, <1>3, <1>4, <1>6, <1>8, <2>1, <2>2, <2>3 DEF Chained
<1>11. Scripted'
 <2>1. \A i \in 1 .. Depth : readers'[i].crypt = readers[i].crypt BY <1>1
 <2>2. \A n : /\ Accounted(n) => Accounted(n)'
              /\ PadsAre(n) => PadsAre(n)'
   BY <1>2, <1>6, <1>8 DEF Accounted, PadsAre
 <2>3. InFlight' = InFlight
  <3>1. CASE m = 2
   <4>1. calls[2].length + Len(calls[2].units) = 0 BY <1>1, <1>5, <3>1, ListedShort
   <4>2. ~(Len(calls') > 1) /\ Len(calls) > 1 BY <1>4, <3>1 DEF m
   <4> QED BY <4>1, <4>2 DEF InFlight
  <3>2. CASE m # 2
   <4>1. m - 1 > 1 /\ 2 \in 1 .. m - 1 BY <1>1, <1>3, <3>2
   <4>2. calls'[2] = calls[2] /\ Len(calls') > 1 /\ Len(calls) > 1 BY <1>1, <1>4, <4>1 DEF m
   <4> QED BY <4>2 DEF InFlight
  <3> QED BY <3>1, <3>2
 <2>4. Sparing => Sparing' BY <1>2, <1>6, <1>8, <2>3 DEF Sparing
 <2> QED BY <1>1, <1>2, <1>3, <1>5, <2>1, <2>2, <2>4, SteadyCalls
<1> QED BY <1>7, <1>10, <1>11

-----------------------------------------------------------------------------
(* The stream. *)

\* The units of the stream, one after the other.
FromHere(c) ==
  /\ CallShape(c) /\ c.depth = 0 /\ c.length = 0 /\ Len(c.units) = Top.length
  /\ \A i \in 1 .. Len(c.units) : c.units[i] = [pos |-> source + i, pads |-> <<>>]
\* The reader at the bottom gives what is asked for.
LEMMA FromStreamFacts ==
  ASSUME Shapes, Scripted, Chained, FromStream
  PROVE  \E c :
           /\ mode = "run" /\ calls # <<>> /\ Top.depth = 0 /\ Top.length \in Nat /\ Top.length > 0
           /\ Top.units = <<>> /\ source' = source + Top.length /\ source' <= StreamLen
           /\ FromHere(c) /\ calls' = ReadOf(c)
           /\ scripts' = scripts /\ packets' = packets /\ readers' = readers /\ ciphers' = ciphers
           /\ reading_v3_secret' = reading_v3_secret /\ mode' = mode
<1> DEFINE n == Top.length
           u == [i \in 1 .. n |-> [pos |-> source + i, pads |-> <<>>]]
           c == [Top EXCEPT !.length = 0, !.units = u]
<1>1. /\ mode = "run" /\ calls # <<>> /\ Top.depth = 0 /\ n > 0
      /\ source + n <= StreamLen /\ source' = source + n /\ calls' = ReadOf(c)
      /\ scripts' = scripts /\ packets' = packets /\ readers' = readers /\ ciphers' = ciphers
      /\ reading_v3_secret' = reading_v3_secret /\ mode' = mode
  BY DEF FromStream
<1>2. CallShape(Top) /\ n \in Nat /\ AtBottom BY <1>1, TopFacts
<1>3. Top.units = <<>> BY <1>1, <1>2 DEF AtBottom
<1>4. Listed(u) /\ Len(u) = n /\ \A i \in 1 .. n : u[i] = [pos |-> source + i, pads |-> <<>>]
 <2>1. n \in Nat BY <1>2
 <2>2. \A i \in 1 .. n : u[i] = [pos |-> source + i, pads |-> <<>>] OBVIOUS
 <2>3. u = [i \in 1 .. n |-> u[i]] OBVIOUS
 <2> HIDE DEF u, n
 <2> QED BY <2>1, <2>2, <2>3, ListedFun
<1>5. /\ DOMAIN c = {"depth", "length", "units", "entered"} /\ c.depth = 0 /\ c.length = 0
      /\ c.units = u /\ c.entered \in BOOLEAN
 <2> HIDE DEF u
 <2> QED BY <1>1, <1>2 DEF CallShape
<1> HIDE DEF u, c
<1>6. FromHere(c) BY <1>4, <1>5 DEF FromHere, CallShape
<1> QED BY <1>1, <1>2, <1>3, <1>6

\* Units come from the stream: types, reads in progress, what is left to do.
LEMMA FromStreamSteps ==
  ASSUME Shapes, Scripted, Chained, FromStream PROVE Shapes' /\ Chained' /\ Scripted'
<1>1. PICK c :
        /\ mode = "run" /\ calls # <<>> /\ Top.depth = 0 /\ Top.length \in Nat /\ Top.length > 0
        /\ Top.units = <<>> /\ source' = source + Top.length /\ source' <= StreamLen
        /\ FromHere(c) /\ calls' = ReadOf(c)
        /\ scripts' = scripts /\ packets' = packets /\ readers' = readers /\ ciphers' = ciphers
        /\ reading_v3_secret' = reading_v3_secret /\ mode' = mode
  BY FromStreamFacts
<1>2. /\ CallShape(c) /\ c.depth = 0 /\ c.length = 0 /\ Len(c.units) = Top.length
      /\ \A i \in 1 .. Len(c.units) : c.units[i] = [pos |-> source + i, pads |-> <<>>]
  BY <1>1 DEF FromHere
<1>3. Listed(readers) /\ source \in 0 .. StreamLen /\ Listed(calls) BY DEF Shapes
<1>4. source' \in 0 .. StreamLen BY <1>1, <1>3, ConstantFacts
<1>5. Shapes'
 <2>1. /\ Listed(readers') /\ Len(readers') = Len(readers)
       /\ \A i \in 1 .. Depth : ReaderShape(readers'[i])
   BY <1>1, <1>3, ListedFacts DEF Shapes, Depth
 <2>2. /\ mode' \in {"run", "abort", "dangling"} /\ DOMAIN ciphers' = {"session", "secret"}
       /\ \A k \in DOMAIN ciphers' : CipherShape(ciphers'[k])
   BY <1>1 DEF Shapes
 <2> QED BY <1>1, <1>2, <1>4, <2>1, <2>2, ShapesPut
<1>6. Top' = c BY <1>1, <1>3, PutCall
<1>7. AtBottom'
 <2>1. DOMAIN c.units = 1 .. Len(c.units) BY <1>2, ListedFacts DEF CallShape
 <2>2. Len(c.units) <= source' /\ source' - Len(c.units) = source BY <1>1, <1>2, <1>3
 <2>3. \A i \in DOMAIN c.units : c.units[i] = [pos |-> source' - Len(c.units) + i, pads |-> <<>>]
   BY <1>2, <2>1, <2>2
 <2> QED BY <1>2, <1>6, <2>2, <2>3 DEF AtBottom
<1>8. c.length + Len(c.units) = Top.length + Len(Top.units) BY <1>1, <1>2, ListedShort
<1>9. Len(calls) > 1 => Fits(calls[Len(calls) - 1], readers'[Top.depth + 1], c)
 <2>1. SUFFICES ASSUME Len(calls) > 1
                PROVE  Fits(calls[Len(calls) - 1], readers[Top.depth + 1], c)
   BY <1>1
 <2>2. /\ Fits(calls[Len(calls) - 1], readers[Top.depth + 1], Top)
       /\ ReaderShape(readers[Top.depth + 1])
   BY <1>1, <2>1, TopFacts
 <2> DEFINE R == readers[Top.depth + 1]
            a == calls[Len(calls) - 1]
 <2>3. Fits(a, R, Top) /\ ReaderShape(R) BY <2>2
 <2> HIDE DEF R, a
 <2>4. Len(R.decrypted) \in Nat /\ R.left \in Nat BY <2>3, ListedFacts DEF ReaderShape
 <2>5. Len(Top.units) = 0 BY <1>1, ListedShort
 <2>6. /\ a.length > 0 /\ Top.length + 0 <= R.left
       /\ Len(R.decrypted) + Top.length + 0 <= BufferSize
   BY <2>3, <2>5 DEF Fits
 <2>7. Fits(a, R, c) BY <1>1, <1>2, <2>4, <2>6, ConstantFacts DEF Fits
 <2> QED BY <2>7 DEF a, R
<1>10. Chained' BY <1>1, <1>2, <1>7, <1>8, <1>9, ChainedPut
<1>11. Scripted'
 <2>1. ASSUME readers # <<>>
       PROVE  /\ Sparing => Sparing'
              /\ \A n : Accounted(n) => Accounted(n)'
              /\ \A n : PadsAre(n) => PadsAre(n)'
  <3>1. Len(calls) > 1
   <4>1. Depth # 0 /\ Depth \in Nat BY <1>3, <2>1, ListedFacts DEF Depth
   <4>2. (Len(calls) > 1 <=> Top.depth < Depth) BY <1>1, TopFacts
   <4> QED BY <1>1, <4>1, <4>2
  <3>2. Reader' = Reader BY <1>1 DEF Reader, Depth
  <3> QED BY <1>1, <1>8, <3>1, <3>2, SparingPut
 <2> QED BY <1>1, <1>3, <2>1, SteadyCalls
<1> QED BY <1>5, <1>10, <1>11

-----------------------------------------------------------------------------
(* One unit is decrypted. *)

\* The cipher after a unit.
LEMMA CfbShape ==
  ASSUME NEW c, CipherShape(c), NEW unit
  PROVE  CipherShape(CfbUnit(c, unit)) /\ DOMAIN Register(c) = Cells /\ c.num + 1 \in Cells
<1>1. /\ DOMAIN c.iv = Cells /\ c.num \in 0 .. BlockSize - 1 BY DEF CipherShape
<1>2. DOMAIN Register(c) = Cells BY <1>1 DEF Register, block_encrypt
<1>3. DOMAIN [Register(c) EXCEPT ![c.num + 1] = <<"c", unit>>] = Cells BY <1>2
<1>4. NextOffset(c.num) \in 0 .. BlockSize - 1 /\ c.num + 1 \in Cells
  BY <1>1, ConstantFacts DEF NextOffset, Cells
<1> QED BY <1>2, <1>3, <1>4 DEF CfbUnit, CipherShape

\* The first of the units that were fetched goes to the buffer of reader r0, which
\* becomes r, as e; c is the read without it.
Moved(c, r0, r, e) ==
  /\ CallShape(c) /\ c.depth = Top.depth /\ c.length = 0
  /\ Len(c.units) = Len(Top.units) - 1
  /\ \A j \in 1 .. Len(c.units) : c.units[j] = Top.units[j + 1]
  /\ ReaderShape(r) /\ r.crypt = r0.crypt /\ r.left = r0.left - 1
  /\ r.alone = r0.alone /\ r.start = r0.start
  /\ Len(r.decrypted) = Len(r0.decrypted) + 1 /\ r.decrypted[Len(r0.decrypted) + 1] = e
  /\ \A j \in 1 .. Len(r0.decrypted) : r.decrypted[j] = r0.decrypted[j]

\* What becomes of the unit and of the cipher.
Deciphered(r0, r, e, unit) ==
  \/ CopiedPlain /\ e = unit /\ r.hist = r0.hist /\ ciphers' = ciphers
  \/ /\ ~CopiedPlain /\ e = Unpadded(ciphers[r0.crypt], unit)
     /\ r.hist = Append(r0.hist, [raw |-> unit, clear |-> e])
     /\ ciphers' = [ciphers EXCEPT ![r0.crypt] = CfbUnit(ciphers[r0.crypt], unit)]

\* The next unit goes from the read below into the buffer of the reader.
LEMMA OneUnitFacts ==
  ASSUME Shapes, Scripted, Chained, ops_decrypt_se_ip
  PROVE  /\ mode = "run" /\ calls # <<>> /\ Len(calls) > 1 /\ Top.length = 0
         /\ Top.units # <<>> /\ Top.depth + 1 \in 1 .. Depth /\ ReaderShape(readers[Top.depth + 1])
         /\ scripts' = scripts /\ packets' = packets /\ source' = source
         /\ reading_v3_secret' = reading_v3_secret /\ mode' = mode
         /\ \E c, r, e :
              /\ Moved(c, readers[Top.depth + 1], r, e)
              /\ Deciphered(readers[Top.depth + 1], r, e, Top.units[1])
              /\ calls' = ReadOf(c) /\ readers' = [readers EXCEPT ![Top.depth + 1] = r]
<1> DEFINE d == Top.depth + 1
           r0 == readers[d]
           c0 == ciphers[r0.crypt]
           unit == Head(Top.units)
           c == [Top EXCEPT !.units = Tail(Top.units)]
           e == IF CopiedPlain THEN unit ELSE Unpadded(c0, unit)
           u0 == [raw |-> unit, clear |-> Unpadded(c0, unit)]
           r1 == [r0 EXCEPT !.left = r0.left - 1, !.decrypted = Append(r0.decrypted, unit)]
           r2 == [r0 EXCEPT !.left = r0.left - 1,
                            !.decrypted = Append(r0.decrypted, Unpadded(c0, unit)),
                            !.hist = Append(r0.hist, u0)]
<1>1. /\ mode = "run" /\ Len(calls) > 1 /\ Top.length = 0 /\ Top.units # <<>>
      /\ calls' = ReadOf(c)
      /\ scripts' = scripts /\ packets' = packets /\ source' = source
      /\ reading_v3_secret' = reading_v3_secret /\ mode' = mode
  BY DEF ops_decrypt_se_ip
<1>2. calls # <<>>
 <2>1. Listed(calls) BY DEF Shapes
 <2>2. calls = <<>> => Len(calls) = 0 BY <2>1, ListedFacts
 <2> QED BY <1>1, <2>2
<1>3. /\ CallShape(Top) /\ Listed(Top.units) /\ Len(Top.units) \in Nat
      /\ calls[Len(calls) - 1].depth = d /\ d \in 1 .. Depth /\ ReaderShape(r0)
      /\ Fits(calls[Len(calls) - 1], r0, Top)
  BY <1>1, <1>2, TopFacts
<1>4. \/ CopiedPlain /\ readers' = [readers EXCEPT ![d] = r1] /\ ciphers' = ciphers
      \/ /\ ~CopiedPlain /\ readers' = [readers EXCEPT ![d] = r2]
         /\ ciphers' = [ciphers EXCEPT ![r0.crypt] = CfbUnit(c0, unit)]
 <2> DEFINE i == calls[Len(calls) - 1].depth
 <2>1. i = d BY <1>3
 <2>2. IF CopiedPlain
         THEN /\ readers' = [readers EXCEPT ![i] =
                   [readers[i] EXCEPT !.left = readers[i].left - 1,
                                      !.decrypted = Append(readers[i].decrypted, unit)]]
              /\ ciphers' = ciphers
         ELSE /\ readers' = [readers EXCEPT ![i] =
                   [readers[i] EXCEPT !.left = readers[i].left - 1,
                      !.decrypted = Append(readers[i].decrypted,
                                           Unpadded(ciphers[readers[i].crypt], unit)),
                      !.hist = Append(readers[i].hist,
                        [raw |-> unit, clear |-> Unpadded(ciphers[readers[i].crypt], unit)])]]
              /\ ciphers' = [ciphers EXCEPT ![readers[i].crypt] =
                               CfbUnit(ciphers[readers[i].crypt], unit)]
   BY DEF ops_decrypt_se_ip
 <2> HIDE DEF i
 <2> QED BY <2>1, <2>2
<1>5. /\ Listed(Tail(Top.units)) /\ Len(Tail(Top.units)) = Len(Top.units) - 1
      /\ \A j \in 1 .. Len(Top.units) - 1 : Tail(Top.units)[j] = Top.units[j + 1]
      /\ unit = Top.units[1]
 <2> DEFINE t == Top.units
 <2>1. Listed(t) /\ t # <<>> BY <1>1, <1>3
 <2> HIDE DEF t
 <2>2. /\ Listed(Tail(t)) /\ Len(Tail(t)) = Len(t) - 1
       /\ \A j \in 1 .. Len(t) - 1 : Tail(t)[j] = t[j + 1]
       /\ Head(t) = t[1]
   BY <2>1, ListedTail
 <2> QED BY <2>2 DEF t
<1>6. /\ CallShape(c) /\ c.depth = Top.depth /\ c.length = 0
      /\ Len(c.units) = Len(Top.units) - 1
      /\ \A j \in 1 .. Len(c.units) : c.units[j] = Top.units[j + 1]
 <2>1. /\ DOMAIN c = {"depth", "length", "units", "entered"} /\ c.depth = Top.depth
       /\ c.length = 0 /\ c.units = Tail(Top.units) /\ c.entered \in BOOLEAN
   BY <1>1, <1>3 DEF CallShape
 <2> HIDE DEF c
 <2> QED BY <1>5, <2>1 DEF CallShape
<1>7. /\ Listed(r0.decrypted) /\ Len(r0.decrypted) \in Nat /\ Listed(r0.hist) /\ r0.left \in Nat
      /\ r0.crypt \in {"session", "secret"}
      /\ {r0.prev_read_was_plain, r0.alone} \subseteq BOOLEAN
  BY <1>3, ListedFacts DEF ReaderShape
<1>8. Len(Top.units) > 0 BY <1>1, <1>3, ListedFacts
<1>9. r0.left - 1 \in Nat /\ Len(r0.decrypted) + 1 <= BufferSize
 <2>1. /\ Top.length + Len(Top.units) <= r0.left
       /\ Len(r0.decrypted) + Top.length + Len(Top.units) <= BufferSize
   BY <1>3 DEF Fits
 <2> DEFINE a == r0.left
            b == Len(r0.decrypted)
            l == Len(Top.units)
 <2>2. a \in Nat /\ b \in Nat /\ l \in Nat /\ l > 0 /\ BufferSize \in Nat
   BY <1>3, <1>7, <1>8, ConstantFacts
 <2>3. Top.length = 0 /\ Top.length + l <= a /\ b + Top.length + l <= BufferSize BY <1>1, <2>1
 <2> HIDE DEF a, b, l
 <2>4. a - 1 \in Nat /\ b + 1 <= BufferSize BY <2>2, <2>3
 <2> QED BY <2>4 DEF a, b
<1>10. /\ DOMAIN r1 = DOMAIN r0 /\ DOMAIN r2 = DOMAIN r0
       /\ r1.crypt = r0.crypt /\ r1.left = r0.left - 1 /\ r1.decrypted = Append(r0.decrypted, unit)
       /\ r1.hist = r0.hist /\ r1.alone = r0.alone /\ r1.start = r0.start
       /\ r1.prev_read_was_plain = r0.prev_read_was_plain
       /\ r2.crypt = r0.crypt /\ r2.left = r0.left - 1
       /\ r2.decrypted = Append(r0.decrypted, Unpadded(c0, unit))
       /\ r2.hist = Append(r0.hist, u0)
       /\ r2.alone = r0.alone /\ r2.start = r0.start
       /\ r2.prev_read_was_plain = r0.prev_read_was_plain
 <2>1. DOMAIN r0 = {"crypt", "left", "decrypted", "prev_read_was_plain", "hist",
                    "start", "alone"}
   BY <1>3 DEF ReaderShape
 <2> HIDE DEF r0, unit, c0, u0
 <2> QED BY <2>1
<1> HIDE DEF r1, r2, c, u0
<1>11. ASSUME NEW x
       PROVE  /\ Listed(Append(r0.decrypted, x)) /\ Len(Append(r0.decrypted, x)) = Len(r0.decrypted) + 1
              /\ Append(r0.decrypted, x)[Len(r0.decrypted) + 1] = x
              /\ \A j \in 1 .. Len(r0.decrypted) : Append(r0.decrypted, x)[j] = r0.decrypted[j]
              /\ Listed(Append(r0.hist, x))
  BY <1>7, ListedAppend
<1>12. DOMAIN r0 = {"crypt", "left", "decrypted", "prev_read_was_plain", "hist",
                    "start", "alone"}
  BY <1>3 DEF ReaderShape
<1> HIDE DEF r0, unit, c0
<1>13. CASE CopiedPlain
 <2>1. e = unit /\ readers' = [readers EXCEPT ![d] = r1] /\ ciphers' = ciphers BY <1>4, <1>13
 <2>2. ReaderShape(r1) BY <1>7, <1>9, <1>10, <1>11, <1>12 DEF ReaderShape
 <2>3. Moved(c, r0, r1, e) BY <1>6, <1>10, <1>11, <2>1, <2>2 DEF Moved
 <2>4. Deciphered(r0, r1, e, unit) BY <1>10, <1>13, <2>1 DEF Deciphered
 <2> QED BY <1>1, <1>2, <1>3, <1>5, <2>1, <2>3, <2>4 DEF r0
<1>14. CASE ~CopiedPlain
 <2>1. /\ e = Unpadded(c0, unit) /\ readers' = [readers EXCEPT ![d] = r2]
       /\ ciphers' = [ciphers EXCEPT ![r0.crypt] = CfbUnit(c0, unit)]
   BY <1>4, <1>14
 <2>2. ReaderShape(r2) BY <1>7, <1>9, <1>10, <1>11, <1>12 DEF ReaderShape
 <2>3. Moved(c, r0, r2, e) BY <1>6, <1>10, <1>11, <2>1, <2>2 DEF Moved
 <2>4. Deciphered(r0, r2, e, unit) BY <1>10, <1>14, <2>1 DEF Deciphered, c0, u0
 <2> QED BY <1>1, <1>2, <1>3, <1>5, <2>1, <2>3, <2>4 DEF r0
<1> QED BY <1>13, <1>14

\* A unit is decrypted: types.
LEMMA OneUnitShapes ==
  ASSUME Shapes, Scripted, Chained, ops_decrypt_se_ip PROVE Shapes'
<1>1. /\ mode = "run" /\ calls # <<>> /\ Top.depth + 1 \in 1 .. Depth
      /\ ReaderShape(readers[Top.depth + 1])
      /\ scripts' = scripts /\ packets' = packets /\ source' = source
      /\ reading_v3_secret' = reading_v3_secret /\ mode' = mode
      /\ \E c, r, e :
           /\ Moved(c, readers[Top.depth + 1], r, e)
           /\ Deciphered(readers[Top.depth + 1], r, e, Top.units[1])
           /\ calls' = ReadOf(c) /\ readers' = [readers EXCEPT ![Top.depth + 1] = r]
  BY OneUnitFacts
<1> DEFINE d == Top.depth + 1
           r0 == readers[d]
<1>2. PICK c, r, e :
        /\ Moved(c, r0, r, e) /\ Deciphered(r0, r, e, Top.units[1])
        /\ calls' = ReadOf(c) /\ readers' = [readers EXCEPT ![d] = r]
  BY <1>1
<1>3. d \in 1 .. Depth /\ ReaderShape(r0) BY <1>1
<1> HIDE DEF r0, d
<1>4. CallShape(c) /\ ReaderShape(r) BY <1>2 DEF Moved
<1>5. /\ Listed(readers') /\ Len(readers') = Len(readers)
      /\ \A i \in 1 .. Depth : ReaderShape(readers'[i])
  BY <1>2, <1>3, <1>4, PutReader
<1>6. DOMAIN ciphers = {"session", "secret"} /\ \A x \in DOMAIN ciphers : CipherShape(ciphers[x])
  BY DEF Shapes
<1>7. r0.crypt \in {"session", "secret"} BY <1>3 DEF ReaderShape
<1>8. DOMAIN ciphers' = {"session", "secret"} /\ \A x \in DOMAIN ciphers' : CipherShape(ciphers'[x])
 <2>1. CASE ciphers' = ciphers BY <1>6, <2>1
 <2>2. CASE ciphers' = [ciphers EXCEPT ![r0.crypt] = CfbUnit(ciphers[r0.crypt], Top.units[1])]
  <3> DEFINE e2 == CfbUnit(ciphers[r0.crypt], Top.units[1])
             k == r0.crypt
  <3>1. CipherShape(e2) BY <1>6, <1>7, CfbShape
  <3>2. ciphers' = [ciphers EXCEPT ![k] = e2] /\ k \in {"session", "secret"} BY <1>7, <2>2
  <3> HIDE DEF e2, k
  <3> QED BY <1>6, <3>1, <3>2
 <2> QED BY <1>2, <2>1, <2>2 DEF Deciphered
<1>9. source' \in 0 .. StreamLen /\ mode' \in {"run", "abort", "dangling"} BY <1>1 DEF Shapes
<1> QED BY <1>1, <1>2, <1>4, <1>5, <1>8, <1>9, ShapesPut

\* The pads of a unit after it: as many as before, and one when it was decrypted.
LEMMA UnpaddedFacts ==
  ASSUME NEW c, NEW pos
  PROVE  LET unit == [pos |-> pos, pads |-> <<>>]
         IN  /\ Unpadded(c, unit).pos = pos /\ Len(Unpadded(c, unit).pads) = 1
             /\ Unpadded(c, unit).pads[1] = Register(c)[c.num + 1]
<1> DEFINE unit == [pos |-> pos, pads |-> <<>>]
           x == Register(c)[c.num + 1]
<1>1. Append(<<>>, x) = <<x>> OBVIOUS
<1>2. Len(<<x>>) = 1 /\ <<x>>[1] = x OBVIOUS
<1> HIDE DEF x
<1>3. /\ [unit EXCEPT !.pads = Append(unit.pads, x)].pos = pos
      /\ [unit EXCEPT !.pads = Append(unit.pads, x)].pads = Append(<<>>, x)
  OBVIOUS
<1> HIDE DEF unit
<1>4. Unpadded(c, unit) = [unit EXCEPT !.pads = Append(unit.pads, x)] BY DEF Unpadded, x
<1>5. /\ Unpadded(c, unit).pos = pos /\ Len(Unpadded(c, unit).pads) = 1
      /\ Unpadded(c, unit).pads[1] = x
  BY <1>1, <1>2, <1>3, <1>4
<1> QED BY <1>5 DEF unit, x

\* A unit is decrypted: reads in progress, what is left to do.
LEMMA OneUnitSteps ==
  ASSUME Shapes, Scripted, Chained, ops_decrypt_se_ip PROVE Chained' /\ Scripted'
<1>1. /\ mode = "run" /\ calls # <<>> /\ Len(calls) > 1 /\ Top.length = 0
      /\ Top.units # <<>> /\ Top.depth + 1 \in 1 .. Depth
      /\ ReaderShape(readers[Top.depth + 1])
      /\ scripts' = scripts /\ packets' = packets /\ source' = source
      /\ reading_v3_secret' = reading_v3_secret /\ mode' = mode
      /\ \E c, r, e :
           /\ Moved(c, readers[Top.depth + 1], r, e)
           /\ Deciphered(readers[Top.depth + 1], r, e, Top.units[1])
           /\ calls' = ReadOf(c) /\ readers' = [readers EXCEPT ![Top.depth + 1] = r]
  BY OneUnitFacts
<1> DEFINE d == Top.depth + 1
           r0 == readers[d]
           m == Len(calls)
           a == calls[m - 1]
<1>2. PICK c, r, e :
        /\ Moved(c, r0, r, e) /\ Deciphered(r0, r, e, Top.units[1])
        /\ calls' = ReadOf(c) /\ readers' = [readers EXCEPT ![d] = r]
  BY <1>1
<1>3. /\ d \in 1 .. Depth /\ ReaderShape(r0) /\ d = Top.depth + 1
      /\ Fits(a, r0, Top) /\ AtBottom /\ CallShape(Top) /\ Top.depth = Depth + 1 - m
      /\ Top.depth \in 0 .. Depth /\ Listed(Top.units) /\ Len(Top.units) \in Nat
      /\ Top = calls[m] /\ readers # <<>>
  BY <1>1, TopFacts
<1>4. /\ Listed(calls) /\ m \in Nat /\ m > 1 /\ Depth \in Nat BY <1>1, CallFacts
<1> HIDE DEF d, m, a
<1>5. /\ CallShape(c) /\ c.depth = Top.depth /\ c.length = 0
      /\ Len(c.units) = Len(Top.units) - 1
      /\ \A j \in 1 .. Len(c.units) : c.units[j] = Top.units[j + 1]
      /\ ReaderShape(r) /\ r.crypt = r0.crypt /\ r.left = r0.left - 1
      /\ Len(r.decrypted) = Len(r0.decrypted) + 1 /\ r.decrypted[Len(r0.decrypted) + 1] = e
      /\ \A j \in 1 .. Len(r0.decrypted) : r.decrypted[j] = r0.decrypted[j]
  BY <1>2 DEF Moved
<1>6. /\ Listed(readers') /\ Len(readers') = Len(readers) /\ readers'[d] = r /\ Depth' = Depth
      /\ \A i \in 1 .. Depth : i # d => readers'[i] = readers[i]
  BY <1>2, <1>3, <1>5, PutReader
<1>7. /\ Len(calls') = m /\ Top' = c /\ calls' # <<>> /\ calls'[m] = c
      /\ \A j \in 1 .. m - 1 : calls'[j] = calls[j]
  BY <1>1, <1>2, <1>4, PutCall DEF m
<1>8. Len(Top.units) > 0 BY <1>1, <1>3, ListedFacts
<1>9. DOMAIN Top.units = 1 .. Len(Top.units) /\ DOMAIN c.units = 1 .. Len(c.units)
  BY <1>3, <1>5, ListedFacts DEF CallShape
<1>10. AtBottom'
 <2>1. SUFFICES ASSUME Top.depth = 0
                PROVE  /\ Len(c.units) <= source /\ (c.length > 0 => c.units = <<>>)
                       /\ \A i \in DOMAIN c.units :
                            c.units[i] = [pos |-> source - Len(c.units) + i, pads |-> <<>>]
   BY <1>1, <1>5, <1>7 DEF AtBottom
 <2>2. /\ Len(Top.units) <= source
       /\ \A i \in 1 .. Len(Top.units) :
            Top.units[i] = [pos |-> source - Len(Top.units) + i, pads |-> <<>>]
   BY <1>3, <1>9, <2>1 DEF AtBottom
 <2>3. source \in Nat BY ConstantFacts DEF Shapes
 <2> DEFINE l == Len(Top.units)
            k == Len(c.units)
 <2>4. l \in Nat /\ l > 0 /\ k = l - 1 /\ l <= source BY <1>3, <1>5, <1>8, <2>2
 <2>5. \A i \in 1 .. l : Top.units[i] = [pos |-> source - l + i, pads |-> <<>>] BY <2>2
 <2>6. \A i \in 1 .. k : c.units[i] = Top.units[i + 1] BY <1>5
 <2> HIDE DEF l, k
 <2>7. \A i \in 1 .. k : i + 1 \in 1 .. l /\ source - l + (i + 1) = source - k + i BY <2>3, <2>4
 <2>8. \A i \in 1 .. k : c.units[i] = [pos |-> source - k + i, pads |-> <<>>] BY <2>5, <2>6, <2>7
 <2>9. k <= source BY <2>3, <2>4
 <2> QED BY <1>5, <1>9, <2>8, <2>9 DEF k
<1>11. /\ Len(r0.decrypted) \in Nat /\ r0.left \in Nat /\ Listed(r0.decrypted)
       /\ DOMAIN r0.decrypted = 1 .. Len(r0.decrypted)
       /\ DOMAIN r.decrypted = 1 .. Len(r.decrypted)
  BY <1>3, <1>5, ListedFacts DEF ReaderShape
<1>12. Fits(a, readers'[d], c)
 <2>1. /\ a.length > 0 /\ Top.length + Len(Top.units) <= r0.left
       /\ Len(r0.decrypted) + Top.length + Len(Top.units) <= BufferSize
   BY <1>3 DEF Fits
 <2> DEFINE x == r0.left
            b == Len(r0.decrypted)
            l == Len(Top.units)
            k == Len(c.units)
            y == r.left
            g == Len(r.decrypted)
 <2>2. /\ x \in Nat /\ b \in Nat /\ l \in Nat /\ l > 0 /\ BufferSize \in Nat
       /\ 0 + l <= x /\ b + 0 + l <= BufferSize /\ k = l - 1 /\ y = x - 1 /\ g = b + 1
   BY <1>1, <1>3, <1>5, <1>8, <1>11, <2>1, ConstantFacts
 <2>3. 0 + k <= y /\ g + 0 + k <= BufferSize
  <3> HIDE DEF x, b, l, k, y, g
  <3> QED BY <2>2
 <2>4. c.length + Len(c.units) <= r.left /\ Len(r.decrypted) + c.length + Len(c.units) <= BufferSize
   BY <1>5, <2>3
 <2>5. ~(c.length > 0) BY <1>5
 <2> QED BY <1>6, <2>1, <2>4, <2>5 DEF Fits
<1>13. \A i \in Top.depth + 2 .. Depth : readers'[i] = readers[i] BY <1>3, <1>6
<1>19. /\ mode = "run" /\ calls # <<>> /\ scripts' = scripts /\ calls' = ReadOf(c)
       /\ reading_v3_secret' = reading_v3_secret /\ readers # <<>>
       /\ Listed(readers') /\ Len(readers') = Len(readers)
  BY <1>1, <1>2, <1>3, <1>6
<1>14. Chained'
 <2>1. /\ (Len(calls) = 1 => c.length + Len(c.units) = Top.length + Len(Top.units))
       /\ (Len(calls) > 1 => Fits(calls[Len(calls) - 1], readers'[Top.depth + 1], c))
  <3>1. m # 1 BY <1>4
  <3> QED BY <1>12, <3>1 DEF m, a, d
 <2>2. c.depth = Top.depth BY <1>5
 <2> QED BY <1>10, <1>13, <1>19, <2>1, <2>2, ChainedPut
<1>15. \A i \in 1 .. Depth : readers'[i].crypt = readers[i].crypt BY <1>5, <1>6
<1>16. calls'[1] = calls[1] BY <1>4, <1>7
<1>17. ASSUME m = 2 PROVE Scripted'
 <2>1. d = Depth BY <1>3, <1>4, <1>17
 <2>2. Reader' = r /\ Reader = r0 BY <1>6, <2>1 DEF Reader
 <2>3. InFlight = Len(Top.units) /\ InFlight' = Len(c.units)
  <3>1. calls[2] = Top /\ calls'[2] = c BY <1>3, <1>7, <1>17
  <3>2. Top.length + Len(Top.units) = Len(Top.units) /\ c.length + Len(c.units) = Len(c.units)
    BY <1>1, <1>3, <1>5
  <3> QED BY <1>7, <1>17, <3>1, <3>2 DEF InFlight, m
 <2>4. Sparing => Sparing'
  <3>1. SUFFICES ASSUME Sparing PROVE Sparing' OBVIOUS
  <3>2. Len(r0.decrypted) + Len(Top.units) <= calls[1].length
    BY <1>1, <2>2, <2>3, <3>1 DEF Sparing
  <3>3. Len(r0.decrypted) + 1 + (Len(Top.units) - 1) = Len(r0.decrypted) + Len(Top.units)
   <4> DEFINE x == Len(r0.decrypted)
              y == Len(Top.units)
   <4>1. x \in Nat /\ y \in Nat BY <1>3, <1>11
   <4> HIDE DEF x, y
   <4>2. x + 1 + (y - 1) = x + y BY <4>1
   <4> QED BY <4>2 DEF x, y
  <3>4. Len(r.decrypted) + Len(c.units) <= calls'[1].length BY <1>5, <1>16, <3>2, <3>3
  <3> QED BY <1>7, <2>2, <2>3, <3>4 DEF Sparing
 <2>5. ASSUME NEW n, Accounted(n) PROVE Accounted(n)'
  <3>1. r0.left + Len(r0.decrypted) + Len(calls[1].units) = n BY <1>1, <2>2, <2>5 DEF Accounted
  <3>2. r.left + Len(r.decrypted) = r0.left + Len(r0.decrypted)
   <4> DEFINE x == Len(r0.decrypted)
              y == r0.left
   <4>1. x \in Nat /\ y \in Nat /\ r.left = y - 1 /\ Len(r.decrypted) = x + 1 BY <1>5, <1>11
   <4> HIDE DEF x, y
   <4>2. r.left + Len(r.decrypted) = y + x BY <4>1
   <4> QED BY <4>2 DEF x, y
  <3> QED BY <1>7, <1>16, <2>2, <3>1, <3>2 DEF Accounted
 <2>6. ASSUME NEW n, n = (IF CopiedPlain THEN 0 ELSE 1), PadsAre(n) PROVE PadsAre(n)'
  <3>1. SUFFICES ASSUME Depth = 1
                 PROVE  \A i \in DOMAIN r.decrypted : Len(r.decrypted[i].pads) = n
    BY <1>1, <1>6, <1>7, <1>16, <2>2, <2>6 DEF PadsAre
  <3>2. \A i \in 1 .. Len(r0.decrypted) : Len(r0.decrypted[i].pads) = n
    BY <1>11, <2>2, <2>6, <3>1 DEF PadsAre
  <3>3. Top.depth = 0 BY <1>3, <2>1, <3>1
  <3>4. Top.units[1] = [pos |-> source - Len(Top.units) + 1, pads |-> <<>>]
   <4>1. 1 \in DOMAIN Top.units BY <1>3, <1>8, <1>9
   <4> QED BY <1>3, <3>3, <4>1 DEF AtBottom
  <3>5. Len(e.pads) = n
   <4>1. CASE CopiedPlain
    <5>1. e = Top.units[1] BY <1>2, <4>1 DEF Deciphered
    <5>2. e.pads = <<>> BY <3>4, <5>1
    <5> QED BY <2>6, <4>1, <5>2, ListedShort
   <4>2. CASE ~CopiedPlain
    <5>1. e = Unpadded(ciphers[r0.crypt], Top.units[1]) BY <1>2, <4>2 DEF Deciphered
    <5> QED BY <2>6, <3>4, <4>2, <5>1, UnpaddedFacts
   <4> QED BY <4>1, <4>2
  <3>6. ASSUME NEW i \in 1 .. Len(r0.decrypted) + 1 PROVE Len(r.decrypted[i].pads) = n
   <4>1. CASE i = Len(r0.decrypted) + 1 BY <1>5, <3>5, <4>1
   <4>2. CASE i # Len(r0.decrypted) + 1
    <5>1. i \in 1 .. Len(r0.decrypted) BY <1>11, <4>2
    <5> QED BY <1>5, <3>2, <5>1
   <4> QED BY <4>1, <4>2
  <3> QED BY <1>5, <1>11, <3>6
 <2> QED BY <1>15, <1>19, <2>4, <2>5, <2>6, SteadyCalls
<1>18. ASSUME m # 2 PROVE Scripted'
 <2>1. d # Depth BY <1>3, <1>4, <1>18
 <2>2. Reader' = Reader
  <3>1. Depth \in 1 .. Depth BY <1>3, <1>4
  <3> QED BY <1>6, <2>1, <3>1 DEF Reader
 <2>3. /\ Sparing => Sparing'
       /\ \A n : Accounted(n) => Accounted(n)'
       /\ \A n : PadsAre(n) => PadsAre(n)'
   BY <1>1, <1>2, <1>6, <1>18, <2>2, SparingPut DEF m
 <2> QED BY <1>15, <1>19, <2>3, SteadyCalls
<1> QED BY <1>14, <1>17, <1>18

-----------------------------------------------------------------------------
(* Between reads: types.  No read is in progress, and none begins except in Read. *)

\* What has to be shown of a step between reads.
LEMMA QuietShapes ==
  ASSUME Shapes, packets' \in 0 .. MaxPackets, source' = source,
         mode' \in {"run", "abort", "dangling"}, reading_v3_secret' \in BOOLEAN,
         DOMAIN ciphers' = {"session", "secret"},
         \A k \in DOMAIN ciphers' : CipherShape(ciphers'[k]),
         Listed(scripts'), Listed(readers'), \A i \in DOMAIN readers' : ReaderShape(readers'[i]),
         calls' = <<>>
  PROVE  Shapes' /\ Chained'
<1>1. Listed(calls') /\ DOMAIN calls' = {} BY ListedShort
<1>2. \A j \in DOMAIN calls' : CallShape(calls'[j]) BY <1>1
<1>3. Shapes' BY <1>1, <1>2 DEF Shapes
<1>4. Chained' BY DEF Chained
<1> QED BY <1>3, <1>4

\* The end of a read.
LEMMA ReadEndsShapes ==
  ASSUME Shapes, Scripted, Chained, ReadDone \/ ReadFails PROVE Shapes' /\ Chained'
<1>1. /\ mode = "run" /\ calls' = <<>> /\ packets' = packets /\ readers' = readers
      /\ ciphers' = ciphers /\ source' = source /\ reading_v3_secret' = reading_v3_secret
      /\ mode' = mode
      /\ \/ scripts' = Under(Tail(Script)) /\ Len(calls) = 1
         \/ scripts' = Under(Now.fail) /\ calls # <<>>
  BY DEF ReadDone, ReadFails, Advance
<1>2. calls # <<>>
 <2>1. calls = <<>> => Len(calls) = 0 BY ListedShort
 <2> QED BY <1>1, <2>1
<1>3. scripts # <<>> /\ Listed(scripts) BY <1>1, <1>2, CallFacts
<1>4. Listed(scripts') BY <1>1, <1>3, UnderFacts
<1>5. /\ packets' \in 0 .. MaxPackets /\ mode' \in {"run", "abort", "dangling"}
      /\ reading_v3_secret' \in BOOLEAN /\ DOMAIN ciphers' = {"session", "secret"}
      /\ \A k \in DOMAIN ciphers' : CipherShape(ciphers'[k])
      /\ Listed(readers') /\ \A i \in DOMAIN readers' : ReaderShape(readers'[i])
  BY <1>1 DEF Shapes
<1> QED BY <1>1, <1>4, <1>5, QuietShapes

\* Steps that leave the readers and their ciphers alone.
LEMMA HandlerShapes ==
  ASSUME Shapes, Scripted,
         ParsePacket \/ ParseEnd \/ HandlerEnd \/ SetVersion \/ SecretRead \/ LeaveReader
  PROVE  /\ Shapes' /\ Chained'
         /\ readers' = readers /\ ciphers' = ciphers /\ source' = source
         /\ calls = <<>> /\ calls' = <<>> /\ got' = got
<1>1. /\ readers' = readers /\ ciphers' = ciphers /\ source' = source /\ calls' = calls /\ got' = got
  BY DEF ParsePacket, ParseEnd, HandlerEnd, SetVersion, SecretRead, LeaveReader
<1>2. calls = <<>> /\ mode = "run" /\ scripts # <<>>
  BY DEF ParsePacket, ParseEnd, HandlerEnd, SetVersion, SecretRead, LeaveReader, Doing, Running
<1>3. Listed(scripts) BY DEF Shapes
<1>4. packets' \in 0 .. MaxPackets
 <2>1. packets \in 0 .. MaxPackets BY DEF Shapes
 <2>2. packets' = packets \/ (packets < MaxPackets /\ packets' = packets + 1)
  <3>0. ParsePacket \/ ParseEnd \/ HandlerEnd \/ SetVersion \/ SecretRead \/ LeaveReader OBVIOUS
  <3>1. ASSUME ParsePacket PROVE packets < MaxPackets /\ packets' = packets + 1
    BY <3>1 DEF ParsePacket
  <3>2. ASSUME ParseEnd \/ HandlerEnd \/ SetVersion \/ SecretRead \/ LeaveReader
        PROVE  packets' = packets
    BY <3>2 DEF ParseEnd, HandlerEnd, SetVersion, SecretRead, LeaveReader
  <3> QED BY <3>0, <3>1, <3>2
 <2> QED BY <2>1, <2>2, ConstantFacts
<1>5. reading_v3_secret' \in BOOLEAN
 <2>1. reading_v3_secret \in BOOLEAN BY DEF Shapes
 <2>2. CASE SetVersion BY <2>2, Zenon DEF SetVersion
 <2>3. CASE SecretRead BY <2>3 DEF SecretRead
 <2>4. CASE ParsePacket \/ ParseEnd \/ HandlerEnd \/ LeaveReader
   BY <2>1, <2>4 DEF ParsePacket, ParseEnd, HandlerEnd, LeaveReader
 <2> QED BY <2>2, <2>3, <2>4
<1>6. mode' \in {"run", "abort", "dangling"}
  BY <1>2 DEF ParsePacket, ParseEnd, HandlerEnd, SetVersion, SecretRead, LeaveReader
<1>7. Listed(scripts')
 <2>1. CASE ParsePacket
  <3>1. \E p : scripts' = Append(scripts, p) BY <2>1 DEF ParsePacket
  <3> QED BY <1>3, <3>1, ListedAppend
 <2>2. CASE HandlerEnd BY <1>2, <1>3, <2>2, ListedFront DEF HandlerEnd
 <2>3. CASE ParseEnd \/ SetVersion \/ SecretRead \/ LeaveReader
  <3>1. scripts' = Under(Tail(Script))
    BY <2>3 DEF ParseEnd, SetVersion, SecretRead, LeaveReader, Advance
  <3> QED BY <1>2, <1>3, <3>1, UnderFacts
 <2> QED BY <2>1, <2>2, <2>3
<1>8. /\ DOMAIN ciphers' = {"session", "secret"}
      /\ \A k \in DOMAIN ciphers' : CipherShape(ciphers'[k])
      /\ Listed(readers') /\ \A i \in DOMAIN readers' : ReaderShape(readers'[i])
  BY <1>1 DEF Shapes
<1> QED BY <1>1, <1>2, <1>4, <1>5, <1>6, <1>7, <1>8, QuietShapes

\* A key that is set up: the session's only where no reader uses it, the other only
\* where the readers are of containers.
LEMMA SetKeyFacts ==
  ASSUME Shapes, Scripted, SetKey
  PROVE  /\ calls = <<>> /\ calls' = <<>> /\ readers' = readers /\ source' = source /\ got' = got
         /\ \/ readers = <<>> /\ ciphers' = [ciphers EXCEPT !["session"] = std_set_iv]
            \/ Sessions(Depth) /\ ciphers' = [ciphers EXCEPT !["secret"] = std_set_iv]
         /\ Shapes' /\ Chained'
<1>1. PICK op \in {"session_key", "set_key"} : Doing(op) BY DEF SetKey
<1>2. /\ readers' = readers /\ mode' = mode /\ calls' = calls /\ scripts' = Under(Tail(Script))
      /\ reading_v3_secret' = reading_v3_secret /\ source' = source /\ packets' = packets
      /\ got' = got
      /\ ciphers' = [ciphers EXCEPT
           ![IF Now.op = "set_key" THEN "secret" ELSE "session"] = std_set_iv]
      /\ DOMAIN ciphers = {"session", "secret"}
      /\ \A k \in DOMAIN ciphers : CipherShape(ciphers[k])
  BY DEF SetKey, Advance, Shapes
<1>3. /\ Listed(scripts) /\ scripts # <<>> /\ Script # <<>> /\ Which /\ Now.op = op
      /\ calls = <<>>
  BY <1>1, DoingFacts
<1>4. Listed(scripts') BY <1>2, <1>3, UnderFacts
<1>5. CipherShape(std_set_iv) BY ConstantFacts DEF CipherShape, std_set_iv, ZeroIv
<1> DEFINE k == IF Now.op = "set_key" THEN "secret" ELSE "session"
           z == std_set_iv
<1>6. k \in {"session", "secret"} /\ ciphers' = [ciphers EXCEPT ![k] = z] /\ CipherShape(z)
  BY <1>2, <1>5
<1> HIDE DEF k, z
<1>7. DOMAIN ciphers' = {"session", "secret"} /\ \A x \in DOMAIN ciphers' : CipherShape(ciphers'[x])
  BY <1>2, <1>6
<1>8. /\ packets' \in 0 .. MaxPackets /\ mode' \in {"run", "abort", "dangling"}
      /\ reading_v3_secret' \in BOOLEAN
      /\ Listed(readers') /\ \A i \in DOMAIN readers' : ReaderShape(readers'[i])
  BY <1>2 DEF Shapes
<1>9. Shapes' /\ Chained' BY <1>2, <1>3, <1>4, <1>7, <1>8, QuietShapes
<1>10. \/ readers = <<>> /\ ciphers' = [ciphers EXCEPT !["session"] = std_set_iv]
       \/ Sessions(Depth) /\ ciphers' = [ciphers EXCEPT !["secret"] = std_set_iv]
 <2>1. CASE op = "session_key"
  <3>1. PICK len, t : Opening(len, t) BY <1>3, <2>1 DEF Which
  <3>2. readers = <<>> \/ PushingStep(Script, len, t) BY <3>1 DEF Opening
  <3>3. readers = <<>> BY <1>3, <2>1, <3>2 DEF PushingStep, Now
  <3> QED BY <1>2, <1>3, <2>1, <3>3
 <2>2. CASE op = "set_key"
  <3>1. PICK x : KeyAt(x, 3) /\ KeyBegun(x, 3) BY <1>3, <2>2 DEF Which
  <3>2. Sessions(Depth) BY <3>1 DEF KeyBegun
  <3> QED BY <1>2, <1>3, <2>2, <3>2
 <2> QED BY <2>1, <2>2
<1> QED BY <1>2, <1>3, <1>9, <1>10

\* A new reader: its length is a number, its cipher starts afresh unless there is a
\* reader that uses it already, and the other readers are of containers.
LEMMA PushShapes ==
  ASSUME Shapes, Scripted, ops_reader_push_decrypt
  PROVE  /\ calls = <<>> /\ calls' = <<>> /\ source' = source /\ got' = got
         /\ Now.n \in Nat /\ Sessions(Depth)
         /\ \/ Now.key = "session" /\ (readers = <<>> => ciphers["session"] = std_set_iv)
            \/ Now.key = "secret" /\ ciphers["secret"] = std_set_iv
         /\ ciphers' = [ciphers EXCEPT ![Now.key] = ops_decrypt_init(ciphers[Now.key])]
         /\ Shapes' /\ Chained'
<1>1. /\ Doing("push") /\ mode' = mode /\ calls' = calls /\ scripts' = Under(Tail(Script))
      /\ reading_v3_secret' = reading_v3_secret /\ source' = source /\ packets' = packets
      /\ got' = got
      /\ ciphers' = [ciphers EXCEPT ![Now.key] = ops_decrypt_init(ciphers[Now.key])]
  BY DEF ops_reader_push_decrypt, Advance
<1>2. /\ Listed(scripts) /\ scripts # <<>> /\ Script # <<>> /\ Which /\ Now.op = "push"
      /\ Listed(readers) /\ Depth \in Nat /\ calls = <<>>
  BY <1>1, DoingFacts
<1>3. Listed(scripts') BY <1>1, <1>2, UnderFacts
<1>4. /\ Now.n \in Nat /\ Sessions(Depth)
      /\ \/ Now.key = "session" /\ (readers = <<>> => ciphers["session"] = std_set_iv)
         \/ Now.key = "secret" /\ ciphers["secret"] = std_set_iv
 <2>1. (\E len, t : Opening(len, t)) \/ \E k : KeyAt(k, 4) /\ KeyBegun(k, 4) BY <1>2 DEF Which
 <2>2. CASE \E len, t : Opening(len, t)
  <3>1. PICK len, t : Opening(len, t) BY <2>2
  <3>2. /\ len \in Lengths /\ Sessions(Depth) /\ PushingStep(Script, len, t)
        /\ readers = <<>> => ciphers["session"] = std_set_iv
    BY <1>2, <3>1 DEF Opening
  <3>3. len \in Nat BY <3>2, LengthFacts
  <3> QED BY <1>2, <3>2, <3>3 DEF PushingStep, Now
 <2>3. CASE \E k : KeyAt(k, 4) /\ KeyBegun(k, 4)
  <3>1. PICK k : KeyAt(k, 4) /\ KeyBegun(k, 4) BY <2>3
  <3>2. /\ k \in SecretKeys /\ KeyStep(Script, k, 4) /\ Sessions(Depth) /\ 4 \in 1 .. EndAt(k)
        /\ ciphers["secret"] = std_set_iv
    BY <3>1 DEF KeyAt, KeyBegun
  <3>3. k.ends[Mpis] \in Nat BY <3>2, KeyFacts
  <3>4. Now.n = k.ends[Mpis] + 2 /\ Now.key = "secret" BY <3>2 DEF KeyStep, Now
  <3>5. Now.n \in Nat BY <3>3, <3>4
  <3> QED BY <3>2, <3>4, <3>5
 <2> QED BY <2>1, <2>2, <2>3
<1>5. Now.key \in {"session", "secret"} BY <1>4
<1>6. /\ DOMAIN ciphers = {"session", "secret"} /\ \A x \in DOMAIN ciphers : CipherShape(ciphers[x])
  BY DEF Shapes
<1>7. DOMAIN ciphers' = {"session", "secret"} /\ \A x \in DOMAIN ciphers' : CipherShape(ciphers'[x])
 <2> DEFINE k == Now.key
            z == ops_decrypt_init(ciphers[k])
 <2>1. k \in {"session", "secret"} /\ ciphers' = [ciphers EXCEPT ![k] = z] /\ CipherShape(z)
   BY <1>1, <1>5, <1>6, CipherReset
 <2> HIDE DEF k, z
 <2> QED BY <1>6, <2>1
<1>8. /\ Listed(readers') /\ Len(readers') = Depth + 1
      /\ \A i \in 1 .. Depth :
           readers'[i] = IF readers[i].crypt = Now.key THEN [readers[i] EXCEPT !.alone = FALSE]
                         ELSE readers[i]
      /\ DOMAIN readers'[Depth + 1] = {"crypt", "left", "decrypted", "prev_read_was_plain",
                                       "hist", "start", "alone"}
      /\ readers'[Depth + 1].crypt = Now.key /\ readers'[Depth + 1].left = Now.n
      /\ readers'[Depth + 1].decrypted = <<>> /\ readers'[Depth + 1].hist = <<>>
      /\ readers'[Depth + 1].prev_read_was_plain = FALSE
      /\ readers'[Depth + 1].alone = \A i \in 1 .. Depth : readers[i].crypt # Now.key
  BY <1>2, PushFacts
<1>9. ASSUME NEW i \in 1 .. Depth PROVE ReaderShape(readers'[i])
 <2>1. ReaderShape(readers[i]) BY <1>2, ListedFacts DEF Shapes, Depth
 <2>2. ReaderShape([readers[i] EXCEPT !.alone = FALSE]) BY <2>1 DEF ReaderShape
 <2> QED BY <1>8, <2>1, <2>2
<1>10. ReaderShape(readers'[Depth + 1])
 <2> DEFINE r == readers'[Depth + 1]
 <2>1. Listed(r.decrypted) /\ Listed(r.hist) /\ Len(r.decrypted) <= BufferSize
   BY <1>8, ListedShort, ConstantFacts
 <2>2. r.alone \in BOOLEAN BY <1>8, Zenon
 <2>3. r.crypt \in {"session", "secret"} /\ r.left \in Nat BY <1>4, <1>5, <1>8
 <2>4. r.prev_read_was_plain = FALSE BY <1>8
 <2>5. DOMAIN r = {"crypt", "left", "decrypted", "prev_read_was_plain",
                   "hist", "start", "alone"}
   BY <1>8
 <2> HIDE DEF r
 <2>6. ReaderShape(r) BY <2>1, <2>2, <2>3, <2>4, <2>5 DEF ReaderShape
 <2> QED BY <2>6 DEF r
<1>11. \A i \in DOMAIN readers' : ReaderShape(readers'[i])
 <2>1. DOMAIN readers' = 1 .. Depth + 1 BY <1>8, ListedFacts
 <2>2. ASSUME NEW i \in 1 .. Depth + 1 PROVE ReaderShape(readers'[i])
  <3>1. i \in 1 .. Depth \/ i = Depth + 1 BY <1>2
  <3> QED BY <1>9, <1>10, <3>1
 <2> QED BY <2>1, <2>2
<1>12. /\ packets' \in 0 .. MaxPackets /\ mode' \in {"run", "abort", "dangling"}
       /\ reading_v3_secret' \in BOOLEAN
  BY <1>1 DEF Shapes
<1>13. Shapes' /\ Chained' BY <1>1, <1>2, <1>3, <1>7, <1>8, <1>11, <1>12, QuietShapes
<1> QED BY <1>1, <1>2, <1>4, <1>13

\* The current reader goes.
LEMMA PopShapes ==
  ASSUME Shapes, Scripted, ops_reader_pop_decrypt
  PROVE  /\ calls = <<>> /\ calls' = <<>> /\ source' = source /\ ciphers' = ciphers /\ got' = got
         /\ Depth \in Nat /\ Depth > 0
         /\ Listed(readers') /\ Len(readers') = Depth - 1 /\ \A i \in 1 .. Depth - 1 : readers'[i] = readers[i]
         /\ Shapes' /\ Chained'
<1>1. /\ Doing("pop") /\ mode' = mode /\ calls' = calls /\ scripts' = Under(Tail(Script))
      /\ readers' = Front(readers) /\ reading_v3_secret' = reading_v3_secret /\ source' = source
      /\ ciphers' = ciphers /\ packets' = packets /\ got' = got
  BY DEF ops_reader_pop_decrypt, Advance
<1>2. /\ Listed(scripts) /\ scripts # <<>> /\ Listed(readers) /\ calls = <<>> BY <1>1, DoingFacts
<1>3. Listed(scripts') BY <1>1, <1>2, UnderFacts
<1>4. readers # <<>> /\ Depth \in Nat /\ Depth > 0 BY <1>1, PopFacts
<1>5. /\ Listed(readers') /\ Len(readers') = Depth - 1
      /\ \A i \in 1 .. Depth - 1 : readers'[i] = readers[i]
  BY <1>1, <1>2, <1>4, ListedFront DEF Depth
<1>6. \A i \in DOMAIN readers' : ReaderShape(readers'[i])
 <2>1. DOMAIN readers' = 1 .. Depth - 1 /\ DOMAIN readers = 1 .. Depth
   BY <1>2, <1>5, ListedFacts DEF Depth
 <2>2. \A i \in 1 .. Depth - 1 : i \in 1 .. Depth BY <1>4
 <2> QED BY <1>5, <2>1, <2>2 DEF Shapes
<1>7. /\ packets' \in 0 .. MaxPackets /\ mode' \in {"run", "abort", "dangling"}
      /\ reading_v3_secret' \in BOOLEAN
      /\ DOMAIN ciphers' = {"session", "secret"}
      /\ \A k \in DOMAIN ciphers' : CipherShape(ciphers'[k])
  BY <1>1 DEF Shapes
<1>8. Shapes' /\ Chained' BY <1>1, <1>2, <1>3, <1>5, <1>6, <1>7, QuietShapes
<1> QED BY <1>1, <1>2, <1>4, <1>5, <1>8

\* A reader's cipher is resynchronised.
LEMMA ResyncShapes ==
  ASSUME Shapes, Scripted, Resync
  PROVE  /\ calls = <<>> /\ calls' = <<>> /\ source' = source /\ got' = got
         /\ Depth \in 1 .. Depth /\ Sessions(Depth)
         /\ Listed(readers') /\ Len(readers') = Depth
         /\ readers'[Depth] = Resynced(readers[Depth]) /\ ReaderShape(readers[Depth])
         /\ \A i \in 1 .. Depth : i # Depth => readers'[i] = readers[i]
         /\ ciphers' = [ciphers EXCEPT !["session"] = std_resync(ciphers["session"])]
         /\ Shapes' /\ Chained'
<1>1. /\ Doing("resync") /\ mode' = mode /\ calls' = calls /\ scripts' = Under(Tail(Script))
      /\ readers' = [readers EXCEPT ![Depth] = Resynced(readers[Depth])]
      /\ ciphers' = [ciphers EXCEPT !["session"] = std_resync(ciphers["session"])]
      /\ reading_v3_secret' = reading_v3_secret /\ source' = source /\ packets' = packets
      /\ got' = got
  BY DEF Resync, Advance
<1>2. /\ Listed(scripts) /\ scripts # <<>> /\ Listed(readers) /\ calls = <<>> BY <1>1, DoingFacts
<1>3. Listed(scripts') BY <1>1, <1>2, UnderFacts
<1>4. readers # <<>> /\ Depth \in Nat /\ Depth > 0 /\ Sessions(Depth) /\ ReaderShape(Reader)
  BY <1>1, ResyncFacts
<1>5. Depth \in 1 .. Depth BY <1>4
<1> DEFINE d == Depth
           r == Resynced(readers[d])
<1>6. d \in 1 .. Depth /\ ReaderShape(r) /\ readers' = [readers EXCEPT ![d] = r]
  BY <1>1, <1>4, <1>5, ListedShort DEF ReaderShape, Resynced, Reader
<1> HIDE DEF d, r
<1>7. /\ Listed(readers') /\ Len(readers') = Len(readers) /\ readers'[d] = r
      /\ \A i \in 1 .. Depth : i # d => readers'[i] = readers[i]
      /\ \A i \in 1 .. Depth : ReaderShape(readers'[i])
  BY <1>6, PutReader
<1>8. DOMAIN readers' = 1 .. Depth BY <1>7, ListedFacts DEF Depth
<1>9. /\ DOMAIN ciphers = {"session", "secret"} /\ \A x \in DOMAIN ciphers : CipherShape(ciphers[x])
  BY DEF Shapes
<1>10. DOMAIN ciphers' = {"session", "secret"} /\ \A x \in DOMAIN ciphers' : CipherShape(ciphers'[x])
 <2> DEFINE z == std_resync(ciphers["session"])
 <2>1. ciphers' = [ciphers EXCEPT !["session"] = z] /\ CipherShape(z) BY <1>1, <1>9, CipherReset
 <2> HIDE DEF z
 <2> QED BY <1>9, <2>1
<1>11. /\ packets' \in 0 .. MaxPackets /\ mode' \in {"run", "abort", "dangling"}
       /\ reading_v3_secret' \in BOOLEAN
  BY <1>1 DEF Shapes
<1>12. Shapes' /\ Chained' BY <1>1, <1>2, <1>3, <1>7, <1>8, <1>10, <1>11, QuietShapes
<1> QED BY <1>1, <1>2, <1>4, <1>5, <1>7, <1>12 DEF d, r, Reader, Depth

\* A read begins.
LEMMA ReadShapes ==
  ASSUME Shapes, Scripted, Read PROVE Shapes' /\ Chained'
<1>1. /\ Doing("read") /\ calls' = <<Call(Depth, Now.n)>> /\ mode' = mode /\ packets' = packets
      /\ scripts' = scripts /\ readers' = readers /\ ciphers' = ciphers /\ source' = source
      /\ reading_v3_secret' = reading_v3_secret
  BY DEF Read
<1>2. /\ scripts # <<>> /\ Script # <<>> /\ Now.op = "read" /\ Which /\ Depth \in Nat
  BY <1>1, DoingFacts
<1>3. Now.n \in Nat BY <1>2 DEF Which
<1> DEFINE c == Call(Depth, Now.n)
<1>4. /\ CallShape(c) /\ c.depth = Depth /\ c.length = Now.n /\ c.units = <<>> /\ Len(c.units) = 0
  BY <1>3, ListedShort DEF Call, CallShape
<1> HIDE DEF c
<1>5. Listed(<<c>>) /\ Len(<<c>>) = 1 /\ <<c>>[1] = c /\ <<c>> # <<>> BY ListedShort, TupleFacts
<1>6. Listed(calls') /\ Len(calls') = 1 /\ calls'[1] = c /\ calls' # <<>> BY <1>1, <1>5 DEF c
<1>7. DOMAIN calls' = 1 .. 1 BY <1>6, ListedFacts
<1>8. Shapes' BY <1>1, <1>4, <1>6, <1>7 DEF Shapes
<1>9. Script' = Script /\ Now' = Now /\ Depth' = Depth /\ Top' = c
  BY <1>1, <1>6 DEF Script, Now, Depth, Top
<1>10. AtBottom'
 <2>1. 0 <= source' /\ DOMAIN c.units = {} BY <1>4, <1>8 DEF Shapes
 <2> QED BY <1>4, <1>9, <2>1 DEF AtBottom
<1>11. Chained'
 <2>1. c.length + Len(c.units) = Now.n /\ 1 <= Depth + 1 /\ Depth = Depth + 1 - 1
   BY <1>2, <1>3, <1>4
 <2>2. \A j \in DOMAIN calls' : j = 1 BY <1>7
 <2>3. \A j \in DOMAIN calls' : calls'[j].depth = Depth + 1 - j BY <1>4, <1>6, <2>1, <2>2
 <2>4. \A j \in DOMAIN calls' : ~(j < Len(calls')) BY <1>6, <2>2
 <2> QED BY <1>1, <1>2, <1>6, <1>9, <1>10, <2>1, <2>3, <2>4 DEF Chained
<1> QED BY <1>8, <1>11

-----------------------------------------------------------------------------
(* Cipher feedback mode: the blocks of what was decrypted. *)

\* Products grow with their factors.
LEMMA Products ==
  ASSUME NEW a \in Nat, NEW b \in Nat, NEW m \in Nat, a < b
  PROVE  a * m \in Nat /\ b * m \in Nat /\ a * m + m <= b * m /\ (a + 1) * m = a * m + m
<1>1. PICK g \in Nat : b = a + 1 + g
 <2>1. b - a - 1 \in Nat /\ b = a + 1 + (b - a - 1) OBVIOUS
 <2> QED BY <2>1
<1>2. g * m \in Nat /\ a * m \in Nat OBVIOUS
<1>3. b * m = a * m + m + g * m BY <1>1
<1> QED BY <1>2, <1>3

\* Quotient and rest.
LEMMA Division ==
  ASSUME NEW n \in Nat, NEW m \in Nat, m > 0
  PROVE  /\ n \div m \in Nat /\ (n \div m) * m \in Nat
         /\ (n \div m) * m <= n /\ n < (n \div m) * m + m
<1>1. n \div m \in Nat BY SMT
<1>2. (n \div m) * m <= n /\ n < (n \div m) * m + m BY SMT
<1> QED BY <1>1, <1>2

\* Where the block starts that the next unit belongs to.
LEMMA BlockStarts ==
  ASSUME NEW n \in Nat
  PROVE  /\ BlockStart(n) \in Nat /\ BlockStart(n) <= n /\ n < BlockStart(n) + BlockSize
         /\ BlockStart(n) = 0 \/ BlockStart(n) >= BlockSize
         /\ BlockStart(n + 1) = IF n + 1 < BlockStart(n) + BlockSize THEN BlockStart(n)
                                ELSE BlockStart(n) + BlockSize
         /\ BlockStart(0) = 0
<1> DEFINE m == BlockSize
           p == n \div m
           q == (n + 1) \div m
<1>1. m \in Nat /\ m > 0 /\ n + 1 \in Nat BY ConstantFacts
<1>2. /\ p \in Nat /\ p * m \in Nat /\ p * m <= n /\ n < p * m + m
      /\ q \in Nat /\ q * m \in Nat /\ q * m <= n + 1 /\ n + 1 < q * m + m
 <2> HIDE DEF m
 <2>1. n \div m \in Nat /\ (n \div m) * m \in Nat /\ (n \div m) * m <= n /\ n < (n \div m) * m + m
   BY <1>1, Division
 <2> DEFINE k == n + 1
 <2>2. k \in Nat BY <1>1
 <2> HIDE DEF k
 <2>3. k \div m \in Nat /\ (k \div m) * m \in Nat /\ (k \div m) * m <= k /\ k < (k \div m) * m + m
   BY <1>1, <2>2, Division
 <2> QED BY <2>1, <2>3 DEF k
<1> HIDE DEF p, q, m
<1>3. p * m = 0 \/ p * m >= m
 <2>1. p = 0 \/ 0 < p BY <1>2
 <2>2. p = 0 => p * m = 0 BY <1>1
 <2>3. ASSUME 0 < p PROVE p * m >= m
  <3>1. 0 * m + m <= p * m BY <1>1, <1>2, <2>3, Products
  <3>2. 0 * m = 0 BY <1>1
  <3> QED BY <1>1, <1>2, <3>1, <3>2
 <2> QED BY <2>1, <2>2, <2>3
<1>4. q = p \/ q = p + 1
 <2>1. ASSUME q < p PROVE FALSE
  <3>1. q * m + m <= p * m BY <1>1, <1>2, <2>1, Products
  <3> QED BY <1>1, <1>2, <3>1
 <2>2. ASSUME p + 1 < q PROVE FALSE
  <3>1. p + 1 \in Nat /\ (p + 1) * m \in Nat BY <1>1, <1>2
  <3>2. (p + 1) * m + m <= q * m BY <1>1, <1>2, <2>2, <3>1, Products
  <3>3. p < p + 1 BY <1>2
  <3>4. (p + 1) * m = p * m + m BY <1>1, <1>2, <3>1, <3>3, Products
  <3> QED BY <1>1, <1>2, <3>2, <3>4
 <2> QED BY <1>2, <2>1, <2>2
<1>5. q * m = IF n + 1 < p * m + m THEN p * m ELSE p * m + m
 <2>1. CASE q = p BY <1>1, <1>2, <2>1
 <2>2. CASE q = p + 1
  <3>1. p < p + 1 /\ p + 1 \in Nat BY <1>2
  <3>2. (p + 1) * m = p * m + m BY <1>1, <1>2, <3>1, Products
  <3> QED BY <1>1, <1>2, <2>2, <3>2
 <2> QED BY <1>4, <2>1, <2>2
<1>6. BlockStart(n) = p * m /\ BlockStart(n + 1) = q * m BY DEF BlockStart, p, q, m
<1>7. BlockStart(0) = 0
 <2>1. 0 \div m \in Nat /\ (0 \div m) * m \in Nat /\ (0 \div m) * m <= 0 BY <1>1, Division
 <2>2. (0 \div m) * m = 0 BY <2>1
 <2> QED BY <2>2 DEF BlockStart, m
<1> QED BY <1>2, <1>3, <1>5, <1>6, <1>7 DEF m

\* The offset in the register wraps.
LEMMA Wraps ==
  ASSUME NEW num \in 0 .. BlockSize - 1
  PROVE  NextOffset(num) = IF num + 1 = BlockSize THEN 0 ELSE num + 1
<1> DEFINE m == BlockSize
           k == num + 1
<1>1. m \in Nat /\ m > 0 /\ k \in 1 .. m BY ConstantFacts
<1>2. NextOffset(num) = k % m BY DEF NextOffset
<1> HIDE DEF m, k
<1>3. k % m = IF k = m THEN 0 ELSE k
 <2>1. CASE k = m BY <1>1, <2>1, SMT
 <2>2. CASE k # m BY <1>1, <2>2, SMT
 <2> QED BY <2>1, <2>2
<1> QED BY <1>2, <1>3 DEF m, k

\* A block does not depend on what comes after it.
LEMMA BlockSame ==
  ASSUME NEW start, NEW hist, Listed(hist), NEW u, NEW n \in Nat, n <= Len(hist),
         n = 0 \/ n >= BlockSize
  PROVE  Block(start, Append(hist, u), n) = Block(start, hist, n)
<1> DEFINE g == Append(hist, u)
<1>1. /\ Len(hist) \in Nat /\ \A i \in 1 .. Len(hist) : g[i] = hist[i]
  BY ListedFacts, ListedAppend
<1> HIDE DEF g
<1>2. CASE n = 0 BY <1>2 DEF Block, g
<1>3. CASE n # 0
 <2>1. ASSUME NEW i \in Cells PROVE g[n - BlockSize + i] = hist[n - BlockSize + i]
  <3>1. n - BlockSize + i \in 1 .. Len(hist) BY <1>1, <1>3, ConstantFacts DEF Cells
  <3> QED BY <1>1, <3>1
 <2>2. [i \in Cells |-> <<"c", g[n - BlockSize + i].raw>>]
         = [i \in Cells |-> <<"c", hist[n - BlockSize + i].raw>>]
   BY <2>1
 <2>3. Block(start, g, n) = [i \in Cells |-> <<"c", g[n - BlockSize + i].raw>>]
   BY <1>3 DEF Block
 <2>4. Block(start, hist, n) = [i \in Cells |-> <<"c", hist[n - BlockSize + i].raw>>]
   BY <1>3 DEF Block
 <2> QED BY <2>2, <2>3, <2>4 DEF g
<1> QED BY <1>2, <1>3

\* The pads of the units before do not change.
LEMMA PadSame ==
  ASSUME NEW start, NEW hist, Listed(hist), NEW u, NEW k \in 1 .. Len(hist)
  PROVE  ExpectedPad(start, Append(hist, u), k) = ExpectedPad(start, hist, k)
<1> DEFINE n == k - 1
           s == BlockStart(n)
<1>1. n \in Nat /\ n <= Len(hist) /\ Len(hist) \in Nat BY ListedFacts
<1> HIDE DEF n
<1>2. s \in Nat /\ s <= n /\ (s = 0 \/ s >= BlockSize) BY <1>1, BlockStarts
<1> HIDE DEF s
<1>3. Block(start, Append(hist, u), s) = Block(start, hist, s) BY <1>1, <1>2, BlockSame
<1> QED BY <1>3 DEF ExpectedPad, s, n

\* The pad of a unit, by the number of units before it.
LEMMA PadAt ==
  ASSUME NEW start, NEW hist, NEW n \in Nat
  PROVE  ExpectedPad(start, hist, n + 1)
           = <<"E", Block(start, hist, BlockStart(n)), (n + 1) - BlockStart(n)>>
<1> DEFINE k == n + 1
           p == k - 1
<1>1. ExpectedPad(start, hist, k) = <<"E", Block(start, hist, BlockStart(p)), k - BlockStart(p)>>
  BY Zenon DEF ExpectedPad
<1>2. p = n OBVIOUS
<1> HIDE DEF k, p
<1>3. ExpectedPad(start, hist, k) = <<"E", Block(start, hist, BlockStart(n)), k - BlockStart(n)>>
  BY <1>1, <1>2, Zenon
<1> QED BY <1>3 DEF k

\* The register encrypted, while its cells are being overwritten.
LEMMA FedRegister ==
  ASSUME NEW c, CipherShape(c), NEW start, NEW hist, Listed(hist), Fed(c, start, hist)
  PROVE  LET s == BlockStart(Len(hist))
         IN  /\ c.num = Len(hist) - s
             /\ \A i \in Cells :
                  Register(c)[i] = IF i <= c.num THEN <<"c", hist[s + i].raw>>
                                   ELSE <<"E", Block(start, hist, s), i>>
<1> DEFINE n == Len(hist)
           s == BlockStart(n)
           b == Block(start, hist, s)
<1>1. /\ c.num = n - s
      /\ c.iv = IF s = n THEN b
                ELSE [i \in Cells |-> IF i <= n - s THEN <<"c", hist[s + i].raw>>
                                      ELSE <<"E", b, i>>]
  BY DEF Fed, RegisterAfter
<1>2. c.num \in 0 .. BlockSize - 1 BY DEF CipherShape
<1>3. n \in Nat BY ListedFacts
<1> HIDE DEF n
<1>4. s \in Nat BY <1>3, BlockStarts
<1> HIDE DEF s, b
<1>5. CASE c.num = 0
 <2>1. c.iv = b BY <1>1, <1>3, <1>4, <1>5
 <2>2. Register(c) = [i \in Cells |-> <<"E", b, i>>] BY <1>5, <2>1 DEF Register, block_encrypt
 <2>3. \A i \in Cells : ~(i <= c.num) BY <1>5, ConstantFacts DEF Cells
 <2> QED BY <1>1, <2>2, <2>3 DEF n, s, b
<1>6. CASE c.num # 0
 <2>1. s # n BY <1>1, <1>3, <1>4, <1>6
 <2>2. Register(c) = [i \in Cells |-> IF i <= c.num THEN <<"c", hist[s + i].raw>>
                                      ELSE <<"E", b, i>>]
   BY <1>1, <1>6, <2>1 DEF Register
 <2> QED BY <1>1, <2>2 DEF n, s, b
<1> QED BY <1>5, <1>6

\* One unit of cipher feedback mode: its pad, and the register after it.
LEMMA FedUnit ==
  ASSUME NEW c, CipherShape(c), NEW start, NEW hist, Listed(hist), Fed(c, start, hist), NEW u
  PROVE  /\ Fed(CfbUnit(c, u.raw), start, Append(hist, u))
         /\ Register(c)[c.num + 1] = ExpectedPad(start, Append(hist, u), Len(hist) + 1)
<1> DEFINE g == Append(hist, u)
           n == Len(hist)
           s == BlockStart(n)
           b == Block(start, hist, s)
           m == c.num
           x == u.raw
           d == CfbUnit(c, x)
           t == BlockStart(n + 1)
<1>1. /\ n \in Nat /\ Listed(g) /\ Len(g) = n + 1 /\ g[n + 1] = u
      /\ \A i \in 1 .. n : g[i] = hist[i]
  BY ListedFacts, ListedAppend
<1>2. /\ s \in Nat /\ s <= n /\ n < s + BlockSize /\ (s = 0 \/ s >= BlockSize)
      /\ t = IF n + 1 < s + BlockSize THEN s ELSE s + BlockSize
 <2> HIDE DEF n
 <2> QED BY <1>1, BlockStarts
<1>3. /\ m = n - s /\ m \in 0 .. BlockSize - 1 /\ BlockSize \in Nat /\ BlockSize > 2
      /\ \A i \in Cells :
           Register(c)[i] = IF i <= m THEN <<"c", hist[s + i].raw>> ELSE <<"E", b, i>>
  BY FedRegister, ConstantFacts DEF CipherShape
<1>4. /\ d.iv = [Register(c) EXCEPT ![m + 1] = <<"c", x>>]
      /\ d.num = IF m + 1 = BlockSize THEN 0 ELSE m + 1
  BY <1>3, Wraps DEF CfbUnit
<1>5. DOMAIN Register(c) = Cells /\ m + 1 \in Cells BY CfbShape
<1>6. Block(start, g, s) = b
 <2> HIDE DEF s
 <2> QED BY <1>1, <1>2, BlockSame DEF b
<1>7. /\ Len(g) = n + 1
      /\ RegisterAfter(start, g)
           = IF t = n + 1 THEN Block(start, g, t)
             ELSE [i \in Cells |-> IF i <= (n + 1) - t THEN <<"c", g[t + i].raw>>
                                   ELSE <<"E", Block(start, g, t), i>>]
 <2> DEFINE R(j, k) == IF k = j THEN Block(start, g, k)
                       ELSE [i \in Cells |-> IF i <= j - k THEN <<"c", g[k + i].raw>>
                                             ELSE <<"E", Block(start, g, k), i>>]
 <2>1. Len(g) = n + 1 BY <1>1
 <2> HIDE DEF g
 <2>2. RegisterAfter(start, g) = R(Len(g), BlockStart(Len(g))) BY Zenon DEF RegisterAfter
 <2> HIDE DEF R
 <2>3. RegisterAfter(start, g) = R(n + 1, t) BY <2>1, <2>2, Zenon
 <2> HIDE DEF n, t
 <2> QED BY <2>1, <2>3 DEF R
<1> HIDE DEF g, n, s, b, m, d, t, x
<1>8. ASSUME NEW i \in Cells
      PROVE  d.iv[i] = IF i <= m + 1 THEN <<"c", g[s + i].raw>> ELSE <<"E", b, i>>
 <2>1. CASE i = m + 1
  <3>1. s + i = n + 1 /\ i <= m + 1 BY <1>1, <1>2, <1>3, <2>1
  <3>2. d.iv[i] = <<"c", x>> BY <1>4, <1>5, <2>1
  <3> QED BY <1>1, <3>1, <3>2 DEF x
 <2>2. CASE i # m + 1
  <3>1. d.iv[i] = Register(c)[i] BY <1>4, <1>5, <2>2
  <3>2. CASE i <= m
   <4>1. s + i \in 1 .. n /\ i <= m + 1 BY <1>1, <1>2, <1>3, <3>2 DEF Cells
   <4> QED BY <1>1, <1>3, <3>1, <3>2, <4>1
  <3>3. CASE ~(i <= m)
   <4>1. ~(i <= m + 1) BY <1>3, <2>2, <3>3 DEF Cells
   <4> QED BY <1>3, <3>1, <3>3, <4>1
  <3> QED BY <3>2, <3>3
 <2> QED BY <2>1, <2>2
<1>9. DOMAIN d.iv = Cells /\ d.iv = [i \in Cells |-> d.iv[i]]
 <2> DEFINE R == Register(c)
 <2>1. DOMAIN R = Cells /\ d.iv = [R EXCEPT ![m + 1] = <<"c", x>>] BY <1>4, <1>5
 <2> HIDE DEF R
 <2>2. [R EXCEPT ![m + 1] = <<"c", x>>] = [i \in DOMAIN R |-> IF i = m + 1 THEN <<"c", x>> ELSE R[i]]
   OBVIOUS
 <2> QED BY <2>1, <2>2
<1>10. d.num = n + 1 - t /\ d.iv = RegisterAfter(start, g)
 <2>1. CASE m + 1 # BlockSize
  <3>1. t = s /\ d.num = n + 1 - t /\ (n + 1) - t = m + 1 /\ t # n + 1
    BY <1>1, <1>2, <1>3, <1>4, <2>1
  <3>2. d.iv = [i \in Cells |-> IF i <= m + 1 THEN <<"c", g[s + i].raw>> ELSE <<"E", b, i>>]
    BY <1>8, <1>9
  <3> QED BY <1>6, <1>7, <3>1, <3>2
 <2>2. CASE m + 1 = BlockSize
  <3>1. t = s + BlockSize /\ d.num = n + 1 - t /\ t = n + 1 /\ t # 0
    BY <1>1, <1>2, <1>3, <1>4, <2>2
  <3>2. \A i \in Cells : i <= m + 1 /\ t - BlockSize + i = s + i
    BY <1>2, <1>3, <2>2, <3>1 DEF Cells
  <3>3. d.iv = [i \in Cells |-> <<"c", g[t - BlockSize + i].raw>>] BY <1>8, <1>9, <3>2
  <3>4. Block(start, g, t) = [i \in Cells |-> <<"c", g[t - BlockSize + i].raw>>]
    BY <3>1 DEF Block
  <3> QED BY <1>7, <3>1, <3>3, <3>4
 <2> QED BY <2>1, <2>2
<1>11. Fed(d, start, g)
 <2>1. BlockStart(Len(g)) = t BY <1>7 DEF t
 <2>2. Len(g) = n + 1 /\ d.num = n + 1 - t BY <1>7, <1>10
 <2>3. d.num = Len(g) - BlockStart(Len(g))
  <3> DEFINE l == Len(g)
             a == BlockStart(l)
  <3>1. n \in Nat /\ t \in Int /\ l = n + 1 /\ a = t BY <1>1, <1>2, <1>3, <2>1, <2>2
  <3> HIDE DEF l, a
  <3>2. d.num = l - a BY <2>2, <3>1
  <3> QED BY <3>2 DEF l, a
 <2> QED BY <1>10, <2>3 DEF Fed
<1>12. Register(c)[m + 1] = ExpectedPad(start, g, n + 1)
 <2>1. (n + 1) - 1 = n /\ (n + 1) - s = m + 1 /\ ~(m + 1 <= m) BY <1>1, <1>2, <1>3
 <2>2. Register(c)[m + 1] = <<"E", b, m + 1>> BY <1>3, <1>5, <2>1
 <2>3. ExpectedPad(start, g, n + 1) = <<"E", Block(start, g, s), (n + 1) - s>>
   BY <1>1, PadAt DEF s
 <2> QED BY <1>6, <2>1, <2>2, <2>3
<1> QED BY <1>11, <1>12 DEF g, n, m, d, x

\* A reader stays in step with its cipher where nothing is decrypted, ...
LEMMA InStepSame ==
  ASSUME NEW a, NEW b, NEW c, InStep(a, c), b.hist = a.hist, b.start = a.start
  PROVE  InStep(b, c)
BY DEF InStep, PadsOf

\* ... where it has decrypted nothing yet since its cipher had register z, ...
LEMMA InStepFresh ==
  ASSUME NEW b, NEW d, NEW z, z = [i \in Cells |-> z[i]], b.hist = <<>>, b.start = z,
         d.num = 0, d.iv = z
  PROVE  InStep(b, d)
<1>1. Len(<<>>) = 0 /\ BlockStart(0) = 0 /\ DOMAIN <<>> = {} BY ListedShort, BlockStarts
<1>2. RegisterAfter(z, <<>>) = Block(z, <<>>, 0) BY <1>1 DEF RegisterAfter
<1>3. Block(z, <<>>, 0) = z BY DEF Block
<1> QED BY <1>1, <1>2, <1>3 DEF InStep, Fed, PadsOf

\* ... where another stretch begins with the register as it is, ...
LEMMA InStepBegins ==
  ASSUME NEW a, NEW b, NEW c, CipherShape(c), InStep(a, c), Begins(a, b)
  PROVE  InStep(b, std_resync(c))
<1> DEFINE d == std_resync(c)
           z == RegisterAfter(a.start, a.hist)
<1>1. d.num = 0 /\ d.iv = z BY DEF std_resync, CipherShape, InStep, Fed
<1>2. z = [i \in Cells |-> z[i]] BY DEF RegisterAfter, Block
<1>3. b.hist = <<>> /\ b.start = z BY DEF Begins
<1> HIDE DEF d, z
<1>4. InStep(b, d) BY <1>1, <1>2, <1>3, InStepFresh
<1> QED BY <1>4 DEF d

\* ... and where its cipher decrypts the next unit for it.
LEMMA InStepNext ==
  ASSUME NEW a, NEW b, NEW c, NEW unit, Listed(a.hist), CipherShape(c), InStep(a, c),
         b.start = a.start,
         b.hist = Append(a.hist, [raw |-> unit, clear |-> Unpadded(c, unit)])
  PROVE  InStep(b, CfbUnit(c, unit))
<1> DEFINE h0 == a.hist
           h == b.hist
           s == a.start
           u == [raw |-> unit, clear |-> Unpadded(c, unit)]
           n == Len(h0)
<1>1. u.raw = unit /\ u.clear = [unit EXCEPT !.pads = Append(unit.pads, Register(c)[c.num + 1])]
  BY DEF Unpadded
<1>2. /\ Listed(h0) /\ Fed(c, s, h0) /\ h = Append(h0, u) /\ b.start = s
      /\ \A k \in DOMAIN h0 :
           h0[k].clear = [h0[k].raw EXCEPT !.pads = Append(h0[k].raw.pads, ExpectedPad(s, h0, k))]
  BY DEF InStep, PadsOf
<1> HIDE DEF h0, h, s, u
<1>3. /\ Fed(CfbUnit(c, u.raw), s, h)
      /\ Register(c)[c.num + 1] = ExpectedPad(s, h, n + 1)
  BY <1>2, FedUnit
<1>4. /\ n \in Nat /\ DOMAIN h0 = 1 .. n /\ DOMAIN h = 1 .. n + 1 /\ h[n + 1] = u
      /\ \A k \in 1 .. n : h[k] = h0[k]
  BY <1>2, ListedAppend, ListedFacts
<1> HIDE DEF n
<1>5. \A k \in 1 .. n : ExpectedPad(s, h, k) = ExpectedPad(s, h0, k) BY <1>2, PadSame DEF n
<1>6. ASSUME NEW k \in 1 .. n + 1
      PROVE  h[k].clear = [h[k].raw EXCEPT !.pads = Append(h[k].raw.pads, ExpectedPad(s, h, k))]
 <2>1. CASE k = n + 1 BY <1>1, <1>3, <1>4, <2>1
 <2>2. CASE k # n + 1
  <3>1. k \in 1 .. n BY <1>4, <2>2
  <3> QED BY <1>2, <1>4, <1>5, <3>1
 <2> QED BY <2>1, <2>2
<1>7. PadsOf(b) BY <1>2, <1>4, <1>6 DEF PadsOf, h
<1> QED BY <1>1, <1>2, <1>3, <1>7 DEF InStep, h

-----------------------------------------------------------------------------
(* What the readers decrypted. *)

\* How far the stream has gone to the readers.
Reached == source - Pending

\* Between reads, all that came from the stream has been taken.
LEMMA PendingNone ==
  ASSUME Shapes, calls = <<>> PROVE Reached = source /\ Pending = 0 /\ source \in Nat
<1>1. source \in Nat BY ConstantFacts DEF Shapes
<1> QED BY <1>1 DEF Reached, Pending

\* The first reader's units stay in order when it gets none.
LEMMA OrderKept ==
  ASSUME FirstReader, readers # <<>>, Reached \in Int, Reached' \in Int, Reached <= Reached',
         readers'[1].hist \in {readers[1].hist, <<>>}
  PROVE  FirstReader'
<1> DEFINE h == readers[1].hist
           g == readers'[1].hist
<1>1. /\ \A k \in DOMAIN h : h[k].raw.pos \in Nat /\ h[k].raw.pos <= Reached
      /\ \A k, l \in DOMAIN h : k < l => h[k].raw.pos < h[l].raw.pos
  BY DEF FirstReader, InOrder, Reached
<1>2. g = h \/ DOMAIN g = {} OBVIOUS
<1> HIDE DEF h, g
<1>3. /\ \A k \in DOMAIN g : g[k].raw.pos \in Nat /\ g[k].raw.pos <= Reached'
      /\ \A k, l \in DOMAIN g : k < l => g[k].raw.pos < g[l].raw.pos
  BY <1>1, <1>2
<1>4. InOrder(readers[1])' BY <1>3 DEF InOrder, Reached, g
<1> QED BY <1>4 DEF FirstReader

\* Readers that stay alone with their ciphers stay in step, if each of them does.
LEMMA LoneKept ==
  ASSUME LoneReaders, Listed(readers), Listed(readers'), Len(readers') <= Len(readers),
         \A i \in 1 .. Len(readers') :
           /\ readers'[i].crypt = readers[i].crypt
           /\ readers'[i].alone =>
                /\ readers[i].alone
                /\ InStep(readers[i], ciphers[readers[i].crypt])
                     => InStep(readers'[i], ciphers'[readers[i].crypt])
  PROVE  LoneReaders'
<1>1. /\ DOMAIN readers = 1 .. Len(readers) /\ DOMAIN readers' = 1 .. Len(readers')
      /\ Len(readers) \in Nat /\ Len(readers') \in Nat
  BY ListedFacts
<1>2. \A i \in DOMAIN readers' : i \in DOMAIN readers BY <1>1
<1>3. ASSUME NEW i \in DOMAIN readers', readers'[i].alone
      PROVE  /\ \A j \in DOMAIN readers' : j # i => readers'[j].crypt # readers'[i].crypt
             /\ InStep(readers'[i], ciphers'[readers'[i].crypt])
 <2>1. readers[i].alone BY <1>1, <1>3
 <2>2. /\ \A j \in DOMAIN readers : j # i => readers[j].crypt # readers[i].crypt
       /\ InStep(readers[i], ciphers[readers[i].crypt])
   BY <1>2, <2>1 DEF LoneReaders
 <2> QED BY <1>1, <1>2, <1>3, <2>2
<1> QED BY <1>3 DEF LoneReaders

\* Steps that leave the readers and their ciphers alone.
LEMMA HistoriesSame ==
  ASSUME Histories, readers' = readers, ciphers' = ciphers,
         Reached \in Int, Reached' \in Int, Reached <= Reached'
  PROVE  Histories'
<1>1. LoneReaders' BY DEF Histories, LoneReaders
<1>2. FirstReader'
 <2>1. CASE readers = <<>> BY <2>1 DEF FirstReader
 <2>2. CASE readers # <<>> BY <2>2, OrderKept DEF Histories
 <2> QED BY <2>1, <2>2
<1> QED BY <1>1, <1>2 DEF Histories

\* Between reads, a step that reads nothing.
LEMMA HistoriesQuiet ==
  ASSUME Shapes, Histories, readers' = readers, ciphers' = ciphers, source' = source,
         calls = <<>>, calls' = <<>> \/ Top'.units = <<>>
  PROVE  Histories'
<1>1. Reached = source /\ source \in Nat BY PendingNone
<1>2. Pending' = 0
 <2>1. CASE calls' = <<>> BY <2>1 DEF Pending
 <2>2. CASE Top'.units = <<>> BY <2>2 DEF Pending
 <2> QED BY <2>1, <2>2
<1>3. Reached' = source BY <1>1, <1>2 DEF Reached
<1> QED BY <1>1, <1>3, HistoriesSame

\* The reads begin and end.
LEMMA ReadKept ==
  ASSUME Shapes, Histories, Scripted, Chained, Read \/ ReadDone \/ ReadFails
  PROVE  Histories'
<1>1. CASE Read
 <2>1. readers' = readers /\ ciphers' = ciphers /\ source' = source /\ calls = <<>>
       /\ calls' = <<Call(Depth, Now.n)>>
   BY <1>1 DEF Read, Doing, Running
 <2>2. Top' = Call(Depth, Now.n) BY <2>1, ListedShort DEF Top
 <2>3. Top'.units = <<>> BY <2>2 DEF Call
 <2> QED BY <2>1, <2>3, HistoriesQuiet
<1>2. CASE ReadDone \/ ReadFails
 <2>1. /\ mode = "run" /\ calls # <<>> /\ calls' = <<>> /\ readers' = readers
       /\ ciphers' = ciphers /\ source' = source
  <3>1. CASE ReadDone
   <4>1. /\ mode = "run" /\ Len(calls) = 1 /\ calls' = <<>> /\ readers' = readers
         /\ ciphers' = ciphers /\ source' = source
     BY <3>1 DEF ReadDone
   <4>2. Len(<<>>) = 0 BY ListedShort
   <4> QED BY <4>1, <4>2
  <3>2. CASE ReadFails BY <3>2 DEF ReadFails
  <3> QED BY <1>2, <3>1, <3>2
 <2>2. Len(Top.units) \in Nat BY <2>1, TopFacts
 <2>3. Pending \in Nat /\ Pending' = 0 /\ source \in Nat
   BY <2>1, <2>2, ConstantFacts DEF Pending, Shapes
 <2>4. Reached \in Int /\ Reached' \in Int /\ Reached <= Reached' BY <2>1, <2>3 DEF Reached
 <2> QED BY <2>1, <2>4, HistoriesSame
<1> QED BY <1>1, <1>2

\* The read goes to the reader below, and comes back.
LEMMA FetchKept ==
  ASSUME Shapes, Histories, Scripted, Chained, Fetch \/ Fetched PROVE Histories'
<1>1. source \in Nat BY ConstantFacts DEF Shapes
<1>2. CASE Fetch
 <2>1. PICK p \in Nat :
         /\ calls # <<>> /\ Top.depth \in 1 .. Depth /\ Top' = Call(Top.depth - 1, p)
         /\ readers' = readers /\ ciphers' = ciphers /\ source' = source
   BY <1>2, FetchFacts
 <2>2. Pending = 0 BY <2>1 DEF Pending
 <2>3. Pending' = 0 BY <2>1, ListedShort DEF Pending, Call
 <2> QED BY <1>1, <2>1, <2>2, <2>3, HistoriesSame DEF Reached
<1>3. CASE Fetched
 <2>1. /\ mode = "run" /\ Len(calls) > 1 /\ Top.units = <<>> /\ calls' = Front(calls)
       /\ readers' = readers /\ ciphers' = ciphers /\ source' = source
   BY <1>3 DEF Fetched
 <2>2. Listed(calls) /\ Len(calls) \in Nat /\ calls # <<>> BY <2>1, ListedFacts DEF Shapes
 <2>3. Len(calls') = Len(calls) - 1 /\ \A i \in 1 .. Len(calls) - 1 : calls'[i] = calls[i]
   BY <2>1, <2>2, ListedFront
 <2>4. Top'.depth = Top.depth + 1 /\ Top.depth \in Nat
  <3>1. Top' = calls[Len(calls) - 1]
   <4>1. Top' = calls'[Len(calls) - 1] BY <2>3 DEF Top
   <4> QED BY <2>1, <2>2, <2>3, <4>1
  <3>2. calls[Len(calls) - 1].depth = Top.depth + 1 /\ Top.depth \in 0 .. Depth
    BY <2>1, <2>2, TopFacts
  <3> QED BY <3>1, <3>2
 <2>5. Pending = 0 /\ Pending' = 0 BY <2>1, <2>4, ListedShort DEF Pending
 <2> QED BY <1>1, <2>1, <2>5, HistoriesSame DEF Reached
<1> QED BY <1>2, <1>3

\* Units come from the stream, after all that came before.
LEMMA FromStreamKept ==
  ASSUME Shapes, Histories, Scripted, Chained, FromStream PROVE Histories'
<1>1. source \in Nat BY ConstantFacts DEF Shapes
<1>2. PICK c :
        /\ mode = "run" /\ calls # <<>> /\ Top.depth = 0 /\ Top.length \in Nat
        /\ Top.units = <<>> /\ source' = source + Top.length /\ FromHere(c) /\ calls' = ReadOf(c)
        /\ readers' = readers /\ ciphers' = ciphers
  BY FromStreamFacts
<1>3. Top' = c /\ calls' # <<>> BY <1>2, PutCall DEF Shapes
<1>4. Pending = 0 BY <1>2, ListedShort DEF Pending
<1>5. Pending' = Top.length BY <1>2, <1>3 DEF Pending, FromHere
<1> QED BY <1>1, <1>2, <1>4, <1>5, HistoriesSame DEF Reached

\* A reader that is entered: another cipher is touched only where it is
\* resynchronised, and then the reader that is entered is its only user.
LEMMA EnterKept ==
  ASSUME Shapes, Histories, Scripted, Chained, Enter PROVE Histories'
<1> DEFINE d == Top.depth
           k == Serving.crypt
<1>1. PICK r :
        /\ mode = "run" /\ calls # <<>> /\ d \in 1 .. Depth
        /\ calls' = ReadOf([Top EXCEPT !.entered = TRUE])
        /\ readers' = [readers EXCEPT ![d] = r] /\ ReaderShape(r)
        /\ r.crypt = k /\ r.alone = Serving.alone
        /\ \/ r.hist = Serving.hist /\ r.start = Serving.start /\ ciphers' = ciphers
           \/ Begins(Serving, r) /\ ciphers' = [ciphers EXCEPT ![k] = std_resync(ciphers[k])]
        /\ source' = source
  BY EnterFacts
<1>2. Depth \in Nat /\ Depth > 0 /\ DOMAIN readers = 1 .. Depth /\ Listed(readers) /\ readers # <<>>
  BY <1>1, ListedFacts DEF Shapes, Depth
<1>3. /\ Listed(readers') /\ Len(readers') = Len(readers) /\ readers'[d] = r
      /\ \A i \in 1 .. Depth : i # d => readers'[i] = readers[i]
      /\ \A i \in 1 .. Depth : ReaderShape(readers[i])
  BY <1>1, PutReader
<1>4. Reached' = Reached /\ Reached \in Int
 <2>1. Top' = [Top EXCEPT !.entered = TRUE] /\ calls' # <<>> BY <1>1, PutCall DEF Shapes
 <2>2. CallShape(Top) BY <1>1, TopFacts
 <2>3. Top'.depth = Top.depth BY <2>1, <2>2 DEF CallShape
 <2>4. Pending = 0 /\ Pending' = 0 BY <1>1, <1>2, <2>3 DEF Pending
 <2> QED BY <1>1, <2>4, ConstantFacts DEF Reached, Shapes
<1>5. Serving = readers[d] /\ FirstReader /\ LoneReaders BY DEF Serving, Histories
<1>6. readers'[1].hist \in {readers[1].hist, <<>>}
 <2>1. CASE d = 1 BY <1>1, <1>3, <1>5, <2>1 DEF Begins
 <2>2. CASE d # 1 BY <1>2, <1>3, <2>2
 <2> QED BY <2>1, <2>2
<1>7. /\ DOMAIN ciphers = {"session", "secret"} /\ \A x \in DOMAIN ciphers : CipherShape(ciphers[x])
      /\ \A i \in 1 .. Depth : readers[i].crypt \in {"session", "secret"}
  BY <1>3 DEF Shapes, ReaderShape
<1> HIDE DEF d, k
<1>8. ASSUME NEW i \in 1 .. Depth
      PROVE  /\ readers'[i].crypt = readers[i].crypt
             /\ readers'[i].alone =>
                  /\ readers[i].alone
                  /\ InStep(readers[i], ciphers[readers[i].crypt])
                       => InStep(readers'[i], ciphers'[readers[i].crypt])
 <2>1. CASE i = d
  <3>1. readers[i] = Serving /\ readers'[i] = r /\ r.crypt = Serving.crypt /\ k = Serving.crypt
    BY <1>1, <1>3, <1>5, <2>1 DEF k
  <3>2. ASSUME InStep(Serving, ciphers[k]) PROVE InStep(r, ciphers'[k])
   <4>1. CASE r.hist = Serving.hist /\ r.start = Serving.start /\ ciphers' = ciphers
     BY <3>2, <4>1, InStepSame
   <4>2. CASE Begins(Serving, r) /\ ciphers' = [ciphers EXCEPT ![k] = std_resync(ciphers[k])]
    <5>1. k \in DOMAIN ciphers BY <1>7, <3>1
    <5>2. CipherShape(ciphers[k]) /\ ciphers'[k] = std_resync(ciphers[k]) BY <1>7, <4>2, <5>1
    <5> QED BY <3>2, <4>2, <5>2, InStepBegins
   <4> QED BY <1>1, <4>1, <4>2
  <3> QED BY <1>1, <3>1, <3>2
 <2>2. CASE i # d
  <3>1. readers'[i] = readers[i] BY <1>3, <2>2
  <3>2. ASSUME readers[i].alone PROVE ciphers'[readers[i].crypt] = ciphers[readers[i].crypt]
   <4>1. readers[d].crypt # readers[i].crypt BY <1>1, <1>2, <1>5, <2>2, <3>2 DEF LoneReaders
   <4>2. k # readers[i].crypt BY <1>5, <4>1 DEF k
   <4>3. readers[i].crypt \in DOMAIN ciphers BY <1>7
   <4> QED BY <1>1, <4>2, <4>3
  <3> QED BY <3>1, <3>2
 <2> QED BY <2>1, <2>2
<1>9. LoneReaders' BY <1>2, <1>3, <1>5, <1>8, LoneKept DEF Depth
<1>10. FirstReader' BY <1>2, <1>4, <1>5, <1>6, OrderKept
<1> QED BY <1>9, <1>10 DEF Histories

\* Units are taken from the front of a buffer.
LEMMA FromBufferKept ==
  ASSUME Shapes, Histories, Scripted, Chained, FromBuffer PROVE Histories'
<1> DEFINE d == Top.depth
<1>1. /\ mode = "run" /\ calls # <<>> /\ d \in 1 .. Depth
      /\ source' = source /\ ciphers' = ciphers
      /\ \/ readers' = readers /\ calls' = calls
         \/ \E n, c, r : /\ Handed(n, c, r) /\ calls' = ReadOf(c) /\ readers' = [readers EXCEPT ![d] = r]
  BY FromBufferFacts
<1>2. Depth \in Nat /\ Depth > 0 /\ DOMAIN readers = 1 .. Depth /\ Listed(readers) /\ readers # <<>>
  BY <1>1, ListedFacts DEF Shapes, Depth
<1>3. Pending = 0 /\ source \in Nat BY <1>1, <1>2, ConstantFacts DEF Pending, Shapes
<1>4. CASE readers' = readers /\ calls' = calls
 <2>1. Pending' = 0 BY <1>1, <1>2, <1>4 DEF Pending, Top
 <2> QED BY <1>1, <1>3, <1>4, <2>1, HistoriesSame DEF Reached
<1>5. CASE \E n, c, r : Handed(n, c, r) /\ calls' = ReadOf(c) /\ readers' = [readers EXCEPT ![d] = r]
 <2>1. PICK n, c, r : Handed(n, c, r) /\ calls' = ReadOf(c) /\ readers' = [readers EXCEPT ![d] = r]
   BY <1>5
 <2>2. /\ ReaderShape(r) /\ r.crypt = Serving.crypt /\ r.hist = Serving.hist
       /\ r.alone = Serving.alone /\ r.start = Serving.start /\ c.depth = d
   BY <2>1 DEF Handed
 <2>3. /\ Listed(readers') /\ Len(readers') = Len(readers) /\ readers'[d] = r
       /\ \A i \in 1 .. Depth : i # d => readers'[i] = readers[i]
   BY <1>1, <2>1, <2>2, PutReader
 <2>4. Reached' = Reached /\ Reached \in Int
  <3>1. Top' = c /\ calls' # <<>> BY <1>1, <2>1, PutCall DEF Shapes
  <3>2. Pending' = 0 BY <1>1, <1>2, <2>2, <3>1 DEF Pending
  <3> QED BY <1>1, <1>3, <3>2 DEF Reached
 <2>5. ASSUME NEW i \in 1 .. Depth
       PROVE  /\ readers'[i].crypt = readers[i].crypt /\ readers'[i].alone = readers[i].alone
              /\ readers'[i].hist = readers[i].hist /\ readers'[i].start = readers[i].start
   BY <2>2, <2>3 DEF Serving
 <2>6. ASSUME NEW i \in 1 .. Depth, NEW k, InStep(readers[i], k) PROVE InStep(readers'[i], k)
   BY <2>5, <2>6, InStepSame
 <2>7. LoneReaders' BY <1>1, <1>2, <2>3, <2>5, <2>6, LoneKept DEF Depth, Histories
 <2>8. FirstReader' BY <1>2, <2>4, <2>5, OrderKept DEF Histories
 <2> QED BY <2>7, <2>8 DEF Histories
<1> QED BY <1>1, <1>4, <1>5

\* The handlers' own steps.
LEMMA HandlerKept ==
  ASSUME Shapes, Histories, Scripted,
         ParsePacket \/ ParseEnd \/ HandlerEnd \/ SetVersion \/ SecretRead \/ LeaveReader
  PROVE  Histories'
BY HandlerShapes, HistoriesQuiet

\* A key is set up for readers that are still to come.
LEMMA SetKeyKept ==
  ASSUME Shapes, Histories, Scripted, SetKey PROVE Histories'
<1>1. /\ calls = <<>> /\ calls' = <<>> /\ readers' = readers /\ source' = source
      /\ \/ readers = <<>>
         \/ Sessions(Depth) /\ ciphers' = [ciphers EXCEPT !["secret"] = std_set_iv]
  BY SetKeyFacts
<1>2. CASE readers = <<>> BY <1>1, <1>2 DEF Histories, FirstReader, LoneReaders
<1>3. CASE readers # <<>>
 <2>1. Listed(readers) /\ Len(readers) \in Nat BY ListedFacts DEF Shapes
 <2>2. \A i \in 1 .. Len(readers) : readers[i].crypt = "session"
   BY <1>1, <1>3 DEF Sessions, Depth
 <2>3. ciphers'["session"] = ciphers["session"] BY <1>1, <1>3 DEF Shapes
 <2>4. Reached = source /\ source \in Nat /\ Reached' = source
   BY <1>1, PendingNone DEF Reached, Pending
 <2>5. LoneReaders' BY <1>1, <2>1, <2>2, <2>3, LoneKept DEF Histories
 <2>6. FirstReader' BY <1>1, <1>3, <2>4, OrderKept DEF Histories
 <2> QED BY <2>5, <2>6 DEF Histories
<1> QED BY <1>2, <1>3

\* A reader is put on others: it is alone with its cipher, which has just been set up,
\* or none of those that use this cipher is.
LEMMA PushKept ==
  ASSUME Shapes, Histories, Scripted, ops_reader_push_decrypt PROVE Histories'
<1> DEFINE k == Now.key
           b == readers'[Depth + 1]
<1>1. /\ calls = <<>> /\ calls' = <<>> /\ source' = source /\ Sessions(Depth)
      /\ \/ k = "session" /\ (readers = <<>> => ciphers["session"] = std_set_iv)
         \/ k = "secret" /\ ciphers["secret"] = std_set_iv
      /\ ciphers' = [ciphers EXCEPT ![k] = ops_decrypt_init(ciphers[k])]
  BY PushShapes
<1>2. Listed(readers) /\ Depth \in Nat /\ DOMAIN readers = 1 .. Depth /\ (readers = <<>> <=> Depth = 0)
  BY ListedFacts DEF Shapes, Depth
<1>3. /\ Listed(readers') /\ Len(readers') = Depth + 1
      /\ \A i \in 1 .. Depth :
           readers'[i] = IF readers[i].crypt = k THEN [readers[i] EXCEPT !.alone = FALSE]
                         ELSE readers[i]
      /\ b.crypt = k /\ b.hist = <<>> /\ b.start = ZeroIv
      /\ b.alone = \A i \in 1 .. Depth : readers[i].crypt # k
  BY <1>2, PushFacts
<1>4. DOMAIN readers' = 1 .. Depth + 1 BY <1>3, ListedFacts
<1>5. \A i \in 1 .. Depth : ReaderShape(readers[i]) BY <1>2 DEF Shapes
<1>6. DOMAIN ciphers = {"session", "secret"} BY DEF Shapes
<1> HIDE DEF k, b
<1>7. ASSUME NEW i \in 1 .. Depth
      PROVE  /\ readers'[i].crypt = readers[i].crypt /\ readers'[i].hist = readers[i].hist
             /\ readers'[i].start = readers[i].start
             /\ readers'[i].alone => readers[i].alone /\ readers[i].crypt # k
 <2>1. CASE readers[i].crypt = k
  <3>1. readers'[i] = [readers[i] EXCEPT !.alone = FALSE] BY <1>3, <2>1
  <3> QED BY <1>5, <3>1 DEF ReaderShape
 <2>2. CASE readers[i].crypt # k BY <1>3, <2>2
 <2> QED BY <2>1, <2>2
<1>8. ASSUME NEW i \in 1 .. Depth, readers'[i].alone
      PROVE  /\ \A j \in DOMAIN readers' : j # i => readers'[j].crypt # readers'[i].crypt
             /\ InStep(readers'[i], ciphers'[readers'[i].crypt])
 <2>1. readers[i].alone /\ readers[i].crypt # k BY <1>7, <1>8
 <2>2. /\ \A j \in 1 .. Depth : j # i => readers[j].crypt # readers[i].crypt
       /\ InStep(readers[i], ciphers[readers[i].crypt])
   BY <1>2, <2>1 DEF Histories, LoneReaders
 <2>3. ASSUME NEW j \in DOMAIN readers', j # i PROVE readers'[j].crypt # readers'[i].crypt
  <3>1. CASE j = Depth + 1 BY <1>3, <1>7, <2>1, <3>1 DEF b
  <3>2. CASE j # Depth + 1
   <4>1. j \in 1 .. Depth BY <1>2, <1>4, <3>2
   <4> QED BY <1>7, <2>2, <2>3, <4>1
  <3> QED BY <3>1, <3>2
 <2>4. ciphers'[readers[i].crypt] = ciphers[readers[i].crypt]
  <3>1. readers[i].crypt \in DOMAIN ciphers BY <1>5, <1>6 DEF ReaderShape
  <3> QED BY <1>1, <2>1, <3>1
 <2>5. InStep(readers'[i], ciphers[readers[i].crypt]) BY <1>7, <2>2, InStepSame
 <2> QED BY <1>7, <2>3, <2>4, <2>5
<1>9. ASSUME b.alone
      PROVE  /\ \A j \in DOMAIN readers' : j # Depth + 1 => readers'[j].crypt # b.crypt
             /\ InStep(b, ciphers'[b.crypt])
 <2>1. \A i \in 1 .. Depth : readers[i].crypt # k BY <1>3, <1>9
 <2>2. ASSUME NEW j \in DOMAIN readers', j # Depth + 1 PROVE readers'[j].crypt # b.crypt
  <3>1. j \in 1 .. Depth BY <1>2, <1>4, <2>2
  <3> QED BY <1>3, <1>7, <2>1, <3>1
 <2>3. ciphers[k] = std_set_iv
  <3>1. CASE k = "session"
   <4>1. Depth = 0
    <5>1. ASSUME Depth # 0 PROVE FALSE
     <6>1. 1 \in 1 .. Depth BY <1>2, <5>1
     <6> QED BY <1>1, <2>1, <3>1, <6>1 DEF Sessions
    <5> QED BY <5>1
   <4> QED BY <1>1, <1>2, <3>1, <4>1
  <3>2. CASE k # "session" BY <1>1, <3>2
  <3> QED BY <3>1, <3>2
 <2>4. ciphers'[k] = [iv |-> ZeroIv, num |-> 0]
  <3>1. k \in DOMAIN ciphers BY <1>1, <1>6
  <3>2. ops_decrypt_init(std_set_iv) = [iv |-> ZeroIv, num |-> 0]
    BY DEF ops_decrypt_init, std_set_iv
  <3> QED BY <1>1, <2>3, <3>1, <3>2
 <2>5. ZeroIv = [i \in Cells |-> ZeroIv[i]] BY DEF ZeroIv
 <2>6. ciphers'[k].iv = ZeroIv /\ ciphers'[k].num = 0 BY <2>4
 <2>7. InStep(b, ciphers'[k]) BY <1>3, <2>5, <2>6, InStepFresh
 <2> QED BY <1>3, <2>2, <2>7
<1>10. LoneReaders'
 <2>1. \A i \in DOMAIN readers' : i \in 1 .. Depth \/ i = Depth + 1 BY <1>2, <1>4
 <2> QED BY <1>8, <1>9, <2>1 DEF LoneReaders, b
<1>11. FirstReader'
 <2>1. CASE readers = <<>>
  <3>1. readers'[1].hist = <<>> BY <1>2, <1>3, <2>1 DEF b
  <3>2. InOrder(readers[1])' BY <3>1 DEF InOrder
  <3> QED BY <3>2 DEF FirstReader
 <2>2. CASE readers # <<>>
  <3>1. 1 \in 1 .. Depth BY <1>2, <2>2
  <3>2. Reached = source /\ source \in Nat /\ Reached' = source
    BY <1>1, PendingNone DEF Reached, Pending
  <3> QED BY <1>7, <2>2, <3>1, <3>2, OrderKept DEF Histories
 <2> QED BY <2>1, <2>2
<1> QED BY <1>10, <1>11 DEF Histories

\* A reader goes, and those below stay.
LEMMA PopKept ==
  ASSUME Shapes, Histories, Scripted, ops_reader_pop_decrypt PROVE Histories'
<1>1. /\ calls = <<>> /\ calls' = <<>> /\ source' = source /\ ciphers' = ciphers
      /\ Depth \in Nat /\ Depth > 0 /\ Listed(readers)
      /\ Listed(readers') /\ Len(readers') = Depth - 1
      /\ \A i \in 1 .. Depth - 1 : readers'[i] = readers[i]
  BY PopShapes DEF Shapes
<1>2. LoneReaders' BY <1>1, LoneKept DEF Depth, Histories
<1>3. FirstReader'
 <2>1. CASE readers' = <<>> BY <2>1 DEF FirstReader
 <2>2. CASE readers' # <<>>
  <3>1. Depth - 1 > 0 /\ readers # <<>> BY <1>1, <2>2, ListedFacts, ListedShort DEF Depth
  <3>2. readers'[1] = readers[1] BY <1>1, <3>1
  <3>3. Reached = source /\ source \in Nat /\ Reached' = source
    BY <1>1, PendingNone DEF Reached, Pending
  <3> QED BY <3>1, <3>2, <3>3, OrderKept DEF Histories
 <2> QED BY <2>1, <2>2
<1> QED BY <1>2, <1>3 DEF Histories

\* A resynchronisation: the reader begins another stretch; if it is alone, no other
\* uses its cipher.
LEMMA ResyncKept ==
  ASSUME Shapes, Histories, Scripted, Resync PROVE Histories'
<1> DEFINE d == Depth
           a == readers[d]
           b == readers'[d]
           c == ciphers["session"]
<1>1. /\ calls = <<>> /\ calls' = <<>> /\ source' = source
      /\ d \in 1 .. d /\ Sessions(d) /\ Listed(readers') /\ Len(readers') = d
      /\ b = Resynced(a) /\ ReaderShape(a)
      /\ \A i \in 1 .. d : i # d => readers'[i] = readers[i]
      /\ ciphers' = [ciphers EXCEPT !["session"] = std_resync(c)]
  BY ResyncShapes
<1>2. /\ Listed(readers) /\ d \in Nat /\ d > 0 /\ DOMAIN readers = 1 .. d /\ readers # <<>>
  BY <1>1, ListedFacts, ListedShort DEF Shapes, Depth
<1>3. Reached = source /\ source \in Nat /\ Reached' = source
  BY <1>1, PendingNone DEF Reached, Pending
<1>4. b.crypt = a.crypt /\ b.alone = a.alone /\ Begins(a, b)
  BY <1>1 DEF Resynced, ReaderShape, Begins
<1>5. CipherShape(c) /\ ciphers'["session"] = std_resync(c) BY <1>1 DEF Shapes
<1>6. \A i \in 1 .. d : readers[i].crypt = "session" BY <1>1 DEF Sessions
<1> HIDE DEF d, a, b, c
<1>7. ASSUME NEW i \in 1 .. d
      PROVE  /\ readers'[i].crypt = readers[i].crypt
             /\ readers'[i].alone =>
                  /\ readers[i].alone
                  /\ InStep(readers[i], ciphers[readers[i].crypt])
                       => InStep(readers'[i], ciphers'[readers[i].crypt])
 <2>1. CASE i = d
  <3>1. readers[i] = a /\ readers'[i] = b /\ ciphers[readers[i].crypt] = c
    BY <1>6, <2>1 DEF a, b, c
  <3>2. InStep(a, c) => InStep(b, std_resync(c)) BY <1>4, <1>5, InStepBegins
  <3> QED BY <1>4, <1>5, <1>6, <3>1, <3>2
 <2>2. CASE i # d
  <3>1. readers'[i] = readers[i] /\ d \in 1 .. d BY <1>1, <2>2
  <3>2. ~readers[i].alone BY <1>2, <1>6, <2>2, <3>1 DEF Histories, LoneReaders
  <3> QED BY <3>1, <3>2
 <2> QED BY <2>1, <2>2
<1>8. LoneReaders' BY <1>1, <1>2, <1>7, LoneKept DEF Histories, Depth, d
<1>9. readers'[1].hist \in {readers[1].hist, <<>>}
 <2>1. CASE d = 1 BY <1>4, <2>1 DEF a, b, Begins
 <2>2. CASE d # 1 BY <1>1, <1>2, <2>2
 <2> QED BY <2>1, <2>2
<1>10. FirstReader' BY <1>2, <1>3, <1>9, OrderKept DEF Histories
<1> QED BY <1>8, <1>10 DEF Histories

\* The reads, when a unit has been decrypted: it is the next of the stream where
\* the reader at the bottom gets it.
LEMMA UnitTaken ==
  ASSUME Shapes, Scripted, Chained, mode = "run", calls # <<>>, Len(calls) > 1,
         Top.length = 0, Top.units # <<>>, NEW c, calls' = ReadOf(c), c.depth = Top.depth,
         Len(c.units) = Len(Top.units) - 1, source' = source
  PROVE  /\ Reached \in Int /\ Reached' \in Int /\ Top.depth \in Nat
         /\ Top.depth = 0 => /\ Reached \in Nat /\ Reached' = Reached + 1
                             /\ Top.units[1] = [pos |-> Reached', pads |-> <<>>]
         /\ Top.depth # 0 => Reached' = Reached
<1>1. /\ CallShape(Top) /\ Top.depth \in 0 .. Depth /\ Len(Top.units) \in Nat /\ AtBottom
      /\ DOMAIN Top.units = 1 .. Len(Top.units) /\ Len(Top.units) > 0
 <2>1. /\ CallShape(Top) /\ Top.depth \in 0 .. Depth /\ Len(Top.units) \in Nat /\ AtBottom
       /\ Listed(Top.units)
   BY TopFacts
 <2> DEFINE units == Top.units
 <2>2. Listed(units) /\ units # <<>> BY <2>1
 <2> HIDE DEF units
 <2>3. DOMAIN units = 1 .. Len(units) /\ Len(units) > 0 BY <2>2, ListedFacts
 <2> QED BY <2>1, <2>3 DEF units
<1>2. Top' = c /\ calls' # <<>> BY PutCall DEF Shapes
<1>3. source \in Nat BY ConstantFacts DEF Shapes
<1>4. CASE Top.depth = 0
 <2> DEFINE n == Len(Top.units)
 <2>1. Pending = n /\ Pending' = n - 1 BY <1>2, <1>4 DEF Pending
 <2>2. n \in Nat /\ n > 0 /\ n <= source BY <1>1, <1>4 DEF AtBottom
 <2>3. Top.units[1] = [pos |-> source - n + 1, pads |-> <<>>] BY <1>1, <1>4 DEF AtBottom
 <2> HIDE DEF n
 <2>4. Reached = source - n /\ Reached' = source - (n - 1) BY <2>1 DEF Reached
 <2>5. Reached \in Nat /\ Reached' = Reached + 1 /\ Reached' = source - n + 1 BY <1>3, <2>2, <2>4
 <2> QED BY <1>4, <2>3, <2>5
<1>5. CASE Top.depth # 0
 <2>1. Pending = 0 /\ Pending' = 0 BY <1>2, <1>5 DEF Pending
 <2> QED BY <1>1, <1>3, <1>5, <2>1 DEF Reached
<1> QED BY <1>4, <1>5

\* A unit is decrypted, for the first reader or for another.
LEMMA OneUnitKept ==
  ASSUME Shapes, Histories, Scripted, Chained, ops_decrypt_se_ip PROVE Histories'
<1> DEFINE d == Top.depth + 1
           a == readers[d]
           k == a.crypt
           unit == Top.units[1]
<1>1. /\ mode = "run" /\ calls # <<>> /\ Len(calls) > 1 /\ Top.length = 0
      /\ Top.units # <<>> /\ d \in 1 .. Depth /\ source' = source
      /\ \E c, r, e :
           /\ Moved(c, readers[d], r, e) /\ Deciphered(readers[d], r, e, unit)
           /\ calls' = ReadOf(c) /\ readers' = [readers EXCEPT ![d] = r]
  BY OneUnitFacts
<1>2. PICK c, r, e :
        /\ Moved(c, readers[d], r, e) /\ Deciphered(readers[d], r, e, unit)
        /\ calls' = ReadOf(c) /\ readers' = [readers EXCEPT ![d] = r]
  BY <1>1
<1>3. Depth \in Nat /\ Depth > 0 /\ DOMAIN readers = 1 .. Depth /\ Listed(readers) /\ readers # <<>>
  BY <1>1, ListedFacts DEF Shapes, Depth
<1>4. /\ ReaderShape(r) /\ r.crypt = k /\ r.alone = a.alone /\ r.start = a.start
      /\ c.depth = Top.depth /\ Len(c.units) = Len(Top.units) - 1
  BY <1>2 DEF Moved
<1>5. /\ Listed(readers') /\ Len(readers') = Len(readers) /\ readers'[d] = r
      /\ \A i \in 1 .. Depth : i # d => readers'[i] = readers[i]
      /\ \A i \in 1 .. Depth : ReaderShape(readers[i])
  BY <1>1, <1>2, <1>4, PutReader
<1>6. /\ Reached \in Int /\ Reached' \in Int /\ Top.depth \in Nat
      /\ d = 1 => Reached \in Nat /\ Reached' = Reached + 1 /\ unit = [pos |-> Reached', pads |-> <<>>]
      /\ d # 1 => Reached' = Reached
 <2>1. /\ Reached \in Int /\ Reached' \in Int /\ Top.depth \in Nat
       /\ Top.depth = 0 => /\ Reached \in Nat /\ Reached' = Reached + 1
                           /\ Top.units[1] = [pos |-> Reached', pads |-> <<>>]
       /\ Top.depth # 0 => Reached' = Reached
   BY <1>1, <1>2, <1>4, UnitTaken
 <2> QED BY <2>1
<1>7. /\ \/ r.hist = a.hist /\ ciphers' = ciphers
         \/ /\ r.hist = Append(a.hist, [raw |-> unit, clear |-> Unpadded(ciphers[k], unit)])
            /\ ciphers' = [ciphers EXCEPT ![k] = CfbUnit(ciphers[k], unit)]
      /\ ReaderShape(a) /\ Listed(a.hist)
  BY <1>1, <1>2, <1>5 DEF Deciphered, ReaderShape
<1>8. /\ DOMAIN ciphers = {"session", "secret"} /\ \A x \in DOMAIN ciphers : CipherShape(ciphers[x])
      /\ \A i \in 1 .. Depth : readers[i].crypt \in DOMAIN ciphers
  BY <1>5 DEF Shapes, ReaderShape
<1> HIDE DEF d, a, k, unit
<1>9. ASSUME NEW i \in 1 .. Depth
      PROVE  /\ readers'[i].crypt = readers[i].crypt
             /\ readers'[i].alone =>
                  /\ readers[i].alone
                  /\ InStep(readers[i], ciphers[readers[i].crypt])
                       => InStep(readers'[i], ciphers'[readers[i].crypt])
 <2>1. CASE i = d
  <3>1. readers[i] = a /\ readers'[i] = r /\ k = a.crypt /\ k \in DOMAIN ciphers
    BY <1>5, <1>8, <2>1 DEF a, k
  <3>2. ASSUME InStep(a, ciphers[k]) PROVE InStep(r, ciphers'[k])
   <4>1. CASE r.hist = a.hist /\ ciphers' = ciphers BY <1>4, <3>2, <4>1, InStepSame
   <4>2. CASE /\ r.hist = Append(a.hist, [raw |-> unit, clear |-> Unpadded(ciphers[k], unit)])
              /\ ciphers' = [ciphers EXCEPT ![k] = CfbUnit(ciphers[k], unit)]
    <5> DEFINE z == ciphers[k]
    <5>1. CipherShape(z) /\ ciphers'[k] = CfbUnit(z, unit) BY <1>8, <3>1, <4>2
    <5>2. /\ r.hist = Append(a.hist, [raw |-> unit, clear |-> Unpadded(z, unit)])
          /\ InStep(a, z) /\ r.start = a.start /\ Listed(a.hist)
      BY <1>4, <1>7, <3>2, <4>2
    <5> HIDE DEF z
    <5>3. InStep(r, CfbUnit(z, unit)) BY <5>1, <5>2, InStepNext
    <5> QED BY <5>1, <5>3
   <4> QED BY <1>7, <4>1, <4>2
  <3> QED BY <1>4, <3>1, <3>2
 <2>2. CASE i # d
  <3>1. readers'[i] = readers[i] BY <1>5, <2>2
  <3>2. ASSUME readers[i].alone PROVE ciphers'[readers[i].crypt] = ciphers[readers[i].crypt]
   <4>1. readers[d].crypt # readers[i].crypt
     BY <1>1, <1>3, <2>2, <3>2 DEF Histories, LoneReaders
   <4>2. k # readers[i].crypt BY <4>1 DEF k, a
   <4> QED BY <1>7, <1>8, <4>2
  <3> QED BY <3>1, <3>2
 <2> QED BY <2>1, <2>2
<1>10. LoneReaders' BY <1>3, <1>5, <1>9, LoneKept DEF Depth, Histories
<1>11. FirstReader'
 <2>1. CASE d # 1
  <3>1. readers'[1] = readers[1] BY <1>3, <1>5, <2>1
  <3>2. Reached <= Reached' BY <1>6, <2>1
  <3> QED BY <1>3, <1>6, <3>1, <3>2, OrderKept DEF Histories
 <2>2. CASE d = 1
  <3> DEFINE h0 == a.hist
             h == r.hist
  <3>1. /\ \A i \in DOMAIN h0 : h0[i].raw.pos \in Nat /\ h0[i].raw.pos <= Reached
        /\ \A i, l \in DOMAIN h0 : i < l => h0[i].raw.pos < h0[l].raw.pos
    BY <1>3, <2>2 DEF Histories, FirstReader, InOrder, Reached, a
  <3>2. Reached \in Nat /\ Reached' = Reached + 1 /\ unit.pos = Reached' BY <1>6, <2>2
  <3> DEFINE u == [raw |-> unit, clear |-> Unpadded(ciphers[k], unit)]
  <3>3. Listed(h0) /\ (h = h0 \/ h = Append(h0, u)) /\ u.raw = unit BY <1>7
  <3>4. readers'[1].hist = h BY <1>5, <2>2
  <3> HIDE DEF h0, h, u
  <3>5. /\ \A i \in DOMAIN h : h[i].raw.pos \in Nat /\ h[i].raw.pos <= Reached'
        /\ \A i, l \in DOMAIN h : i < l => h[i].raw.pos < h[l].raw.pos
   <4>1. CASE h = h0 BY <3>1, <3>2, <4>1
   <4>2. CASE h = Append(h0, u)
    <5> DEFINE n == Len(h0)
    <5>1. /\ n \in Nat /\ DOMAIN h0 = 1 .. n /\ DOMAIN h = 1 .. n + 1
          /\ h[n + 1] = u /\ \A i \in 1 .. n : h[i] = h0[i]
      BY <3>3, <4>2, ListedAppend, ListedFacts
    <5> HIDE DEF n
    <5>2. /\ h[n + 1].raw.pos = Reached'
          /\ \A i \in 1 .. n : h[i].raw.pos \in Nat /\ h[i].raw.pos <= Reached
          /\ \A i, l \in 1 .. n : i < l => h[i].raw.pos < h[l].raw.pos
      BY <3>1, <3>2, <3>3, <5>1
    <5>3. \A i \in 1 .. n + 1 : i \in 1 .. n \/ i = n + 1 BY <5>1
    <5>4. \A i \in DOMAIN h : h[i].raw.pos \in Nat /\ h[i].raw.pos <= Reached'
      BY <3>2, <5>1, <5>2, <5>3
    <5>5. ASSUME NEW i \in DOMAIN h, NEW l \in DOMAIN h, i < l PROVE h[i].raw.pos < h[l].raw.pos
     <6>1. i \in 1 .. n BY <5>1, <5>5
     <6>2. CASE l \in 1 .. n BY <5>2, <5>5, <6>1, <6>2
     <6>3. CASE l = n + 1 BY <3>2, <5>2, <6>1, <6>3
     <6> QED BY <5>1, <5>3, <6>2, <6>3
    <5> QED BY <5>4, <5>5
   <4> QED BY <3>3, <4>1, <4>2
  <3>6. InOrder(readers[1])' BY <3>4, <3>5 DEF InOrder, Reached
  <3> QED BY <3>6 DEF FirstReader
 <2> QED BY <2>1, <2>2
<1> QED BY <1>10, <1>11 DEF Histories

-----------------------------------------------------------------------------
(* The units of a secret key. *)

\* A read of a key's number is of a secret key whose reader is there.
LEMMA KeyedRead ==
  ASSUME Which, Now.op = "read", Script # <<>>, Now.key \in {"v3", "v4"}, calls # <<>>
  PROVE  PadsAre(IF Now.key = "v3" /\ Now.mpi THEN 0 ELSE 1)
<1>1. CASE IdleTop BY <1>1, IdleFacts DEF IdleTop, Now
<1>2. CASE \E len, t : Opening(len, t)
 <2>1. PICK len, t : Opening(len, t) BY <1>2
 <2>2. Now.op = "session_key" \/ PushingStep(Script, len, t) BY <2>1 DEF Opening
 <2> QED BY <2>2 DEF PushingStep, Now
<1>3. CASE SessionTop
 <2>1. OpenStep(Script) BY <1>3, OpenFacts DEF SessionTop
 <2> QED BY <2>1 DEF OpenStep, Now
<1>4. CASE \E k : KeyAt(k, 1) /\ KeyBegun(k, 1)
 <2>1. PICK k : KeyAt(k, 1) BY <1>4
 <2>2. KeyStep(Script, k, 1) BY <2>1 DEF KeyAt
 <2> QED BY <2>2 DEF KeyStep, Now
<1>5. CASE \E k, at : KeyAt(k, at) /\ KeyRead(k, at) /\ at # EndAt(k)
 <2>1. PICK k, at : KeyAt(k, at) /\ KeyRead(k, at) /\ at # EndAt(k) BY <1>5
 <2>2. KeyStep(Script, k, at) /\ at > 4 BY <2>1 DEF KeyAt, KeyRead
 <2>3. Now.key = (IF k.v3 THEN "v3" ELSE "v4") BY <2>1, <2>2 DEF KeyStep, Now
 <2>4. CASE k.v3
  <3>1. PadsAre(IF Now.mpi THEN 0 ELSE 1) BY <2>1, <2>4 DEF KeyRead
  <3>2. Now.key = "v3" BY <2>3, <2>4
  <3>3. CASE Now.mpi BY <3>1, <3>2, <3>3
  <3>4. CASE ~Now.mpi BY <3>1, <3>2, <3>4
  <3> QED BY <3>3, <3>4
 <2>5. CASE ~k.v3
  <3>1. PadsAre(1) BY <2>1, <2>5 DEF KeyRead
  <3>2. Now.key # "v3" BY <2>3, <2>5
  <3> QED BY <3>1, <3>2
 <2> QED BY <2>4, <2>5
<1>6. CASE Closing
 <2>1. ClosingStep(Script) \/ Now.op = "pop" BY <1>6 DEF Closing
 <2> QED BY <2>1 DEF ClosingStep, Now
<1> QED BY <1>1, <1>2, <1>3, <1>4, <1>5, <1>6 DEF Which

\* What a read of a secret key's number brings to the parser.
LEMMA ReadDoneAligned ==
  ASSUME Shapes, Scripted, Chained, ReadDone PROVE SecretKeyAligned'
<1>1. mode = "run" /\ Len(calls) = 1
      /\ got' = [units |-> Top.units, mpi |-> Now.mpi, key |-> Now.key, depth |-> Depth]
  BY DEF ReadDone
<1>2. calls # <<>>
 <2>1. Len(<<>>) = 0 BY ListedShort
 <2> QED BY <1>1, <2>1
<1>3. Which /\ Now.op = "read" /\ Script # <<>> /\ Now.mpi \in BOOLEAN BY <1>1, <1>2, CallFacts
<1>4. got'.units = calls[1].units /\ got'.mpi = Now.mpi /\ got'.key = Now.key /\ got'.depth = Depth
  BY <1>1 DEF Top
<1>5. ASSUME Depth = 1, Now.key \in {"v3", "v4"}
      PROVE  \A i \in DOMAIN calls[1].units :
               Len(calls[1].units[i].pads) = IF Now.key = "v3" /\ Now.mpi THEN 0 ELSE 1
 <2>1. PadsAre(IF Now.key = "v3" /\ Now.mpi THEN 0 ELSE 1) BY <1>2, <1>3, <1>5, KeyedRead
 <2> QED BY <1>2, <1>5, <2>1 DEF PadsAre
<1> QED BY <1>4, <1>5 DEF SecretKeyAligned

-----------------------------------------------------------------------------
(* The invariant. *)

\* It holds before the first packet.
LEMMA InitInv ==
  ASSUME DecryptInit PROVE DecryptInv
<1>1. /\ scripts = << <<Step("parse")>> >> /\ packets = 0 /\ readers = <<>> /\ calls = <<>>
      /\ source = 0 /\ ciphers = [k \in {"session", "secret"} |-> std_set_iv]
      /\ reading_v3_secret = FALSE /\ got = None /\ mode = "run"
  BY DEF DecryptInit
<1>2. Listed(scripts) /\ Len(scripts) = 1 /\ scripts[1] = <<Step("parse")>> /\ DOMAIN scripts = 1 .. 1
  BY <1>1, ListedShort, ListedFacts
<1>3. Listed(readers) /\ Len(readers) = 0 /\ DOMAIN readers = {} /\ Listed(calls) /\ DOMAIN calls = {}
  BY <1>1, ListedShort
<1>4. Shapes
 <2>1. CipherShape(std_set_iv) BY ConstantFacts DEF CipherShape, std_set_iv, ZeroIv
 <2>2. DOMAIN ciphers = {"session", "secret"} /\ \A k \in DOMAIN ciphers : CipherShape(ciphers[k])
   BY <1>1, <2>1
 <2>3. packets \in 0 .. MaxPackets /\ source \in 0 .. StreamLen BY <1>1, ConstantFacts
 <2>4. mode \in {"run", "abort", "dangling"} /\ reading_v3_secret \in BOOLEAN BY <1>1
 <2>5. \A i \in DOMAIN readers : ReaderShape(readers[i]) BY <1>3
 <2>6. \A j \in DOMAIN calls : CallShape(calls[j]) BY <1>3
 <2> QED BY <1>2, <1>3, <2>2, <2>3, <2>4, <2>5, <2>6 DEF Shapes
<1>5. Chained BY <1>1 DEF Chained
<1>6. Scripted
 <2>1. Lower BY <1>2 DEF Lower
 <2>2. BaseTop BY <1>2, <1>3 DEF BaseTop, Script, Sessions, Depth
 <2> QED BY <2>1, <2>2 DEF Scripted, OnTop
<1>7. Histories BY <1>1 DEF Histories, FirstReader, LoneReaders
<1>8. SecretKeyAligned BY <1>1 DEF SecretKeyAligned, None
<1> QED BY <1>4, <1>5, <1>6, <1>7, <1>8 DEF DecryptInv

\* The parser's units are as they were, in every step but one.
LEMMA GotSame ==
  ASSUME SecretKeyAligned, got' = got PROVE SecretKeyAligned'
BY DEF SecretKeyAligned

\* The parser's own steps keep the invariant.
LEMMA ParserSteps ==
  ASSUME DecryptInv,
         \/ ParsePacket \/ ParseEnd \/ HandlerEnd \/ SetVersion \/ SecretRead \/ SetKey
         \/ LeaveReader \/ ops_reader_push_decrypt \/ ops_reader_pop_decrypt \/ Resync
  PROVE  DecryptInv'
<1>1. Shapes /\ Chained /\ Scripted /\ Histories /\ SecretKeyAligned BY DEF DecryptInv
<1>2. CASE ParsePacket
 <2>1. Shapes' /\ Chained' /\ got' = got BY <1>1, <1>2, HandlerShapes
 <2>2. Scripted' /\ Histories' /\ SecretKeyAligned'
   BY <1>1, <1>2, <2>1, ParsePacketScripts, HandlerKept, GotSame
 <2> QED BY <2>1, <2>2 DEF DecryptInv
<1>3. CASE ParseEnd
 <2>1. Shapes' /\ Chained' /\ got' = got BY <1>1, <1>3, HandlerShapes
 <2>2. Scripted' /\ Histories' /\ SecretKeyAligned'
   BY <1>1, <1>3, <2>1, ParseEndScripts, HandlerKept, GotSame
 <2> QED BY <2>1, <2>2 DEF DecryptInv
<1>4. CASE HandlerEnd
 <2>1. Shapes' /\ Chained' /\ got' = got BY <1>1, <1>4, HandlerShapes
 <2>2. Scripted' /\ Histories' /\ SecretKeyAligned'
   BY <1>1, <1>4, <2>1, HandlerEndScripts, HandlerKept, GotSame
 <2> QED BY <2>1, <2>2 DEF DecryptInv
<1>5. CASE SetVersion
 <2>1. Shapes' /\ Chained' /\ got' = got BY <1>1, <1>5, HandlerShapes
 <2>2. Scripted' /\ Histories' /\ SecretKeyAligned'
   BY <1>1, <1>5, <2>1, SetVersionScripts, HandlerKept, GotSame
 <2> QED BY <2>1, <2>2 DEF DecryptInv
<1>6. CASE SecretRead
 <2>1. Shapes' /\ Chained' /\ got' = got BY <1>1, <1>6, HandlerShapes
 <2>2. Scripted' /\ Histories' /\ SecretKeyAligned'
   BY <1>1, <1>6, <2>1, SecretReadScripts, HandlerKept, GotSame
 <2> QED BY <2>1, <2>2 DEF DecryptInv
<1>7. CASE SetKey
 <2>1. Shapes' /\ Chained' /\ got' = got BY <1>1, <1>7, SetKeyFacts
 <2>2. Scripted' /\ Histories' /\ SecretKeyAligned'
   BY <1>1, <1>7, <2>1, SetKeyScripts, SetKeyKept, GotSame
 <2> QED BY <2>1, <2>2 DEF DecryptInv
<1>8. CASE LeaveReader
 <2>1. Shapes' /\ Chained' /\ got' = got BY <1>1, <1>8, HandlerShapes
 <2>2. Scripted' /\ Histories' /\ SecretKeyAligned'
   BY <1>1, <1>8, <2>1, LeaveReaderScripts, HandlerKept, GotSame
 <2> QED BY <2>1, <2>2 DEF DecryptInv
<1>9. CASE ops_reader_push_decrypt
 <2>1. Shapes' /\ Chained' /\ got' = got BY <1>1, <1>9, PushShapes
 <2>2. Scripted' /\ Histories' /\ SecretKeyAligned'
   BY <1>1, <1>9, <2>1, PushScripts, PushKept, GotSame
 <2> QED BY <2>1, <2>2 DEF DecryptInv
<1>10. CASE ops_reader_pop_decrypt
 <2>1. Shapes' /\ Chained' /\ got' = got BY <1>1, <1>10, PopShapes
 <2>2. Scripted' /\ Histories' /\ SecretKeyAligned'
   BY <1>1, <1>10, <2>1, PopScripts, PopKept, GotSame
 <2> QED BY <2>1, <2>2 DEF DecryptInv
<1>11. CASE Resync
 <2>1. Shapes' /\ Chained' /\ got' = got BY <1>1, <1>11, ResyncShapes
 <2>2. Scripted' /\ Histories' /\ SecretKeyAligned'
   BY <1>1, <1>11, <2>1, ResyncScripts, ResyncKept, GotSame
 <2> QED BY <2>1, <2>2 DEF DecryptInv
<1> QED BY <1>2, <1>3, <1>4, <1>5, <1>6, <1>7, <1>8, <1>9, <1>10, <1>11

\* So do the steps of a read.
LEMMA ReaderSteps ==
  ASSUME DecryptInv,
         \/ Read \/ Enter \/ FromBuffer \/ Fetch \/ FromStream
         \/ ops_decrypt_se_ip \/ Fetched \/ ReadDone \/ ReadFails
  PROVE  DecryptInv'
<1>1. Shapes /\ Chained /\ Scripted /\ Histories /\ SecretKeyAligned BY DEF DecryptInv
<1>2. CASE Read
 <2>1. Shapes' /\ Chained' /\ Scripted' /\ Histories'
   BY <1>1, <1>2, ReadShapes, ReadScripts, ReadKept
 <2>2. SecretKeyAligned' BY <1>1, <1>2, GotSame DEF Read
 <2> QED BY <2>1, <2>2 DEF DecryptInv
<1>3. CASE Enter
 <2>1. Shapes' /\ Chained' /\ Scripted' /\ Histories'
   BY <1>1, <1>3, EnterShapes, EnterSteps, EnterKept
 <2>2. got' = got BY <1>3 DEF Enter
 <2> QED BY <1>1, <2>1, <2>2, GotSame DEF DecryptInv
<1>4. CASE FromBuffer
 <2>1. Shapes' /\ Chained' /\ Scripted' /\ Histories'
   BY <1>1, <1>4, FromBufferShapes, FromBufferSteps, FromBufferKept
 <2>2. got' = got BY <1>4 DEF FromBuffer
 <2> QED BY <1>1, <2>1, <2>2, GotSame DEF DecryptInv
<1>5. CASE Fetch
 <2>1. Shapes' /\ Chained' /\ Scripted' /\ Histories' BY <1>1, <1>5, FetchSteps, FetchKept
 <2>2. got' = got BY <1>5 DEF Fetch
 <2> QED BY <1>1, <2>1, <2>2, GotSame DEF DecryptInv
<1>6. CASE FromStream
 <2>1. Shapes' /\ Chained' /\ Scripted' /\ Histories'
   BY <1>1, <1>6, FromStreamSteps, FromStreamKept
 <2>2. got' = got BY <1>6 DEF FromStream
 <2> QED BY <1>1, <2>1, <2>2, GotSame DEF DecryptInv
<1>7. CASE ops_decrypt_se_ip
 <2>1. Shapes' /\ Chained' /\ Scripted' /\ Histories'
   BY <1>1, <1>7, OneUnitShapes, OneUnitSteps, OneUnitKept
 <2>2. got' = got BY <1>7 DEF ops_decrypt_se_ip
 <2> QED BY <1>1, <2>1, <2>2, GotSame DEF DecryptInv
<1>8. CASE Fetched
 <2>1. Shapes' /\ Chained' /\ Scripted' /\ Histories' BY <1>1, <1>8, FetchedSteps, FetchKept
 <2>2. got' = got BY <1>8 DEF Fetched
 <2> QED BY <1>1, <2>1, <2>2, GotSame DEF DecryptInv
<1>9. CASE ReadDone
 <2>1. Shapes' /\ Chained' /\ Scripted' /\ Histories'
   BY <1>1, <1>9, ReadEndsShapes, ReadDoneScripts, ReadKept
 <2> QED BY <1>1, <1>9, <2>1, ReadDoneAligned DEF DecryptInv
<1>10. CASE ReadFails
 <2>1. Shapes' /\ Chained' /\ Scripted' /\ Histories'
   BY <1>1, <1>10, ReadEndsShapes, ReadFailsScripts, ReadKept
 <2>2. got' = got BY <1>10 DEF ReadFails
 <2> QED BY <1>1, <2>1, <2>2, GotSame DEF DecryptInv
<1> QED BY <1>2, <1>3, <1>4, <1>5, <1>6, <1>7, <1>8, <1>9, <1>10

\* Every step keeps it.
LEMMA NextInv ==
  ASSUME DecryptInv, [DecryptNext]_decryptVars PROVE DecryptInv'
<1>1. CASE DecryptNext BY <1>1, ParserSteps, ReaderSteps DEF DecryptNext
<1>2. CASE UNCHANGED decryptVars
 <2>1. /\ scripts' = scripts /\ packets' = packets /\ readers' = readers /\ ciphers' = ciphers
       /\ calls' = calls /\ source' = source /\ reading_v3_secret' = reading_v3_secret
       /\ got' = got /\ mode' = mode
   BY <1>2 DEF decryptVars
 <2>2. Shapes' = Shapes BY <2>1 DEF Shapes
 <2>3. Chained' = Chained BY <2>1 DEF Chained, AtBottom, Top, Depth, Now, Script
 <2>4. Scripted' = Scripted
   BY <2>1 DEF Scripted, Lower, OnTop, BaseTop, IdleTop, ContainerTop, SessionTop, SecretTop,
      ClosingTop, KeyBegun, KeyRead, SecretOpen, Enough, Sessions, Sparing, InFlight, Accounted,
      PadsAre, Script, Now, Depth, Reader
 <2>5. Histories' = Histories BY <2>1 DEF Histories, FirstReader, LoneReaders, InOrder, Pending, Top
 <2>6. SecretKeyAligned' BY <2>1, GotSame DEF DecryptInv
 <2> QED BY <2>2, <2>3, <2>4, <2>5, <2>6 DEF DecryptInv
<1> QED BY <1>1, <1>2

-----------------------------------------------------------------------------
(* What it is for. *)

\* The types.
LEMMA InvTyped ==
  ASSUME DecryptInv PROVE DecryptTypeOK
<1>1. Shapes /\ Chained BY DEF DecryptInv
<1>2. \A k \in DOMAIN ciphers :
        ciphers[k].num \in 0 .. BlockSize - 1 /\ DOMAIN ciphers[k].iv = Cells
  BY <1>1 DEF Shapes, CipherShape
<1>3. ASSUME NEW i \in DOMAIN readers
      PROVE  /\ readers[i].crypt \in DOMAIN ciphers /\ readers[i].left \in Int
             /\ Len(readers[i].decrypted) \in 0 .. BufferSize
             /\ readers[i].prev_read_was_plain \in BOOLEAN
 <2> DEFINE r == readers[i]
 <2>1. /\ r.crypt \in {"session", "secret"} /\ r.left \in Nat /\ Listed(r.decrypted)
       /\ Len(r.decrypted) <= BufferSize /\ r.prev_read_was_plain \in BOOLEAN
   BY <1>1 DEF Shapes, ReaderShape
 <2>2. Len(r.decrypted) \in Nat
  <3> HIDE DEF r
  <3> QED BY <2>1, ListedFacts
 <2> HIDE DEF r
 <2>3. Len(r.decrypted) \in 0 .. BufferSize BY <2>1, <2>2, ConstantFacts
 <2>4. r.crypt \in DOMAIN ciphers BY <1>1, <2>1 DEF Shapes
 <2> QED BY <2>1, <2>3, <2>4 DEF r
<1>4. ASSUME NEW i \in DOMAIN calls PROVE calls[i].depth \in 0 .. Len(readers)
 <2>1. Listed(calls) /\ Listed(readers) BY <1>1 DEF Shapes
 <2>2. DOMAIN calls = 1 .. Len(calls) /\ Len(calls) \in Nat /\ Depth \in Nat
   BY <2>1, ListedFacts DEF Depth
 <2>3. calls # <<>> BY <2>1, <2>2, ListedFacts
 <2>4. Len(calls) <= Depth + 1 /\ calls[i].depth = Depth + 1 - i BY <1>1, <2>3 DEF Chained
 <2> QED BY <2>2, <2>4 DEF Depth
<1>5. /\ packets \in 0 .. MaxPackets /\ source \in 0 .. StreamLen
      /\ mode \in {"run", "abort", "dangling"} /\ reading_v3_secret \in BOOLEAN
  BY <1>1 DEF Shapes
<1> QED BY <1>2, <1>3, <1>4, <1>5 DEF DecryptTypeOK

\* What is decrypted.
LEMMA InvDecrypted ==
  ASSUME DecryptInv PROVE DataDecrypted
<1>1. Shapes /\ Scripted /\ Histories /\ SecretKeyAligned BY DEF DecryptInv
<1>2. StaysInPacket
 <2>1. \A i \in DOMAIN readers : readers[i].left \in Nat BY <1>1 DEF Shapes, ReaderShape
 <2> QED BY <2>1 DEF StaysInPacket
<1>3. NothingReadAhead
 <2>1. Doing("resync") => Reader.decrypted = <<>> BY <1>1, ResyncFacts
 <2>2. ASSUME Doing("pop"), Len(Script) > 1
       PROVE  Reader.decrypted = <<>> /\ Reader.left = 2
  <3>1. \/ Script = <<Step("pop")>>
        \/ Reader.decrypted = <<>> /\ Reader.left = 2
    BY <1>1, <2>2, PopFacts
  <3>2. Len(<<Step("pop")>>) = 1 BY ListedShort
  <3> QED BY <2>2, <3>1, <3>2
 <2> QED BY <2>1, <2>2 DEF NothingReadAhead
<1>4. PadsRight BY <1>1 DEF Histories, LoneReaders, InStep, PadsRight
<1>5. TakenInOrder BY <1>1 DEF Histories, FirstReader, InOrder, TakenInOrder
<1> QED BY <1>1, <1>2, <1>3, <1>4, <1>5 DEF DataDecrypted, ReadsOwnData, DecryptedRight

\* The invariant of the decrypting readers: the reads in progress fit into each
\* other and into the packets, the handlers go on with what is left of them, the
\* first reader has taken the stream in order, and every reader that is alone with
\* its cipher is in step with it, from one resynchronisation to the next.
THEOREM DecryptInvariant == DecryptSpec => []DecryptInv
<1>1. DecryptInit => DecryptInv BY InitInv
<1>2. DecryptInv /\ [DecryptNext]_decryptVars => DecryptInv' BY NextInv
<1> QED BY <1>1, <1>2, PTL DEF DecryptSpec

\* Everything has its type: the register's offset stays in the register and the
\* buffer in its bounds, whatever the packets and their sizes.
THEOREM DecryptAlwaysTyped == DecryptSpec => []DecryptTypeOK
<1>1. DecryptInv => DecryptTypeOK BY InvTyped
<1> QED BY <1>1, DecryptInvariant, PTL

\* A reader takes what is its own packet's, nothing ahead where that would be
\* wrong: the numbers of a secret key of the stream are decrypted and their counts
\* are, or are copied, as its version asks for; the first reader takes the stream in
\* order; and a reader alone with its cipher takes off every unit the pad of its
\* place, before and after any resynchronisation.  What a resynchronisation in the
\* middle of a block begins with is the register as the code leaves it, not as
\* OpenPGP has it (PadsRight).
THEOREM DataAlwaysDecrypted == DecryptSpec => []DataDecrypted
<1>1. DecryptInv => DataDecrypted BY InvDecrypted
<1> QED BY <1>1, DecryptInvariant, PTL
=============================================================================
