------------------------- MODULE RegionReaderProofs -------------------------
(***************************************************************************)
(* Proofs about RegionReader for every stream length, request size, region *)
(* size and read cap.  ReaderInv is inductive; the safety properties the   *)
(* runs check are its conjuncts.                                           *)
(***************************************************************************)
EXTENDS RegionReader, TLAPS

USE ReaderConstants DEF MaxDepth, Level

-----------------------------------------------------------------------------
(* The chain of regions. *)

\* A step that leaves the chain alone keeps everything that is said of it.
LEMMA SameRegions ==
  ASSUME RegionShape, ChainAccounting, LengthsNested, BoundedOverrun,
         UNCHANGED regionVars
  PROVE  RegionShape' /\ ChainAccounting' /\ LengthsNested' /\ BoundedOverrun'
BY DEF regionVars, RegionShape, ChainAccounting, LengthsNested, BoundedOverrun

\* The arithmetic behind BoundedOverrun: when the innermost region stays
\* inside its length, the chain accounting and the nesting of the lengths
\* bound what the parents were charged.
LEMMA InnermostInside ==
  ASSUME TypeOK', RegionShape', ChainAccounting', LengthsNested',
         depth' > 0,
         indeterminate'[depth'] \/ length_read'[depth'] <= length'[depth']
  PROVE  BoundedOverrun'
<1>1. depth' \in 1 .. 3 BY DEF TypeOK
<1>2. \A i \in 1 .. 3 : /\ length'[i] \in Nat /\ length_read'[i] \in Nat
                        /\ base'[i] \in Nat /\ indeterminate'[i] \in BOOLEAN
  BY DEF TypeOK
<1>3. CASE depth' = 1 BY <1>2, <1>3 DEF BoundedOverrun
<1>4. CASE depth' = 2
 <2>1. ~indeterminate'[2] /\ length_read'[2] <= length'[2] BY <1>4 DEF RegionShape
 <2>2. ~indeterminate'[1] => length_read'[1] <= 2 * length'[1]
   BY <1>2, <1>4, <2>1 DEF RegionShape, ChainAccounting, LengthsNested
 <2> QED BY <1>2, <1>4, <2>1, <2>2 DEF BoundedOverrun
<1>5. CASE depth' = 3
 <2>1. ~indeterminate'[3] /\ length_read'[3] <= length'[3] BY <1>5 DEF RegionShape
 <2>2. ~indeterminate'[2] BY <1>5 DEF RegionShape
 <2>3. length_read'[2] <= 2 * length'[2]
   BY <1>2, <1>5, <2>1, <2>2 DEF RegionShape, ChainAccounting, LengthsNested
 <2>4. ~indeterminate'[1] => length_read'[1] <= 3 * length'[1]
  <3>1. ~indeterminate'[1] => base'[2] <= length'[1] BY <1>5 DEF RegionShape
  <3>2. length'[2] <= length'[1] BY <1>5 DEF LengthsNested
  <3>3. length_read'[1] = base'[2] + length_read'[2] BY <1>5 DEF ChainAccounting
  <3> QED BY <1>2, <2>3, <3>1, <3>2, <3>3
 <2> QED BY <1>2, <1>5, <2>1, <2>3, <2>4 DEF BoundedOverrun
<1> QED BY <1>1, <1>3, <1>4, <1>5

-----------------------------------------------------------------------------
(* The read in progress and the accumulated data. *)

\* The types of the variables of the read in progress.
CallTypes ==
  /\ pc \in {"idle", "full", "sub"} /\ limited \in BOOLEAN
  /\ want \in Nat /\ got \in Nat /\ lim \in 0 .. IntMax /\ cur \in Nat

\* A read that returns leaves them well typed.
LEMMA ReturnedTypes ==
  ASSUME NEW w \in Nat, Returned(w) PROVE CallTypes'
<1>1. limited' \in BOOLEAN BY DEF Returned
<1>2. /\ pc' \in {"idle", "full", "sub"} /\ lim' \in 0 .. IntMax
      /\ want' \in Nat /\ got' \in Nat /\ cur' \in Nat
  BY DEF Returned
<1> QED BY <1>1, <1>2 DEF CallTypes

\* The bytes that are accumulated come from inside the destination buffer.
LEMMA AccumulatedTyped ==
  ASSUME TypeOK, CallShape, SubFinished, Accumulate(cur)
  PROVE  accumulated' \in [Index -> 0 .. StreamLen]
<1>1. ASSUME NEW k \in alength .. alength + cur - 1 PROVE got + (k - alength) \in Slot
 <2>1. /\ k \in Int /\ alength \in Nat /\ cur \in Nat /\ got \in Nat
       /\ want \in Nat /\ lim \in Nat
   BY DEF TypeOK
 <2>2. got + cur <= MaxRequest BY <2>1 DEF CallShape, SubFinished
 <2> QED BY <1>1, <2>1, <2>2 DEF Slot
<1>2. ASSUME NEW k \in Index, k \in alength .. alength + cur - 1
      PROVE  dest[got + (k - alength)] \in 0 .. StreamLen
  BY <1>1, <1>2 DEF TypeOK
<1>3. CASE accumulate BY <1>2, <1>3 DEF TypeOK, Accumulate
<1>4. CASE ~accumulate BY <1>4 DEF TypeOK, Accumulate
<1> QED BY <1>3, <1>4

\* What is accumulated when sub_base_read returns continues the packet: the
\* bytes of the destination are the ones that follow those accumulated before.
LEMMA AccumulatedInOrder ==
  ASSUME TypeOK, CallShape, PositionAccounting, NothingLostSilently,
         AccumulatedIsPacket, DestInOrder,
         SubFinished, Accumulate(cur), start' = start
  PROVE  AccumulatedIsPacket'
<1> SUFFICES ASSUME accumulate
             PROVE  /\ alength' <= asize'
                    /\ \A k \in Index : k < alength' =>
                         accumulated'[k] = start' + 1 + k
  BY DEF AccumulatedIsPacket, Accumulate
<1>1. /\ alength \in Nat /\ asize \in Nat /\ start \in Nat /\ got \in Nat
      /\ cur \in Nat /\ want \in Nat /\ lim \in Nat /\ taken \in Nat
  BY DEF TypeOK
<1>2. alength' = alength + cur BY DEF Accumulate
<1>3. alength' <= asize' BY <1>1 DEF Accumulate, Grown, AccumulatedIsPacket
<1>4. got + cur <= MaxRequest /\ taken = start + alength + cur
  BY <1>1 DEF CallShape, SubFinished, PositionAccounting, NothingLostSilently, TypeOK
<1>5. ASSUME NEW k \in Index, k < alength' PROVE accumulated'[k] = start + 1 + k
 <2>1. k \in Nat BY DEF Index
 <2>2. CASE k < alength
  <3>1. accumulated'[k] = accumulated[k] BY <1>1, <2>1, <2>2 DEF Accumulate
  <3> QED BY <2>2, <3>1 DEF AccumulatedIsPacket
 <2>3. CASE k >= alength
  <3>1. accumulated'[k] = dest[got + (k - alength)]
    BY <1>1, <1>2, <1>5, <2>1, <2>3 DEF Accumulate
  <3>2. got + (k - alength) \in Slot /\ got + (k - alength) < got + cur
    BY <1>1, <1>2, <1>4, <1>5, <2>1, <2>3 DEF Slot
  <3>3. dest[got + (k - alength)]
          = taken - (got + cur) + 1 + (got + (k - alength))
    BY <3>2 DEF DestInOrder, SubFinished
  <3> QED BY <1>1, <1>4, <2>1, <3>1, <3>3
 <2> QED BY <1>1, <2>1, <2>2, <2>3
<1> QED BY <1>3, <1>5

\* ops_limited_read's loop over the parents keeps the types of the chain.
LEMMA ChargeFacts ==
  ASSUME TypeOK, CallShape, limited, pc # "idle", Charge(got)
  PROVE  /\ length_read' \in [Level -> Nat] /\ last_read' \in [Level -> Nat]
         /\ depth \in 1 .. 3 /\ last_read'[depth] = got
         /\ length_read'[depth] = length_read[depth] + got
<1>1. depth \in 1 .. 3 /\ got \in Nat BY DEF TypeOK, CallShape
<1>2. \A i \in 1 .. 3 : length_read[i] \in Nat /\ length_read[i] + got \in Nat BY <1>1 DEF TypeOK
<1>3. length_read' \in [Level -> Nat] BY <1>2 DEF Charge
<1>4. last_read' \in [Level -> Nat] /\ last_read'[depth] = got BY <1>1 DEF TypeOK, Charge
<1>5. length_read'[depth] = length_read[depth] + got BY <1>1 DEF Charge
<1> QED BY <1>1, <1>3, <1>4, <1>5

-----------------------------------------------------------------------------
(* One lemma per action: it preserves every conjunct of ReaderInv. *)

\* base_read only starts a read.
LEMMA Step_base_read ==
  ASSUME ReaderInv, base_read PROVE ReaderInv'
<1>0. /\ TypeOK /\ CallShape /\ ReadFits /\ RegionShape
      /\ ChainAccounting /\ LengthsNested /\ BoundedOverrun
      /\ PositionAccounting /\ NothingLostSilently
      /\ AccumulatedIsPacket /\ DestInOrder /\ LastReadExact
  BY DEF ReaderInv
<1>1. TypeOK'
 <2>1. UNCHANGED <<taken, readerVars, regionVars, start, res, errors, lossVars>> BY DEF base_read
 <2>2. CallTypes'
  <3>1. limited' \in BOOLEAN BY DEF base_read
  <3>2. /\ pc' \in {"idle", "full", "sub"} /\ lim' \in 0 .. IntMax
        /\ want' \in Nat /\ got' \in Nat /\ cur' \in Nat
    BY DEF base_read, Minimum
  <3> QED BY <3>1, <3>2 DEF CallTypes
 <2>3. dest' \in [Slot -> 0 .. StreamLen] BY DEF base_read, Fresh
 <2> QED BY <1>0, <2>1, <2>2, <2>3 DEF TypeOK, CallTypes, readerVars, regionVars, lossVars
<1>2. CallShape'
  BY <1>0 DEF TypeOK, CallShape, base_read, readerVars, regionVars, lossVars, Minimum, Fresh
<1>3. ReadFits'
  BY <1>0 DEF TypeOK, CallShape, ReadFits, base_read, readerVars, regionVars, lossVars, Minimum,
     Fresh
<1>4. RegionShape' /\ ChainAccounting' /\ LengthsNested' /\ BoundedOverrun'
  BY <1>0, SameRegions DEF base_read
<1>5. PositionAccounting'
  BY <1>0 DEF TypeOK, CallShape, PositionAccounting, base_read, readerVars, regionVars, lossVars,
     Minimum, Fresh
<1>6. NothingLostSilently'
  BY <1>0 DEF TypeOK, NothingLostSilently, CallShape, base_read, readerVars, regionVars, lossVars,
     Minimum, Fresh
<1>7. AccumulatedIsPacket'
  BY <1>0 DEF AccumulatedIsPacket, base_read, readerVars, regionVars, lossVars, Minimum, Fresh
<1>8. DestInOrder'
 <2>1. got' = 0 /\ cur' = 0 BY DEF base_read
 <2> QED BY <2>1 DEF DestInOrder, Slot
<1>9. LastReadExact'
  BY <1>0 DEF LastReadExact, CallShape, base_read, readerVars, regionVars, lossVars, Minimum,
     Fresh
<1> QED BY <1>1, <1>2, <1>3, <1>4, <1>5, <1>6, <1>7, <1>8, <1>9 DEF ReaderInv

\* A read past the innermost region fails before it begins.
LEMMA Step_LimitedReadRefused ==
  ASSUME ReaderInv, NEW len \in 0 .. MaxRequest, LimitedReadRefused(len) PROVE ReaderInv'
<1>0. /\ TypeOK /\ CallShape /\ ReadFits /\ RegionShape
      /\ ChainAccounting /\ LengthsNested /\ BoundedOverrun
      /\ PositionAccounting /\ NothingLostSilently
      /\ AccumulatedIsPacket /\ DestInOrder /\ LastReadExact
  BY DEF ReaderInv
<1>1. TypeOK'
 <2>1. UNCHANGED <<taken, readerVars, regionVars, start, dest, lossVars>>
   BY DEF LimitedReadRefused
 <2>2. CallTypes' BY <1>0, ReturnedTypes DEF LimitedReadRefused
 <2>3. errors' \in BOOLEAN BY DEF LimitedReadRefused
 <2>4. res' \in BOOLEAN BY DEF LimitedReadRefused
 <2> QED BY <1>0, <2>1, <2>2, <2>3, <2>4 DEF TypeOK, CallTypes, readerVars, regionVars, lossVars
<1>2. CallShape'
  BY <1>0 DEF TypeOK, CallShape, LimitedReadRefused, Returned, readerVars, regionVars, lossVars,
     OverRegion
<1>3. ReadFits'
  BY <1>0 DEF TypeOK, CallShape, ReadFits, LimitedReadRefused, Returned, readerVars, regionVars,
     lossVars, OverRegion
<1>4. RegionShape' /\ ChainAccounting' /\ LengthsNested' /\ BoundedOverrun'
  BY <1>0, SameRegions DEF LimitedReadRefused
<1>5. PositionAccounting'
  BY <1>0 DEF TypeOK, CallShape, PositionAccounting, LimitedReadRefused, Returned, readerVars,
     regionVars, lossVars, OverRegion
<1>6. NothingLostSilently'
  BY <1>0 DEF TypeOK, NothingLostSilently, CallShape, LimitedReadRefused, Returned, readerVars,
     regionVars, lossVars, OverRegion
<1>7. AccumulatedIsPacket'
  BY <1>0 DEF AccumulatedIsPacket, LimitedReadRefused, Returned, readerVars, regionVars, lossVars,
     OverRegion
<1>8. DestInOrder'
  BY <1>0 DEF DestInOrder, LimitedReadRefused, Returned, readerVars, regionVars, lossVars,
     OverRegion
<1>9. LastReadExact'
  BY <1>0 DEF LastReadExact, CallShape, LimitedReadRefused, Returned, readerVars, regionVars,
     lossVars, OverRegion
<1> QED BY <1>1, <1>2, <1>3, <1>4, <1>5, <1>6, <1>7, <1>8, <1>9 DEF ReaderInv

\* A read inside the innermost region begins.
LEMMA Step_ops_limited_read ==
  ASSUME ReaderInv, NEW len \in 0 .. MaxRequest, ops_limited_read(len) PROVE ReaderInv'
<1>0. /\ TypeOK /\ CallShape /\ ReadFits /\ RegionShape
      /\ ChainAccounting /\ LengthsNested /\ BoundedOverrun
      /\ PositionAccounting /\ NothingLostSilently
      /\ AccumulatedIsPacket /\ DestInOrder /\ LastReadExact
  BY DEF ReaderInv
<1>1. TypeOK'
  BY <1>0 DEF TypeOK, ops_limited_read, readerVars, regionVars, lossVars, Fresh, OverRegion
<1>2. CallShape'
  BY <1>0 DEF TypeOK, CallShape, ops_limited_read, readerVars, regionVars, lossVars, Fresh,
     OverRegion
<1>3. ReadFits'
  BY <1>0 DEF TypeOK, CallShape, ReadFits, ops_limited_read, readerVars, regionVars, lossVars,
     Fresh, OverRegion
<1>4. RegionShape' /\ ChainAccounting' /\ LengthsNested' /\ BoundedOverrun'
  BY <1>0, SameRegions DEF ops_limited_read
<1>5. PositionAccounting'
  BY <1>0 DEF TypeOK, CallShape, PositionAccounting, ops_limited_read, readerVars, regionVars,
     lossVars, Fresh, OverRegion
<1>6. NothingLostSilently'
  BY <1>0 DEF TypeOK, NothingLostSilently, CallShape, ops_limited_read, readerVars, regionVars,
     lossVars, Fresh, OverRegion
<1>7. AccumulatedIsPacket'
  BY <1>0 DEF AccumulatedIsPacket, ops_limited_read, readerVars, regionVars, lossVars, Fresh,
     OverRegion
<1>8. DestInOrder'
 <2>1. got' = 0 /\ cur' = 0 BY DEF ops_limited_read
 <2> QED BY <2>1 DEF DestInOrder, Slot
<1>9. LastReadExact'
  BY <1>0 DEF LastReadExact, CallShape, ops_limited_read, readerVars, regionVars, lossVars, Fresh,
     OverRegion
<1> QED BY <1>1, <1>2, <1>3, <1>4, <1>5, <1>6, <1>7, <1>8, <1>9 DEF ReaderInv

\* full_read starts the next sub_base_read.
LEMMA Step_full_read ==
  ASSUME ReaderInv, full_read PROVE ReaderInv'
<1>0. /\ TypeOK /\ CallShape /\ ReadFits /\ RegionShape
      /\ ChainAccounting /\ LengthsNested /\ BoundedOverrun
      /\ PositionAccounting /\ NothingLostSilently
      /\ AccumulatedIsPacket /\ DestInOrder /\ LastReadExact
  BY DEF ReaderInv
<1>1. TypeOK' BY <1>0 DEF TypeOK, full_read, readerVars, regionVars, lossVars, Minimum
<1>2. CallShape'
  BY <1>0 DEF TypeOK, CallShape, full_read, readerVars, regionVars, lossVars, Minimum
<1>3. ReadFits'
  BY <1>0 DEF TypeOK, CallShape, ReadFits, full_read, readerVars, regionVars, lossVars, Minimum
<1>4. RegionShape' /\ ChainAccounting' /\ LengthsNested' /\ BoundedOverrun'
  BY <1>0, SameRegions DEF full_read
<1>5. PositionAccounting'
  BY <1>0 DEF TypeOK, CallShape, PositionAccounting, full_read, readerVars, regionVars, lossVars,
     Minimum
<1>6. NothingLostSilently'
  BY <1>0 DEF TypeOK, NothingLostSilently, CallShape, full_read, readerVars, regionVars, lossVars,
     Minimum
<1>7. AccumulatedIsPacket'
  BY <1>0 DEF AccumulatedIsPacket, full_read, readerVars, regionVars, lossVars, Minimum
<1>8. DestInOrder'
 <2>1. got' = got /\ cur' = 0 /\ cur = 0 /\ UNCHANGED <<dest, taken>>
   BY <1>0 DEF full_read, CallShape
 <2> QED BY <1>0, <2>1 DEF full_read, DestInOrder
<1>9. LastReadExact'
  BY <1>0 DEF LastReadExact, CallShape, full_read, readerVars, regionVars, lossVars, Minimum
<1> QED BY <1>1, <1>2, <1>3, <1>4, <1>5, <1>6, <1>7, <1>8, <1>9 DEF ReaderInv

\* The reader's answer extends the bytes of the destination.
LEMMA Step_reader ==
  ASSUME ReaderInv, NEW r \in 1 .. MaxRequest, reader(r) PROVE ReaderInv'
<1>0. /\ TypeOK /\ CallShape /\ ReadFits /\ RegionShape
      /\ ChainAccounting /\ LengthsNested /\ BoundedOverrun
      /\ PositionAccounting /\ NothingLostSilently
      /\ AccumulatedIsPacket /\ DestInOrder /\ LastReadExact
  BY DEF ReaderInv
<1>1. TypeOK' BY <1>0 DEF TypeOK, reader, readerVars, regionVars, lossVars
<1>2. CallShape' BY <1>0 DEF TypeOK, CallShape, reader, readerVars, regionVars, lossVars
<1>3. ReadFits' BY <1>0 DEF TypeOK, CallShape, ReadFits, reader, readerVars, regionVars, lossVars
<1>4. RegionShape' /\ ChainAccounting' /\ LengthsNested' /\ BoundedOverrun'
  BY <1>0, SameRegions DEF reader
<1>5. PositionAccounting'
  BY <1>0 DEF TypeOK, CallShape, PositionAccounting, reader, readerVars, regionVars, lossVars
<1>6. NothingLostSilently'
  BY <1>0 DEF TypeOK, NothingLostSilently, CallShape, reader, readerVars, regionVars, lossVars
<1>7. AccumulatedIsPacket'
  BY <1>0 DEF AccumulatedIsPacket, reader, readerVars, regionVars, lossVars
<1>8. DestInOrder'
 <2> SUFFICES ASSUME NEW k \in Slot, k < got' + cur'
              PROVE  dest'[k] = taken' - (got' + cur') + 1 + k
   BY DEF DestInOrder
 <2>1. got' = got /\ cur' = cur + r /\ taken' = taken + r /\ pc # "idle" BY DEF reader
 <2>2. k \in Nat /\ got \in Nat /\ cur \in Nat /\ taken \in Nat BY <1>0 DEF TypeOK, Slot
 <2>3. CASE k < got + cur
  <3>1. dest'[k] = dest[k] BY <2>2, <2>3 DEF reader
  <3>2. dest[k] = taken - (got + cur) + 1 + k BY <1>0, <2>1, <2>3 DEF DestInOrder
  <3> QED BY <2>1, <2>2, <3>1, <3>2
 <2>4. CASE k >= got + cur
  <3>1. dest'[k] = taken + 1 + (k - (got + cur)) BY <2>1, <2>2, <2>4 DEF reader
  <3> QED BY <2>1, <2>2, <3>1
 <2> QED BY <2>2, <2>3, <2>4
<1>9. LastReadExact'
  BY <1>0 DEF LastReadExact, CallShape, reader, readerVars, regionVars, lossVars
<1> QED BY <1>1, <1>2, <1>3, <1>4, <1>5, <1>6, <1>7, <1>8, <1>9 DEF ReaderInv

\* A failing reader ends the read with an error.
LEMMA Step_ReaderFails ==
  ASSUME ReaderInv, ReaderFails PROVE ReaderInv'
<1>0. /\ TypeOK /\ CallShape /\ ReadFits /\ RegionShape
      /\ ChainAccounting /\ LengthsNested /\ BoundedOverrun
      /\ PositionAccounting /\ NothingLostSilently
      /\ AccumulatedIsPacket /\ DestInOrder /\ LastReadExact
  BY DEF ReaderInv
<1>1. TypeOK'
 <2>1. UNCHANGED <<taken, readerVars, regionVars, start, dest>> BY DEF ReaderFails
 <2>2. CallTypes' BY <1>0, ReturnedTypes DEF ReaderFails
 <2>3. errors' \in BOOLEAN BY DEF ReaderFails
 <2>4. res' \in BOOLEAN BY DEF ReaderFails
 <2>5. dropped' \in Nat /\ uncharged' \in Nat BY <1>0 DEF ReaderFails, TypeOK
 <2> QED
   BY <1>0, <2>1, <2>2, <2>3, <2>4, <2>5 DEF TypeOK, CallTypes, readerVars, regionVars, lossVars
<1>2. CallShape' BY <1>0 DEF TypeOK, CallShape, ReaderFails, Returned, readerVars, regionVars
<1>3. ReadFits'
  BY <1>0 DEF TypeOK, CallShape, ReadFits, ReaderFails, Returned, readerVars, regionVars
<1>4. RegionShape' /\ ChainAccounting' /\ LengthsNested' /\ BoundedOverrun'
  BY <1>0, SameRegions DEF ReaderFails
<1>5. PositionAccounting'
  BY <1>0 DEF TypeOK, CallShape, PositionAccounting, ReaderFails, Returned, readerVars, regionVars
<1>6. NothingLostSilently'
  BY <1>0 DEF TypeOK, NothingLostSilently, CallShape, ReaderFails, Returned, readerVars,
     regionVars
<1>7. AccumulatedIsPacket'
  BY <1>0 DEF AccumulatedIsPacket, ReaderFails, Returned, readerVars, regionVars
<1>8. DestInOrder' BY <1>0 DEF DestInOrder, ReaderFails, Returned, readerVars, regionVars
<1>9. LastReadExact'
  BY <1>0 DEF LastReadExact, CallShape, ReaderFails, Returned, readerVars, regionVars
<1> QED BY <1>1, <1>2, <1>3, <1>4, <1>5, <1>6, <1>7, <1>8, <1>9 DEF ReaderInv

\* sub_base_read hands its bytes to full_read and to the accumulated data.
LEMMA Step_SubReturnsFull ==
  ASSUME ReaderInv, SubReturnsFull PROVE ReaderInv'
<1>0. /\ TypeOK /\ CallShape /\ ReadFits /\ RegionShape
      /\ ChainAccounting /\ LengthsNested /\ BoundedOverrun
      /\ PositionAccounting /\ NothingLostSilently
      /\ AccumulatedIsPacket /\ DestInOrder /\ LastReadExact
  BY DEF ReaderInv
<1>1. TypeOK'
 <2>1. UNCHANGED <<taken, regionVars, start, limited, want, lim, dest, res, errors, lossVars>>
   BY DEF SubReturnsFull, Accumulate
 <2>2. accumulate' \in BOOLEAN BY <1>0 DEF TypeOK, SubReturnsFull, Accumulate
 <2>3. asize' \in Nat /\ alength' \in Nat /\ position' \in Nat
   BY <1>0 DEF SubReturnsFull, Accumulate, Grown, TypeOK
 <2>4. accumulated' \in [Index -> 0 .. StreamLen]
   BY <1>0, AccumulatedTyped DEF SubReturnsFull, SubFinished
 <2>5. CallTypes' BY <1>0 DEF SubReturnsFull, CallTypes, TypeOK
 <2> QED
   BY <1>0, <2>1, <2>2, <2>3, <2>4, <2>5 DEF TypeOK, CallTypes, readerVars, regionVars, lossVars
<1>2. CallShape'
  BY <1>0 DEF TypeOK, CallShape, SubReturnsFull, regionVars, lossVars, Accumulate, SubFinished,
     Grown
<1>3. ReadFits'
  BY <1>0 DEF TypeOK, CallShape, ReadFits, SubReturnsFull, regionVars, lossVars, Accumulate,
     SubFinished, Grown
<1>4. RegionShape' /\ ChainAccounting' /\ LengthsNested' /\ BoundedOverrun'
  BY <1>0, SameRegions DEF SubReturnsFull
<1>5. PositionAccounting'
  BY <1>0 DEF TypeOK, CallShape, PositionAccounting, SubReturnsFull, regionVars, lossVars,
     Accumulate, SubFinished, Grown
<1>6. NothingLostSilently'
  BY <1>0 DEF TypeOK, NothingLostSilently, CallShape, SubReturnsFull, regionVars, lossVars,
     Accumulate, SubFinished, Grown
<1>7. AccumulatedIsPacket' BY <1>0, AccumulatedInOrder DEF SubReturnsFull, SubFinished
<1>8. DestInOrder'
  BY <1>0 DEF DestInOrder, SubReturnsFull, regionVars, lossVars, Accumulate, SubFinished, Grown
<1>9. LastReadExact'
  BY <1>0 DEF LastReadExact, CallShape, SubReturnsFull, regionVars, lossVars, Accumulate,
     SubFinished, Grown
<1> QED BY <1>1, <1>2, <1>3, <1>4, <1>5, <1>6, <1>7, <1>8, <1>9 DEF ReaderInv

\* sub_base_read returns the byte of base_read.
LEMMA Step_SubReturnsBase ==
  ASSUME ReaderInv, SubReturnsBase PROVE ReaderInv'
<1>0. /\ TypeOK /\ CallShape /\ ReadFits /\ RegionShape
      /\ ChainAccounting /\ LengthsNested /\ BoundedOverrun
      /\ PositionAccounting /\ NothingLostSilently
      /\ AccumulatedIsPacket /\ DestInOrder /\ LastReadExact
  BY DEF ReaderInv
<1>1. TypeOK'
 <2>1. UNCHANGED <<taken, regionVars, start, dest, errors, lossVars>>
   BY DEF SubReturnsBase, Accumulate
 <2>2. accumulate' \in BOOLEAN BY <1>0 DEF TypeOK, SubReturnsBase, Accumulate
 <2>3. asize' \in Nat /\ alength' \in Nat /\ position' \in Nat
   BY <1>0 DEF SubReturnsBase, Accumulate, Grown, TypeOK
 <2>4. accumulated' \in [Index -> 0 .. StreamLen]
   BY <1>0, AccumulatedTyped DEF SubReturnsBase, SubFinished
 <2>5. CallTypes' BY <1>0, ReturnedTypes DEF SubReturnsBase
 <2>6. res' \in BOOLEAN BY DEF SubReturnsBase
 <2> QED
   BY <1>0, <2>1, <2>2, <2>3, <2>4, <2>5, <2>6 DEF TypeOK, CallTypes, readerVars, regionVars,
      lossVars
<1>2. CallShape'
  BY <1>0 DEF TypeOK, CallShape, SubReturnsBase, Returned, regionVars, lossVars, Accumulate,
     SubFinished, Grown
<1>3. ReadFits'
  BY <1>0 DEF TypeOK, CallShape, ReadFits, SubReturnsBase, Returned, regionVars, lossVars,
     Accumulate, SubFinished, Grown
<1>4. RegionShape' /\ ChainAccounting' /\ LengthsNested' /\ BoundedOverrun'
  BY <1>0, SameRegions DEF SubReturnsBase
<1>5. PositionAccounting'
  BY <1>0 DEF TypeOK, CallShape, PositionAccounting, SubReturnsBase, Returned, regionVars,
     lossVars, Accumulate, SubFinished, Grown
<1>6. NothingLostSilently'
  BY <1>0 DEF TypeOK, NothingLostSilently, CallShape, SubReturnsBase, Returned, regionVars,
     lossVars, Accumulate, SubFinished, Grown
<1>7. AccumulatedIsPacket' BY <1>0, AccumulatedInOrder DEF SubReturnsBase, SubFinished
<1>8. DestInOrder'
  BY <1>0 DEF DestInOrder, SubReturnsBase, Returned, regionVars, lossVars, Accumulate,
     SubFinished, Grown
<1>9. LastReadExact'
  BY <1>0 DEF LastReadExact, CallShape, SubReturnsBase, Returned, regionVars, lossVars,
     Accumulate, SubFinished, Grown
<1> QED BY <1>1, <1>2, <1>3, <1>4, <1>5, <1>6, <1>7, <1>8, <1>9 DEF ReaderInv

\* A complete read is charged to the chain.
LEMMA Step_LimitedReadDone ==
  ASSUME ReaderInv, LimitedReadDone PROVE ReaderInv'
<1>0. /\ TypeOK /\ CallShape /\ ReadFits /\ RegionShape
      /\ ChainAccounting /\ LengthsNested /\ BoundedOverrun
      /\ PositionAccounting /\ NothingLostSilently
      /\ AccumulatedIsPacket /\ DestInOrder /\ LastReadExact
  BY DEF ReaderInv
<1>1. TypeOK'
 <2>1. UNCHANGED <<taken, readerVars, start, dest, errors, lossVars, depth, length, indeterminate, base>>
   BY DEF LimitedReadDone, Charge
 <2>2. CallTypes' BY <1>0, ReturnedTypes DEF LimitedReadDone, TypeOK
 <2>3. res' \in BOOLEAN BY DEF LimitedReadDone
 <2>4. length_read' \in [Level -> Nat] /\ last_read' \in [Level -> Nat]
   BY <1>0, ChargeFacts DEF LimitedReadDone, CallShape
 <2> QED BY <1>0, <2>1, <2>2, <2>3, <2>4 DEF TypeOK, CallTypes, readerVars, regionVars, lossVars
<1>2. CallShape'
  BY <1>0 DEF TypeOK, CallShape, LimitedReadDone, Returned, readerVars, lossVars, Charge
<1>3. ReadFits'
  BY <1>0 DEF TypeOK, CallShape, ReadFits, LimitedReadDone, Returned, readerVars, lossVars, Charge
<1>4. RegionShape'
  BY <1>0 DEF TypeOK, RegionShape, LimitedReadDone, Returned, readerVars, lossVars, Charge
<1>5. ChainAccounting'
  BY <1>0 DEF TypeOK, ChainAccounting, LimitedReadDone, Returned, readerVars, lossVars, Charge
<1>6. LengthsNested'
  BY <1>0 DEF TypeOK, LengthsNested, LimitedReadDone, Returned, readerVars, lossVars, Charge
<1>7. BoundedOverrun'
 <2>1. depth' > 0 /\ depth' = depth BY <1>0 DEF LimitedReadDone, Charge, CallShape, TypeOK
 <2>2. indeterminate'[depth'] \/ length_read'[depth'] <= length'[depth']
  <3>1. length_read'[depth] = length_read[depth] + got /\ pc # "idle" /\ got = want
    BY <1>0, ChargeFacts DEF LimitedReadDone, CallShape
  <3>2. indeterminate' = indeterminate /\ length' = length BY DEF LimitedReadDone, Charge
  <3> QED BY <1>0, <2>1, <3>1, <3>2 DEF ReadFits
 <2> QED BY <1>1, <1>4, <1>5, <1>6, <2>1, <2>2, InnermostInside
<1>8. PositionAccounting'
  BY <1>0 DEF TypeOK, CallShape, PositionAccounting, LimitedReadDone, Returned, readerVars,
     lossVars, Charge
<1>9. NothingLostSilently'
  BY <1>0 DEF TypeOK, NothingLostSilently, CallShape, LimitedReadDone, Returned, readerVars,
     lossVars, Charge
<1>10. AccumulatedIsPacket'
  BY <1>0 DEF AccumulatedIsPacket, LimitedReadDone, Returned, readerVars, lossVars, Charge
<1>11. DestInOrder'
  BY <1>0 DEF DestInOrder, LimitedReadDone, Returned, readerVars, lossVars, Charge
<1>12. LastReadExact'
 <2>1. /\ depth' = depth /\ last_read'[depth] = got /\ want' = want
       /\ cur = 0 /\ UNCHANGED <<dest, taken>>
       /\ indeterminate' = indeterminate /\ pc # "idle"
   BY <1>0, ChargeFacts DEF LimitedReadDone, Charge, CallShape, Returned
 <2>2. \A k \in Slot : k < got => dest[k] = taken - got + 1 + k
   BY <1>0, <2>1 DEF DestInOrder, TypeOK
 <2>3. got = want BY DEF LimitedReadDone
 <2> QED BY <1>0, <2>1, <2>2, <2>3 DEF LastReadExact, TypeOK
<1> QED BY <1>1, <1>2, <1>3, <1>4, <1>5, <1>6, <1>7, <1>8, <1>9, <1>10, <1>11,
     <1>12 DEF ReaderInv

\* A short read is charged to the chain of an indeterminate packet.
LEMMA Step_ShortRead ==
  ASSUME ReaderInv, ShortRead PROVE ReaderInv'
<1>0. /\ TypeOK /\ CallShape /\ ReadFits /\ RegionShape
      /\ ChainAccounting /\ LengthsNested /\ BoundedOverrun
      /\ PositionAccounting /\ NothingLostSilently
      /\ AccumulatedIsPacket /\ DestInOrder /\ LastReadExact
  BY DEF ReaderInv
<1>1. TypeOK'
 <2>1. UNCHANGED <<taken, readerVars, start, dest, errors, lossVars, depth, length, indeterminate, base>>
   BY DEF ShortRead, Charge
 <2>2. CallTypes' BY <1>0, ReturnedTypes DEF ShortRead, TypeOK
 <2>3. res' \in BOOLEAN BY DEF ShortRead
 <2>4. length_read' \in [Level -> Nat] /\ last_read' \in [Level -> Nat]
   BY <1>0, ChargeFacts DEF ShortRead, AtEnd
 <2> QED BY <1>0, <2>1, <2>2, <2>3, <2>4 DEF TypeOK, CallTypes, readerVars, regionVars, lossVars
<1>2. CallShape'
  BY <1>0 DEF TypeOK, CallShape, ShortRead, Returned, readerVars, lossVars, Charge, AtEnd
<1>3. ReadFits'
  BY <1>0 DEF TypeOK, CallShape, ReadFits, ShortRead, Returned, readerVars, lossVars, Charge,
     AtEnd
<1>4. RegionShape'
  BY <1>0 DEF TypeOK, RegionShape, ShortRead, Returned, readerVars, lossVars, Charge, AtEnd
<1>5. ChainAccounting'
  BY <1>0 DEF TypeOK, ChainAccounting, ShortRead, Returned, readerVars, lossVars, Charge, AtEnd
<1>6. LengthsNested'
  BY <1>0 DEF TypeOK, LengthsNested, ShortRead, Returned, readerVars, lossVars, Charge, AtEnd
<1>7. BoundedOverrun'
 <2>1. depth' > 0 /\ indeterminate'[depth']
   BY <1>0 DEF ShortRead, AtEnd, Charge, CallShape, TypeOK
 <2> QED BY <1>1, <1>4, <1>5, <1>6, <2>1, InnermostInside
<1>8. PositionAccounting'
  BY <1>0 DEF TypeOK, CallShape, PositionAccounting, ShortRead, Returned, readerVars, lossVars,
     Charge, AtEnd
<1>9. NothingLostSilently'
  BY <1>0 DEF TypeOK, NothingLostSilently, CallShape, ShortRead, Returned, readerVars, lossVars,
     Charge, AtEnd
<1>10. AccumulatedIsPacket'
  BY <1>0 DEF AccumulatedIsPacket, ShortRead, Returned, readerVars, lossVars, Charge, AtEnd
<1>11. DestInOrder'
  BY <1>0 DEF DestInOrder, ShortRead, Returned, readerVars, lossVars, Charge, AtEnd
<1>12. LastReadExact'
 <2>1. /\ depth' = depth /\ last_read'[depth] = got /\ want' = want
       /\ cur = 0 /\ UNCHANGED <<dest, taken>>
       /\ indeterminate' = indeterminate /\ pc # "idle"
   BY <1>0, ChargeFacts DEF ShortRead, Charge, CallShape, Returned, AtEnd
 <2>2. \A k \in Slot : k < got => dest[k] = taken - got + 1 + k
   BY <1>0, <2>1 DEF DestInOrder, TypeOK
 <2>3. /\ got < want \/ got = want
       /\ indeterminate[depth] /\ taken = StreamLen
   BY <1>0 DEF ShortRead, CallShape, TypeOK, AtEnd
 <2> QED BY <1>0, <2>1, <2>2, <2>3 DEF LastReadExact, TypeOK
<1> QED BY <1>1, <1>2, <1>3, <1>4, <1>5, <1>6, <1>7, <1>8, <1>9, <1>10, <1>11,
     <1>12 DEF ReaderInv

\* The end of the stream fails any other read.
LEMMA Step_EndOfStream ==
  ASSUME ReaderInv, EndOfStream PROVE ReaderInv'
<1>0. /\ TypeOK /\ CallShape /\ ReadFits /\ RegionShape
      /\ ChainAccounting /\ LengthsNested /\ BoundedOverrun
      /\ PositionAccounting /\ NothingLostSilently
      /\ AccumulatedIsPacket /\ DestInOrder /\ LastReadExact
  BY DEF ReaderInv
<1>1. TypeOK'
 <2>1. UNCHANGED <<taken, readerVars, regionVars, start, dest, dropped>> BY DEF EndOfStream
 <2>2. CallTypes' BY <1>0, ReturnedTypes DEF EndOfStream
 <2>3. errors' \in BOOLEAN BY <1>0 DEF TypeOK, EndOfStream
 <2>4. res' \in BOOLEAN BY DEF EndOfStream
 <2>5. uncharged' \in Nat BY <1>0 DEF TypeOK, EndOfStream
 <2> QED
   BY <1>0, <2>1, <2>2, <2>3, <2>4, <2>5 DEF TypeOK, CallTypes, readerVars, regionVars, lossVars
<1>2. CallShape'
  BY <1>0 DEF TypeOK, CallShape, EndOfStream, Returned, readerVars, regionVars, AtEnd
<1>3. ReadFits'
  BY <1>0 DEF TypeOK, CallShape, ReadFits, EndOfStream, Returned, readerVars, regionVars, AtEnd
<1>4. RegionShape' /\ ChainAccounting' /\ LengthsNested' /\ BoundedOverrun'
  BY <1>0, SameRegions DEF EndOfStream
<1>5. PositionAccounting'
  BY <1>0 DEF TypeOK, CallShape, PositionAccounting, EndOfStream, Returned, readerVars,
     regionVars, AtEnd
<1>6. NothingLostSilently'
  BY <1>0 DEF TypeOK, NothingLostSilently, CallShape, EndOfStream, Returned, readerVars,
     regionVars, AtEnd
<1>7. AccumulatedIsPacket'
  BY <1>0 DEF AccumulatedIsPacket, EndOfStream, Returned, readerVars, regionVars, AtEnd
<1>8. DestInOrder' BY <1>0 DEF DestInOrder, EndOfStream, Returned, readerVars, regionVars, AtEnd
<1>9. LastReadExact'
  BY <1>0 DEF LastReadExact, CallShape, EndOfStream, Returned, readerVars, regionVars, AtEnd
<1> QED BY <1>1, <1>2, <1>3, <1>4, <1>5, <1>6, <1>7, <1>8, <1>9 DEF ReaderInv

\* A packet's region starts the chain.
LEMMA Step_OpenPacket ==
  ASSUME ReaderInv, NEW len \in 0 .. MaxRegion, NEW indet \in BOOLEAN, OpenPacket(len, indet)
  PROVE  ReaderInv'
<1>0. /\ TypeOK /\ CallShape /\ ReadFits /\ RegionShape
      /\ ChainAccounting /\ LengthsNested /\ BoundedOverrun
      /\ PositionAccounting /\ NothingLostSilently
      /\ AccumulatedIsPacket /\ DestInOrder /\ LastReadExact
  BY DEF ReaderInv
<1>1. TypeOK'
 <2>1. UNCHANGED <<taken, readerVars, start, dest, res, errors, lossVars>> BY DEF OpenPacket
 <2>2. CallTypes' BY <1>0, ReturnedTypes DEF OpenPacket
 <2>3. depth' \in 0 .. MaxDepth BY DEF OpenPacket
 <2>4. length_read' \in [Level -> Nat] /\ last_read' \in [Level -> Nat]
   BY <1>0 DEF TypeOK, OpenPacket, ops_init_subregion
 <2>5. length' \in [Level -> Nat] /\ base' \in [Level -> Nat]
   BY <1>0 DEF TypeOK, PositionAccounting, OpenPacket, ops_init_subregion
 <2>6. indeterminate' \in [Level -> BOOLEAN] BY <1>0 DEF TypeOK, OpenPacket, ops_init_subregion
 <2> QED
   BY <1>0, <2>1, <2>2, <2>3, <2>4, <2>5, <2>6 DEF TypeOK, CallTypes, readerVars, regionVars,
      lossVars
<1>2. CallShape'
  BY <1>0 DEF TypeOK, CallShape, OpenPacket, Returned, readerVars, lossVars, ops_init_subregion
<1>3. ReadFits'
  BY <1>0 DEF TypeOK, CallShape, ReadFits, OpenPacket, Returned, readerVars, lossVars,
     ops_init_subregion
<1>4. RegionShape'
  BY <1>0 DEF TypeOK, RegionShape, OpenPacket, Returned, readerVars, lossVars, ops_init_subregion
<1>5. ChainAccounting'
  BY <1>0 DEF TypeOK, ChainAccounting, OpenPacket, Returned, readerVars, lossVars,
     ops_init_subregion
<1>6. LengthsNested'
  BY <1>0 DEF TypeOK, LengthsNested, OpenPacket, Returned, readerVars, lossVars,
     ops_init_subregion
<1>7. BoundedOverrun'
  BY <1>0 DEF TypeOK, BoundedOverrun, OpenPacket, Returned, readerVars, lossVars,
     ops_init_subregion
<1>8. PositionAccounting'
 <2>1. length_read'[1] = 0 /\ base'[1] = position - start
   BY <1>0 DEF OpenPacket, ops_init_subregion, TypeOK
 <2>2. uncharged = 0 /\ dropped = 0 BY <1>0 DEF OpenPacket, NothingLostSilently, TypeOK
 <2>3. /\ cur = 0 /\ cur' = 0 /\ got' = 0
       /\ UNCHANGED <<taken, position, alength, start, dropped, uncharged>>
   BY <1>0 DEF OpenPacket, Returned, CallShape, readerVars, lossVars
 <2> QED BY <1>0, <2>1, <2>2, <2>3 DEF PositionAccounting, TypeOK
<1>9. NothingLostSilently'
  BY <1>0 DEF TypeOK, NothingLostSilently, CallShape, OpenPacket, Returned, readerVars, lossVars,
     ops_init_subregion
<1>10. AccumulatedIsPacket'
  BY <1>0 DEF AccumulatedIsPacket, OpenPacket, Returned, readerVars, lossVars, ops_init_subregion
<1>11. DestInOrder'
  BY <1>0 DEF DestInOrder, OpenPacket, Returned, readerVars, lossVars, ops_init_subregion
<1>12. LastReadExact'
  BY <1>0 DEF LastReadExact, CallShape, OpenPacket, Returned, readerVars, lossVars,
     ops_init_subregion
<1> QED BY <1>1, <1>2, <1>3, <1>4, <1>5, <1>6, <1>7, <1>8, <1>9, <1>10, <1>11,
     <1>12 DEF ReaderInv

\* A subregion extends the chain.
LEMMA Step_OpenSubregion ==
  ASSUME ReaderInv, NEW len \in 0 .. MaxRegion, OpenSubregion(len) PROVE ReaderInv'
<1>0. /\ TypeOK /\ CallShape /\ ReadFits /\ RegionShape
      /\ ChainAccounting /\ LengthsNested /\ BoundedOverrun
      /\ PositionAccounting /\ NothingLostSilently
      /\ AccumulatedIsPacket /\ DestInOrder /\ LastReadExact
  BY DEF ReaderInv
<1>1. TypeOK'
 <2>1. UNCHANGED <<taken, readerVars, start, dest, res, errors, lossVars>> BY DEF OpenSubregion
 <2>2. CallTypes' BY <1>0, ReturnedTypes DEF OpenSubregion
 <2>3. depth' \in 0 .. MaxDepth BY DEF OpenSubregion
 <2>4. length_read' \in [Level -> Nat] /\ last_read' \in [Level -> Nat]
   BY <1>0 DEF TypeOK, OpenSubregion, ops_init_subregion
 <2>5. length' \in [Level -> Nat] /\ base' \in [Level -> Nat]
   BY <1>0 DEF TypeOK, OpenSubregion, ops_init_subregion
 <2>6. indeterminate' \in [Level -> BOOLEAN]
   BY <1>0 DEF TypeOK, OpenSubregion, ops_init_subregion
 <2> QED
   BY <1>0, <2>1, <2>2, <2>3, <2>4, <2>5, <2>6 DEF TypeOK, CallTypes, readerVars, regionVars,
      lossVars
<1>2. CallShape'
  BY <1>0 DEF TypeOK, CallShape, OpenSubregion, Returned, readerVars, lossVars,
     ops_init_subregion, SubregionFits
<1>3. ReadFits'
  BY <1>0 DEF TypeOK, CallShape, ReadFits, OpenSubregion, Returned, readerVars, lossVars,
     ops_init_subregion, SubregionFits
<1>4. RegionShape'
 <2>1. depth \in 1 .. 2 /\ depth' = depth + 1 BY DEF OpenSubregion
 <2>2. /\ \A i \in 1 .. 3 : i # depth + 1 =>
              /\ indeterminate'[i] = indeterminate[i] /\ base'[i] = base[i]
              /\ length'[i] = length[i]
       /\ ~indeterminate'[depth + 1]
       /\ base'[depth + 1] = length_read[depth]
  <3>1. /\ indeterminate' = [indeterminate EXCEPT ![depth + 1] = FALSE]
        /\ base' = [base EXCEPT ![depth + 1] = length_read[depth]]
        /\ length' = [length EXCEPT ![depth + 1] = len]
    BY DEF OpenSubregion, ops_init_subregion
  <3>2. /\ indeterminate \in [1 .. 3 -> BOOLEAN] /\ base \in [1 .. 3 -> Nat]
        /\ length \in [1 .. 3 -> Nat]
    BY <1>0 DEF TypeOK
  <3>3. ~indeterminate'[depth + 1] BY <2>1, <3>1, <3>2
  <3>4. \A i \in 1 .. 3 : i # depth + 1 => indeterminate'[i] = indeterminate[i]
    BY <2>1, <3>1, <3>2, Zenon
  <3>5. /\ \A i \in 1 .. 3 : i # depth + 1 =>
              base'[i] = base[i] /\ length'[i] = length[i]
        /\ base'[depth + 1] = length_read[depth]
    BY <2>1, <3>1, <3>2
  <3> QED BY <3>3, <3>4, <3>5
 <2>3. indeterminate[depth] \/ length_read[depth] <= length[depth]
   BY <1>0, <2>1 DEF OpenSubregion, ReadFits
 <2>4. indeterminate'[1] => length'[1] = 0 BY <1>0, <2>1, <2>2 DEF RegionShape
 <2>5. \A i \in 2 .. MaxDepth : i <= depth' => ~indeterminate'[i]
   BY <1>0, <2>1, <2>2 DEF RegionShape
 <2>6. \A i \in 1 .. MaxDepth - 1 :
         i < depth' => indeterminate'[i] \/ base'[i + 1] <= length'[i]
   BY <1>0, <2>1, <2>2, <2>3 DEF RegionShape
 <2> QED BY <2>4, <2>5, <2>6 DEF RegionShape
<1>5. ChainAccounting'
  BY <1>0 DEF TypeOK, ChainAccounting, OpenSubregion, Returned, readerVars, lossVars,
     ops_init_subregion, SubregionFits
<1>6. LengthsNested'
  BY <1>0 DEF TypeOK, LengthsNested, OpenSubregion, Returned, readerVars, lossVars,
     ops_init_subregion, SubregionFits
<1>7. BoundedOverrun'
  BY <1>0 DEF TypeOK, BoundedOverrun, OpenSubregion, Returned, readerVars, lossVars,
     ops_init_subregion, SubregionFits
<1>8. PositionAccounting'
  BY <1>0 DEF TypeOK, CallShape, PositionAccounting, OpenSubregion, Returned, readerVars,
     lossVars, ops_init_subregion, SubregionFits
<1>9. NothingLostSilently'
  BY <1>0 DEF TypeOK, NothingLostSilently, CallShape, OpenSubregion, Returned, readerVars,
     lossVars, ops_init_subregion, SubregionFits
<1>10. AccumulatedIsPacket'
  BY <1>0 DEF AccumulatedIsPacket, OpenSubregion, Returned, readerVars, lossVars,
     ops_init_subregion, SubregionFits
<1>11. DestInOrder'
  BY <1>0 DEF DestInOrder, OpenSubregion, Returned, readerVars, lossVars, ops_init_subregion,
     SubregionFits
<1>12. LastReadExact'
  BY <1>0 DEF LastReadExact, CallShape, OpenSubregion, Returned, readerVars, lossVars,
     ops_init_subregion, SubregionFits
<1> QED BY <1>1, <1>2, <1>3, <1>4, <1>5, <1>6, <1>7, <1>8, <1>9, <1>10, <1>11,
     <1>12 DEF ReaderInv

\* A subregion longer than its parent fails the parse.
LEMMA Step_SubregionRefused ==
  ASSUME ReaderInv, NEW len \in 0 .. MaxRegion, SubregionRefused(len) PROVE ReaderInv'
<1>0. /\ TypeOK /\ CallShape /\ ReadFits /\ RegionShape
      /\ ChainAccounting /\ LengthsNested /\ BoundedOverrun
      /\ PositionAccounting /\ NothingLostSilently
      /\ AccumulatedIsPacket /\ DestInOrder /\ LastReadExact
  BY DEF ReaderInv
<1>1. TypeOK'
 <2>1. UNCHANGED <<taken, readerVars, regionVars, start, dest, errors, lossVars>>
   BY DEF SubregionRefused
 <2>2. CallTypes' BY <1>0, ReturnedTypes DEF SubregionRefused
 <2>3. res' \in BOOLEAN BY DEF SubregionRefused
 <2> QED BY <1>0, <2>1, <2>2, <2>3 DEF TypeOK, CallTypes, readerVars, regionVars, lossVars
<1>2. CallShape'
  BY <1>0 DEF TypeOK, CallShape, SubregionRefused, Returned, readerVars, regionVars, lossVars,
     SubregionFits
<1>3. ReadFits'
  BY <1>0 DEF TypeOK, CallShape, ReadFits, SubregionRefused, Returned, readerVars, regionVars,
     lossVars, SubregionFits
<1>4. RegionShape' /\ ChainAccounting' /\ LengthsNested' /\ BoundedOverrun'
  BY <1>0, SameRegions DEF SubregionRefused
<1>5. PositionAccounting'
  BY <1>0 DEF TypeOK, CallShape, PositionAccounting, SubregionRefused, Returned, readerVars,
     regionVars, lossVars, SubregionFits
<1>6. NothingLostSilently'
  BY <1>0 DEF TypeOK, NothingLostSilently, CallShape, SubregionRefused, Returned, readerVars,
     regionVars, lossVars, SubregionFits
<1>7. AccumulatedIsPacket'
  BY <1>0 DEF AccumulatedIsPacket, SubregionRefused, Returned, readerVars, regionVars, lossVars,
     SubregionFits
<1>8. DestInOrder'
  BY <1>0 DEF DestInOrder, SubregionRefused, Returned, readerVars, regionVars, lossVars,
     SubregionFits
<1>9. LastReadExact'
  BY <1>0 DEF LastReadExact, CallShape, SubregionRefused, Returned, readerVars, regionVars,
     lossVars, SubregionFits
<1> QED BY <1>1, <1>2, <1>3, <1>4, <1>5, <1>6, <1>7, <1>8, <1>9 DEF ReaderInv

\* Leaving a subregion shortens the chain.
LEMMA Step_CloseSubregion ==
  ASSUME ReaderInv, CloseSubregion PROVE ReaderInv'
<1>0. /\ TypeOK /\ CallShape /\ ReadFits /\ RegionShape
      /\ ChainAccounting /\ LengthsNested /\ BoundedOverrun
      /\ PositionAccounting /\ NothingLostSilently
      /\ AccumulatedIsPacket /\ DestInOrder /\ LastReadExact
  BY DEF ReaderInv
<1>1. TypeOK'
 <2>1. UNCHANGED <<taken, readerVars, length, length_read, last_read, indeterminate, base, start, dest, res, errors, lossVars>>
   BY DEF CloseSubregion
 <2>2. CallTypes' BY <1>0, ReturnedTypes DEF CloseSubregion
 <2>3. depth' \in 0 .. MaxDepth BY <1>0 DEF TypeOK, CloseSubregion
 <2> QED BY <1>0, <2>1, <2>2, <2>3 DEF TypeOK, CallTypes, readerVars, regionVars, lossVars
<1>2. CallShape' BY <1>0 DEF TypeOK, CallShape, CloseSubregion, Returned, readerVars, lossVars
<1>3. ReadFits'
  BY <1>0 DEF TypeOK, CallShape, ReadFits, CloseSubregion, Returned, readerVars, lossVars
<1>4. RegionShape' BY <1>0 DEF TypeOK, RegionShape, CloseSubregion, Returned, readerVars, lossVars
<1>5. ChainAccounting'
  BY <1>0 DEF TypeOK, ChainAccounting, CloseSubregion, Returned, readerVars, lossVars
<1>6. LengthsNested'
  BY <1>0 DEF TypeOK, LengthsNested, CloseSubregion, Returned, readerVars, lossVars
<1>7. BoundedOverrun'
  BY <1>0 DEF TypeOK, BoundedOverrun, CloseSubregion, Returned, readerVars, lossVars
<1>8. PositionAccounting'
  BY <1>0 DEF TypeOK, CallShape, PositionAccounting, CloseSubregion, Returned, readerVars,
     lossVars
<1>9. NothingLostSilently'
  BY <1>0 DEF TypeOK, NothingLostSilently, CallShape, CloseSubregion, Returned, readerVars,
     lossVars
<1>10. AccumulatedIsPacket'
  BY <1>0 DEF AccumulatedIsPacket, CloseSubregion, Returned, readerVars, lossVars
<1>11. DestInOrder' BY <1>0 DEF DestInOrder, CloseSubregion, Returned, readerVars, lossVars
<1>12. LastReadExact'
  BY <1>0 DEF LastReadExact, CallShape, CloseSubregion, Returned, readerVars, lossVars
<1> QED BY <1>1, <1>2, <1>3, <1>4, <1>5, <1>6, <1>7, <1>8, <1>9, <1>10, <1>11,
     <1>12 DEF ReaderInv

\* The end of a packet empties the chain and the accumulated data.
LEMMA Step_EndPacket ==
  ASSUME ReaderInv, EndPacket PROVE ReaderInv'
<1>0. /\ TypeOK /\ CallShape /\ ReadFits /\ RegionShape
      /\ ChainAccounting /\ LengthsNested /\ BoundedOverrun
      /\ PositionAccounting /\ NothingLostSilently
      /\ AccumulatedIsPacket /\ DestInOrder /\ LastReadExact
  BY DEF ReaderInv
<1>1. TypeOK'
 <2>1. UNCHANGED <<taken, accumulate, position, length, length_read, last_read, indeterminate, base, dest, res, errors, dropped>>
   BY DEF EndPacket
 <2>2. CallTypes' BY <1>0, ReturnedTypes DEF EndPacket
 <2>3. depth' \in 0 .. MaxDepth BY DEF EndPacket
 <2>4. accumulated' \in [Index -> 0 .. StreamLen] BY <1>0 DEF TypeOK, EndPacket, NoBytes
 <2>5. asize' \in Nat /\ alength' \in Nat /\ position' \in Nat BY <1>0 DEF TypeOK, EndPacket
 <2>6. start' \in Nat BY <1>0 DEF TypeOK, EndPacket
 <2>7. uncharged' \in Nat BY DEF EndPacket
 <2> QED
   BY <1>0, <2>1, <2>2, <2>3, <2>4, <2>5, <2>6, <2>7 DEF TypeOK, CallTypes, readerVars,
      regionVars, lossVars
<1>2. CallShape' BY <1>0 DEF TypeOK, CallShape, EndPacket, Returned, NoBytes
<1>3. ReadFits' BY <1>0 DEF TypeOK, CallShape, ReadFits, EndPacket, Returned, NoBytes
<1>4. RegionShape' BY <1>0 DEF TypeOK, RegionShape, EndPacket, Returned, NoBytes
<1>5. ChainAccounting' BY <1>0 DEF TypeOK, ChainAccounting, EndPacket, Returned, NoBytes
<1>6. LengthsNested' BY <1>0 DEF TypeOK, LengthsNested, EndPacket, Returned, NoBytes
<1>7. BoundedOverrun' BY <1>0 DEF TypeOK, BoundedOverrun, EndPacket, Returned, NoBytes
<1>8. PositionAccounting'
  BY <1>0 DEF TypeOK, CallShape, PositionAccounting, EndPacket, Returned, NoBytes
<1>9. NothingLostSilently'
  BY <1>0 DEF TypeOK, NothingLostSilently, CallShape, EndPacket, Returned, NoBytes
<1>10. AccumulatedIsPacket'
 <2>1. alength' = 0 /\ asize' \in Nat BY <1>1 DEF EndPacket, TypeOK
 <2> QED BY <2>1 DEF AccumulatedIsPacket, Index
<1>11. DestInOrder' BY <1>0 DEF DestInOrder, EndPacket, Returned, NoBytes
<1>12. LastReadExact' BY <1>0 DEF LastReadExact, CallShape, EndPacket, Returned, NoBytes
<1> QED BY <1>1, <1>2, <1>3, <1>4, <1>5, <1>6, <1>7, <1>8, <1>9, <1>10, <1>11,
     <1>12 DEF ReaderInv

-----------------------------------------------------------------------------
(* The theorems. *)

\* ReaderInv holds of every behaviour of the read path.
THEOREM ReaderInvariant == Spec => []ReaderInv
<1>1. Init => ReaderInv
 <2> SUFFICES ASSUME Init PROVE ReaderInv OBVIOUS
 <2>1. TypeOK
  <3>1. /\ pc \in {"idle", "full", "sub"} /\ want \in Nat /\ got \in Nat
        /\ lim \in 0 .. IntMax /\ cur \in Nat
    BY DEF Init
  <3>2. /\ accumulated \in [Index -> 0 .. StreamLen]
        /\ dest \in [Slot -> 0 .. StreamLen]
    BY DEF Init, NoBytes, Fresh
  <3>3. /\ length \in [Level -> Nat] /\ length_read \in [Level -> Nat]
        /\ last_read \in [Level -> Nat] /\ base \in [Level -> Nat]
        /\ indeterminate \in [Level -> BOOLEAN]
    BY DEF Init
  <3>4. accumulate \in BOOLEAN /\ limited \in BOOLEAN
        /\ res \in BOOLEAN /\ errors \in BOOLEAN
    BY DEF Init
  <3>5. /\ taken \in 0 .. StreamLen /\ depth \in 0 .. MaxDepth
        /\ asize \in Nat /\ alength \in Nat /\ position \in Nat
        /\ start \in Nat /\ dropped \in Nat /\ uncharged \in Nat
    BY DEF Init
  <3> QED BY <3>1, <3>2, <3>3, <3>4, <3>5 DEF TypeOK
 <2>2. CallShape /\ ReadFits /\ PositionAccounting /\ NothingLostSilently
   BY DEF Init, CallShape, ReadFits, PositionAccounting, NothingLostSilently
 <2>3. RegionShape /\ ChainAccounting /\ LengthsNested /\ BoundedOverrun
   BY DEF Init, RegionShape, ChainAccounting, LengthsNested, BoundedOverrun
 <2>4. AccumulatedIsPacket /\ DestInOrder /\ LastReadExact
   BY DEF Init, AccumulatedIsPacket, DestInOrder, LastReadExact, Index
 <2> QED BY <2>1, <2>2, <2>3, <2>4 DEF ReaderInv
<1>2. ReaderInv /\ [Next]_vars => ReaderInv'
 <2> SUFFICES ASSUME ReaderInv, [Next]_vars PROVE ReaderInv' OBVIOUS
 <2>1. CASE CallStep
   BY <2>1, Step_full_read, Step_SubReturnsFull, Step_SubReturnsBase, Step_LimitedReadDone,
      Step_ShortRead, Step_EndOfStream, Step_ReaderFails, Step_reader DEF CallStep
 <2>2. CASE base_read BY <2>2, Step_base_read
 <2>3. CASE \E len \in 0 .. MaxRequest :
              LimitedReadRefused(len) \/ ops_limited_read(len)
   BY <2>3, Step_LimitedReadRefused, Step_ops_limited_read
 <2>4. CASE \E len \in 0 .. MaxRegion, indet \in BOOLEAN : OpenPacket(len, indet)
   BY <2>4, Step_OpenPacket
 <2>5. CASE \E len \in 0 .. MaxRegion : OpenSubregion(len) \/ SubregionRefused(len)
   BY <2>5, Step_OpenSubregion, Step_SubregionRefused
 <2>6. CASE CloseSubregion BY <2>6, Step_CloseSubregion
 <2>7. CASE EndPacket BY <2>7, Step_EndPacket
 <2>8. CASE UNCHANGED vars
   BY <2>8 DEF vars, readerVars, regionVars, callVars, lossVars, ReaderInv, TypeOK, CallShape,
      ReadFits, RegionShape, ChainAccounting, LengthsNested, BoundedOverrun, PositionAccounting,
      NothingLostSilently, AccumulatedIsPacket, DestInOrder, LastReadExact
 <2> QED BY <2>1, <2>2, <2>3, <2>4, <2>5, <2>6, <2>7, <2>8 DEF Next
<1> QED BY <1>1, <1>2, PTL DEF Spec

\* The variables of the read path keep their types and no reader is asked for more
\* than IntMax bytes.
THEOREM TypeCorrect == Spec => []TypeOK
<1>1. ReaderInv => TypeOK BY DEF ReaderInv
<1> QED BY <1>1, ReaderInvariant, PTL

\* ops_limited_read charges a region and its parents alike: no byte is counted twice
\* and none is left out.
THEOREM RegionsAccounted == Spec => []ChainAccounting
<1>1. ReaderInv => ChainAccounting BY DEF ReaderInv
<1> QED BY <1>1, ReaderInvariant, PTL

\* The assertion in ops_limited_read cannot fail.
THEOREM AssertionHolds == Spec => []LengthsNested
<1>1. ReaderInv => LengthsNested BY DEF ReaderInv
<1> QED BY <1>1, ReaderInvariant, PTL

\* However subregions are opened, a packet is charged at most three times its
\* length.
THEOREM OverrunBounded == Spec => []BoundedOverrun
<1>1. ReaderInv => BoundedOverrun BY DEF ReaderInv
<1> QED BY <1>1, ReaderInvariant, PTL

\* The position and the accumulated length are exact at every step of a read.
THEOREM PositionCorrect == Spec => []PositionAccounting
<1>1. ReaderInv => PositionAccounting BY DEF ReaderInv
<1> QED BY <1>1, ReaderInvariant, PTL

\* Bytes go missing only when an error is on the stack.
THEOREM NoSilentLoss == Spec => []NothingLostSilently
<1>1. ReaderInv => NothingLostSilently BY DEF ReaderInv
<1> QED BY <1>1, ReaderInvariant, PTL

\* The raw packet is the bytes of the stream from the packet's start, and the
\* accumulation buffer is never overrun.
THEOREM RawPacketCorrect == Spec => []AccumulatedIsPacket
<1>1. ReaderInv => AccumulatedIsPacket BY DEF ReaderInv
<1> QED BY <1>1, ReaderInvariant, PTL

\* A destination buffer holds consecutive bytes whatever the reader returns at a
\* time.
THEOREM DestinationCorrect == Spec => []DestInOrder
<1>1. ReaderInv => DestInOrder BY DEF ReaderInv
<1> QED BY <1>1, ReaderInvariant, PTL

\* A caller of ops_limited_read is told exactly how much it got.
THEOREM ShortReadsReported == Spec => []LastReadExact
<1>1. ReaderInv => LastReadExact BY DEF ReaderInv
<1> QED BY <1>1, ReaderInvariant, PTL

\* Nothing that was read is lost sight of, for streams, regions and requests of
\* any size.
THEOREM AccountsBalance == Spec => []BytesAccounted
<1>1. ReaderInv => BytesAccounted BY DEF ReaderInv, BytesAccounted
<1> QED BY <1>1, ReaderInvariant, PTL

\* What callers of the read path get is the stream.
THEOREM DeliveryCorrect == Spec => []BytesDelivered
<1>1. ReaderInv => BytesDelivered BY DEF ReaderInv, BytesDelivered
<1> QED BY <1>1, ReaderInvariant, PTL
=============================================================================
