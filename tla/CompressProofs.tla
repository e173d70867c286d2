---------------------------- MODULE CompressProofs ----------------------------
(***************************************************************************)
(* Data that is compressed, sent and decompressed, for buffers, data and   *)
(* reads of any size, whatever deflate keeps back and whatever happens to  *)
(* the packet on its way.                                                  *)
(*                                                                         *)
(* The compressing writer comes first: no call fails by itself, the        *)
(* compressed stream is whole, and the writer implements ByteStream.       *)
(* StreamWhole is not inductive: that deflate always has something to do   *)
(* rests on what Counts says of a call in progress, and where the stream   *)
(* ends on what is kept back (Lasts).  That the data comes out in order    *)
(* rests on InOrder: what is kept back follows on what has gone out.       *)
(*                                                                         *)
(* All this holds of the composition, as nothing that is added takes a     *)
(* step of the writer that it would not take.  Of the reader: what inflate *)
(* has put out is what has been given, what is copied for the read in      *)
(* progress and what is still in the filling (Delivered), unless the file  *)
(* has ended before its packet and every read fails (Stuck); and where     *)
(* inflate stands in the packet says what it can restore (Inflated).       *)
(***************************************************************************)
EXTENDS Compress, SequenceTheorems, WellFoundedInduction, TLAPS

Counts ==
  /\ coded <= total_in /\ total_in + avail_in <= accepted
  /\ intact /\ pc # "writing" => total_in = accepted
  /\ intact /\ pc = "writing" =>
       total_in + avail_in = accepted /\ (avail_in > 0 \/ full)

\* The last unit is made once, when all is coded, and stands at the end.
Lasts ==
  \A i \in 1 .. Len(pending) :
    pending[i].last => /\ i = Len(pending) /\ pending[i].upto = total_in
                       /\ coded = total_in /\ pc \in {"closing", "closed"}

Between(s, low, high) ==
  /\ \A i \in 1 .. Len(s) : low <= s[i].upto /\ s[i].upto <= high
  /\ \A i, j \in 1 .. Len(s) : i < j => s[i].upto <= s[j].upto

InOrder ==
  intact /\ pc # "closed" => Visible <= coded /\ Between(pending, Visible, coded)

WriterInv == WriterTypeOK /\ Counts /\ Lasts /\ InOrder /\ StreamWhole

USE CompressWriterAssumption DEF CompressWriterAssumption

-----------------------------------------------------------------------------
(* What deflate may code, and what one filling takes of it. *)

LEMMA VisibleIsNat == WriterTypeOK => Visible \in Nat
<1> SUFFICES ASSUME WriterTypeOK, body # <<>> PROVE body[Len(body)].upto \in Nat BY DEF Visible
<1>1. body \in Seq(UnitSet) BY DEF WriterTypeOK
<1>2. Len(body) \in 1 .. Len(body) BY <1>1
<1>3. body[Len(body)] \in UnitSet BY <1>1, <1>2
<1> QED BY <1>3 DEF UnitSet

\* Units of new octets only, in order.
LEMMA CodingsFacts ==
  ASSUME NEW to \in 0 .. MaxData, coded \in 0 .. MaxData, coded <= to,
         NEW u \in Codings(to)
  PROVE  /\ u \in Seq(Nat) /\ Units(u) \in Seq(UnitSet) /\ Len(Units(u)) = Len(u)
         /\ Reached(u) \in coded .. to
         /\ Between(Units(u), coded, Reached(u))
         /\ \A i \in 1 .. Len(u) : ~Units(u)[i].last
         /\ coded = to => u = <<>>
<1>1. PICK m \in 0 .. MaxCoded : u \in [1 .. m -> coded + 1 .. to] BY DEF Codings
<1>2. \A i, j \in 1 .. Len(u) : i < j => u[i] < u[j] BY DEF Codings
<1>3. u \in Seq(Nat) /\ Len(u) = m BY <1>1
<1>4. \A i \in 1 .. m : u[i] \in coded + 1 .. to BY <1>1
<1>5. /\ Units(u) \in Seq(UnitSet) /\ Len(Units(u)) = m
      /\ \A i \in 1 .. m : Units(u)[i] = [upto |-> u[i], last |-> FALSE]
  BY <1>3, <1>4 DEF Units, Unit, UnitSet
<1>6. /\ Reached(u) \in coded .. to
      /\ \A i \in 1 .. m : u[i] <= Reached(u)
 <2>1. CASE m = 0
  <3>1. u = <<>> BY <1>3, <2>1
  <3>2. Reached(u) = coded BY <3>1 DEF Reached
  <3> QED BY <2>1, <3>2
 <2>2. CASE m > 0
  <3>1. m \in 1 .. m /\ u # <<>> BY <1>3, <2>2
  <3>2. Reached(u) = u[m] BY <1>3, <3>1 DEF Reached
  <3>3. u[m] \in coded + 1 .. to BY <1>4, <3>1
  <3>4. ASSUME NEW i \in 1 .. m PROVE u[i] <= u[m]
   <4>1. u[i] \in coded + 1 .. to BY <1>4
   <4>2. CASE i = m BY <3>3, <4>2
   <4>3. CASE i < m
    <5>1. u[i] < u[m] BY <1>2, <1>3, <3>1, <4>3
    <5> QED BY <3>3, <4>1, <5>1
   <4> QED BY <4>2, <4>3
  <3> QED BY <3>2, <3>3, <3>4
 <2> QED BY <2>1, <2>2
<1>7. Between(Units(u), coded, Reached(u))
 <2>1. \A i \in 1 .. m : Units(u)[i].upto = u[i] BY <1>5
 <2>2. \A i \in 1 .. Len(Units(u)) :
         coded <= Units(u)[i].upto /\ Units(u)[i].upto <= Reached(u)
   BY <1>4, <1>5, <1>6, <2>1
 <2>3. \A i, j \in 1 .. Len(Units(u)) :
         i < j => Units(u)[i].upto <= Units(u)[j].upto
  <3> SUFFICES ASSUME NEW i \in 1 .. Len(Units(u)), NEW j \in 1 .. Len(Units(u)), i < j
               PROVE  Units(u)[i].upto <= Units(u)[j].upto
    OBVIOUS
  <3>1. i \in 1 .. m /\ j \in 1 .. m /\ u[i] < u[j] BY <1>2, <1>3, <1>5
  <3> QED BY <1>4, <2>1, <3>1
 <2> QED BY <2>2, <2>3 DEF Between
<1>8. coded = to => u = <<>>
 <2> SUFFICES ASSUME coded = to PROVE u = <<>> OBVIOUS
 <2>1. m = 0 BY <1>4
 <2> QED BY <1>3, <2>1
<1> QED BY <1>3, <1>5, <1>6, <1>7, <1>8

LEMMA Joined ==
  ASSUME NEW s \in Seq(UnitSet), NEW t \in Seq(UnitSet)
  PROVE  /\ s \o t \in Seq(UnitSet) /\ Len(s \o t) = Len(s) + Len(t)
         /\ Len(s) \in Nat /\ Len(t) \in Nat
         /\ \A i \in 1 .. Len(s) + Len(t) :
              (s \o t)[i] = IF i <= Len(s) THEN s[i] ELSE t[i - Len(s)]
OBVIOUS

\* A piece that starts where the other ends.
LEMMA BetweenJoined ==
  ASSUME NEW s \in Seq(UnitSet), NEW t \in Seq(UnitSet),
         NEW low \in Nat, NEW mid \in Nat, NEW high \in Nat, low <= mid, mid <= high,
         Between(s, low, mid), Between(t, mid, high)
  PROVE  /\ s \o t \in Seq(UnitSet) /\ Between(s \o t, low, high)
<1>1. /\ s \o t \in Seq(UnitSet) /\ Len(s \o t) = Len(s) + Len(t)
      /\ \A i \in 1 .. Len(s) + Len(t) :
           (s \o t)[i] = IF i <= Len(s) THEN s[i] ELSE t[i - Len(s)]
  BY Joined
<1>2. /\ \A i \in 1 .. Len(s) : s[i].upto \in Nat
      /\ \A i \in 1 .. Len(t) : t[i].upto \in Nat
 <2>1. /\ \A i \in 1 .. Len(s) : s[i] \in UnitSet
       /\ \A i \in 1 .. Len(t) : t[i] \in UnitSet
   OBVIOUS
 <2> QED BY <2>1 DEF UnitSet
<1>3. \A i \in 1 .. Len(s \o t) : low <= (s \o t)[i].upto /\ (s \o t)[i].upto <= high
  BY <1>1, <1>2 DEF Between
<1>4. \A i, j \in 1 .. Len(s \o t) : i < j => (s \o t)[i].upto <= (s \o t)[j].upto
 <2> SUFFICES ASSUME NEW i \in 1 .. Len(s \o t), NEW j \in 1 .. Len(s \o t), i < j
              PROVE  (s \o t)[i].upto <= (s \o t)[j].upto
   OBVIOUS
 <2>1. CASE j <= Len(s) BY <1>1, <2>1 DEF Between
 <2>2. CASE i <= Len(s) /\ j > Len(s) BY <1>1, <1>2, <2>2, SMTT(30) DEF Between
 <2>3. CASE i > Len(s) BY <1>1, <2>3 DEF Between
 <2> QED BY <2>1, <2>2, <2>3
<1> QED BY <1>1, <1>3, <1>4 DEF Between

\* What Output takes from the front goes out, and the rest stays.
LEMMA OutputFacts ==
  ASSUME NEW all \in Seq(UnitSet), NEW done \in BOOLEAN, NEW good \in BOOLEAN,
         WriterTypeOK, Output(all, done, good)
  PROVE  \E room \in Nat :
           /\ room <= Len(all) /\ (~done => room = size) /\ (full' <=> room = size)
           /\ Len(all) <= size <=> room = Len(all)
           /\ pending' \in Seq(UnitSet) /\ Len(pending') = Len(all) - room
           /\ \A i \in 1 .. Len(all) - room : pending'[i] = all[room + i]
           /\ body' \in Seq(UnitSet) /\ intact' = (intact /\ good) /\ full' \in BOOLEAN
           /\ good => /\ Len(body') = Len(body) + room
                      /\ \A i \in 1 .. Len(body) : body'[i] = body[i]
                      /\ \A i \in 1 .. room : body'[Len(body) + i] = all[i]
<1> DEFINE room == IF Len(all) <= size THEN Len(all) ELSE size
           front == SubSeq(all, 1, room)
           back == SubSeq(all, room + 1, Len(all))
<1>1. size \in Nat \ {0} /\ body \in Seq(UnitSet) /\ Len(all) \in Nat
 <2>1. size \in Nat \ {0} /\ body \in Seq(UnitSet) BY DEF WriterTypeOK
 <2>2. Len(all) \in Nat OBVIOUS
 <2> QED BY <2>1, <2>2
<1>2. room \in Nat /\ room <= Len(all) /\ room <= size /\ (Len(all) <= size <=> room = Len(all))
  BY <1>1
<1>3. /\ done \/ Len(all) >= size
      /\ pending' = back /\ full' = (room = size)
      /\ body' = (IF good THEN body \o front ELSE body) /\ intact' = (intact /\ good)
  BY DEF Output
<1>4. ~done => room = size BY <1>1, <1>3
<1> HIDE DEF room
<1>5. /\ back \in Seq(UnitSet) /\ Len(back) = Len(all) - room
      /\ \A i \in 1 .. Len(all) - room : back[i] = all[room + i]
  BY <1>2
<1>6. /\ front \in Seq(UnitSet) /\ Len(front) = room
      /\ \A i \in 1 .. room : front[i] = all[i]
  BY <1>2
<1> HIDE DEF front, back
<1>7. /\ body \o front \in Seq(UnitSet) /\ Len(body \o front) = Len(body) + room
      /\ \A i \in 1 .. Len(body) : (body \o front)[i] = body[i]
      /\ \A i \in 1 .. room : (body \o front)[Len(body) + i] = all[i]
  BY <1>1, <1>6
<1> QED BY <1>1, <1>2, <1>3, <1>4, <1>5, <1>7

\* The data goes on where it was, as far as what has gone out reaches.
LEMMA FrontShown ==
  ASSUME NEW all \in Seq(UnitSet), NEW done \in BOOLEAN, NEW high \in Nat,
         WriterTypeOK, Output(all, done, TRUE),
         Visible <= high, Between(all, Visible, high)
  PROVE  /\ Visible' \in Nat /\ Visible <= Visible' /\ Visible' <= high
         /\ Between(pending', Visible', high)
         /\ Len(all) <= size /\ all # <<>> =>
              /\ Visible' = all[Len(all)].upto
              /\ body' # <<>> /\ body'[Len(body')] = all[Len(all)]
<1>1. PICK room \in Nat :
        /\ room <= Len(all)
        /\ Len(all) <= size <=> room = Len(all)
        /\ pending' \in Seq(UnitSet) /\ Len(pending') = Len(all) - room
        /\ \A i \in 1 .. Len(all) - room : pending'[i] = all[room + i]
        /\ body' \in Seq(UnitSet) /\ Len(body') = Len(body) + room
        /\ \A i \in 1 .. Len(body) : body'[i] = body[i]
        /\ \A i \in 1 .. room : body'[Len(body) + i] = all[i]
  BY OutputFacts, ZenonT(60)
<1>2. Visible \in Nat /\ body \in Seq(UnitSet) /\ Len(body) \in Nat /\ Len(all) \in Nat
 <2>1. Visible \in Nat /\ body \in Seq(UnitSet) BY VisibleIsNat DEF WriterTypeOK
 <2>2. Len(all) \in Nat OBVIOUS
 <2> QED BY <2>1, <2>2
<1>3. \A i \in 1 .. Len(all) : all[i].upto \in Nat
 <2>1. \A i \in 1 .. Len(all) : all[i] \in UnitSet OBVIOUS
 <2> QED BY <2>1 DEF UnitSet
<1>4. Visible' = IF body' = <<>> THEN 0 ELSE body'[Len(body')].upto BY DEF Visible
<1>5. Visible' = IF room = 0 THEN Visible ELSE all[room].upto
 <2>1. CASE room = 0
  <3>1. Len(body') = Len(body) BY <1>1, <1>2, <2>1
  <3>2. (body = <<>> <=> Len(body) = 0) /\ (body' = <<>> <=> Len(body') = 0) BY <1>1, <1>2
  <3>3. Len(body) # 0 => Len(body) \in 1 .. Len(body) BY <1>2
  <3>4. body # <<>> => body'[Len(body')] = body[Len(body)] BY <1>1, <3>1, <3>2, <3>3
  <3> QED BY <1>4, <2>1, <3>1, <3>2, <3>4 DEF Visible
 <2>2. CASE room # 0
  <3>1. body' # <<>> /\ body'[Len(body')] = all[room] BY <1>1, <1>2, <2>2
  <3> QED BY <1>4, <2>2, <3>1
 <2> QED BY <2>1, <2>2
<1>6. Visible' \in Nat /\ Visible <= Visible' /\ Visible' <= high
  BY <1>1, <1>2, <1>3, <1>5 DEF Between
<1>7. Between(pending', Visible', high)
 <2>1. \A i \in 1 .. Len(pending') :
         room + i \in 1 .. Len(all) /\ pending'[i] = all[room + i]
  <3> SUFFICES ASSUME NEW i \in 1 .. Len(pending')
               PROVE  room + i \in 1 .. Len(all) /\ pending'[i] = all[room + i]
    OBVIOUS
  <3>1. i \in 1 .. Len(all) - room BY <1>1
  <3> QED BY <1>1, <1>2, <3>1
 <2>2. \A i \in 1 .. Len(all) : Visible <= all[i].upto /\ all[i].upto <= high BY DEF Between
 <2>3. \A i, j \in 1 .. Len(all) : i < j => all[i].upto <= all[j].upto BY DEF Between
 <2>4. room # 0 => room \in 1 .. Len(all) BY <1>1, <1>2
 <2>5. Len(pending') \in Nat BY <1>1
 <2>6. ASSUME NEW i \in 1 .. Len(pending')
       PROVE  Visible' <= pending'[i].upto /\ pending'[i].upto <= high
  <3>1. CASE room = 0 BY <1>5, <2>1, <2>2, <3>1
  <3>2. CASE room # 0
   <4>1. room < room + i BY <2>5
   <4>2. all[room].upto <= all[room + i].upto BY <2>1, <2>3, <2>4, <3>2, <4>1
   <4> QED BY <1>5, <2>1, <2>2, <3>2, <4>2
  <3> QED BY <3>1, <3>2
 <2>7. ASSUME NEW i \in 1 .. Len(pending'), NEW j \in 1 .. Len(pending'), i < j
       PROVE  pending'[i].upto <= pending'[j].upto
  <3>1. room + i < room + j BY <2>5, <2>7
  <3> QED BY <2>1, <2>3, <3>1
 <2> QED BY <2>6, <2>7 DEF Between
<1>8. Len(all) <= size /\ all # <<>> =>
        body' # <<>> /\ body'[Len(body')] = all[Len(all)] /\ Visible' = all[Len(all)].upto
 <2> SUFFICES ASSUME Len(all) <= size, all # <<>>
              PROVE  /\ body' # <<>> /\ body'[Len(body')] = all[Len(all)]
                     /\ Visible' = all[Len(all)].upto
   OBVIOUS
 <2>1. room = Len(all) /\ room > 0 BY <1>1, <1>2
 <2>2. Len(body') = Len(body) + room /\ room \in 1 .. room BY <1>1, <2>1
 <2>3. body'[Len(body) + room] = all[room] BY <1>1, <2>2
 <2>4. body' # <<>> BY <1>1, <1>2, <2>1, <2>2
 <2> QED BY <1>5, <2>1, <2>2, <2>3, <2>4
<1> QED BY <1>6, <1>7, <1>8

\* No unit but the last of out says that it is the last, and if it goes out, out
\* has gone out altogether.
LEMMA LastsKept ==
  ASSUME NEW all \in Seq(UnitSet), NEW done \in BOOLEAN, NEW good \in BOOLEAN,
         WriterTypeOK, Output(all, done, good),
         \A i \in 1 .. Len(all) : all[i].last => i = Len(all)
  PROVE  /\ \A i \in 1 .. Len(pending') :
              pending'[i].last => /\ i = Len(pending') /\ Len(all) > size
                                  /\ pending'[i] = all[Len(all)] /\ all[Len(all)].last
         /\ good /\ (\A i \in 1 .. Len(body) : ~body[i].last) =>
              \A i \in 1 .. Len(body') :
                body'[i].last => /\ i = Len(body') /\ Len(all) <= size
                                 /\ Len(all) > 0 /\ all[Len(all)].last
<1>1. PICK room \in Nat :
        /\ room <= Len(all)
        /\ Len(all) <= size <=> room = Len(all)
        /\ pending' \in Seq(UnitSet) /\ Len(pending') = Len(all) - room
        /\ \A i \in 1 .. Len(all) - room : pending'[i] = all[room + i]
        /\ good => /\ Len(body') = Len(body) + room
                   /\ \A i \in 1 .. Len(body) : body'[i] = body[i]
                   /\ \A i \in 1 .. room : body'[Len(body) + i] = all[i]
  BY OutputFacts
<1>2. Len(body) \in Nat /\ Len(all) \in Nat /\ size \in Nat
 <2>1. Len(all) \in Nat OBVIOUS
 <2>2. body \in Seq(UnitSet) /\ size \in Nat BY DEF WriterTypeOK
 <2> QED BY <2>1, <2>2
<1>3. \A i \in 1 .. Len(pending') :
        pending'[i].last => /\ i = Len(pending') /\ Len(all) > size
                            /\ pending'[i] = all[Len(all)] /\ all[Len(all)].last
 <2> SUFFICES ASSUME NEW i \in 1 .. Len(pending'), pending'[i].last
              PROVE  /\ i = Len(pending') /\ Len(all) > size
                     /\ pending'[i] = all[Len(all)] /\ all[Len(all)].last
   OBVIOUS
 <2>1. i \in 1 .. Len(all) - room /\ room + i \in 1 .. Len(all) BY <1>1, <1>2
 <2>2. pending'[i] = all[room + i] BY <1>1, <2>1
 <2>3. room + i = Len(all) BY <2>1, <2>2
 <2>4. i = Len(pending') /\ room # Len(all) BY <1>1, <1>2, <2>1, <2>3
 <2>5. Len(all) > size BY <1>1, <1>2, <2>4
 <2>6. pending'[i] = all[Len(all)] BY <2>2, <2>3
 <2> QED BY <2>4, <2>5, <2>6
<1>4. ASSUME good, \A i \in 1 .. Len(body) : ~body[i].last,
             NEW i \in 1 .. Len(body'), body'[i].last
      PROVE  /\ i = Len(body') /\ Len(all) <= size
             /\ Len(all) > 0 /\ all[Len(all)].last
 <2>1. i \in 1 .. Len(body) + room /\ room \in Nat BY <1>1, <1>4
 <2>2. ~(i \in 1 .. Len(body)) BY <1>1, <1>4
 <2>3. PICK j \in 1 .. room : i = Len(body) + j
  <3>1. i - Len(body) \in 1 .. room /\ i = Len(body) + (i - Len(body)) BY <1>2, <2>1, <2>2
  <3> QED BY <3>1
 <2>4. body'[i] = all[j] BY <1>1, <1>4, <2>3
 <2>5. j \in 1 .. Len(all) /\ all[j].last BY <1>1, <1>2, <1>4, <2>3, <2>4
 <2>6. j = Len(all) BY <2>5
 <2>7. room = Len(all) BY <1>1, <1>2, <2>3, <2>6
 <2> QED BY <1>1, <1>2, <1>4, <2>3, <2>5, <2>6, <2>7
<1> QED BY <1>3, <1>4

-----------------------------------------------------------------------------
(* The actions. *)

\* What a step says of the data while no write has failed.
Shows ==
  \/ /\ pc # "closed" /\ pc' # "closed" /\ accepted <= accepted'
     /\ Visible' \in Nat /\ Visible <= Visible' /\ Visible' <= accepted'
  \/ /\ pc # "closed" /\ pc' = "closed"
     /\ Visible' = accepted /\ UNCHANGED accepted
  \/ UNCHANGED <<accepted, Visible, pc>>

Kept == WriterInv' /\ (intact' => intact /\ Shows)

LEMMA InitWriterInv == WriterInit => WriterInv
<1> SUFFICES ASSUME WriterInit PROVE WriterInv OBVIOUS
<1>1. WriterTypeOK
 <2>1. pending \in Seq(UnitSet) /\ body \in Seq(UnitSet) BY DEF WriterInit
 <2>2. {0} \subseteq 0 .. MaxData /\ size \in Nat \ {0} BY DEF WriterInit
 <2> QED BY <2>1, <2>2 DEF WriterInit, WriterTypeOK
<1>2. Counts BY DEF WriterInit, Counts
<1>3. Visible = 0 /\ Between(pending, 0, 0) BY DEF WriterInit, Visible, Between
<1>4. Lasts /\ InOrder BY <1>3 DEF WriterInit, Lasts, InOrder
<1>5. StreamWhole BY DEF WriterInit, StreamWhole
<1> QED BY <1>1, <1>2, <1>4, <1>5 DEF WriterInv

\* The types, one by one.
LEMMA Typed ==
  ASSUME WriterTypeOK
  PROVE  /\ pc \in {"open", "writing", "closing", "whole", "closed"}
         /\ accepted \in 0 .. MaxData /\ avail_in \in 0 .. MaxData
         /\ total_in \in 0 .. MaxData /\ coded \in 0 .. MaxData
         /\ pending \in Seq(UnitSet) /\ body \in Seq(UnitSet)
         /\ size \in Nat /\ size > 0 /\ MaxData \in Nat
         /\ full \in BOOLEAN /\ ok \in BOOLEAN /\ intact \in BOOLEAN
<1>1. size \in Nat \ {0} BY DEF WriterTypeOK
<1>2. size \in Nat /\ size > 0 /\ MaxData \in Nat BY <1>1
<1> QED BY <1>2 DEF WriterTypeOK

\* Nothing that is kept back is the last unit before the writer is closed.
LEMMA NoneLast ==
  ASSUME Lasts, pc \notin {"closing", "closed"}
  PROVE  \A i \in 1 .. Len(pending) : ~pending[i].last
BY DEF Lasts

\* What is not sent yet of the data is at most what has been accepted.
LEMMA Behind ==
  ASSUME WriterInv
  PROVE  /\ coded \in Nat /\ total_in \in Nat /\ accepted \in Nat /\ avail_in \in Nat
         /\ coded <= total_in /\ total_in + avail_in <= accepted
         /\ total_in <= accepted /\ accepted <= MaxData /\ MaxData \in Nat
         /\ Visible \in Nat
         /\ intact /\ pc # "closed" => Visible <= coded /\ Visible <= accepted
<1>1. /\ coded \in Nat /\ total_in \in Nat /\ accepted \in Nat /\ avail_in \in Nat
      /\ accepted <= MaxData /\ MaxData \in Nat
  BY Typed DEF WriterInv
<1>2. coded <= total_in /\ total_in + avail_in <= accepted BY DEF WriterInv, Counts
<1>3. Visible \in Nat BY VisibleIsNat DEF WriterInv
<1>4. intact /\ pc # "closed" => Visible <= coded BY DEF WriterInv, InOrder
<1> QED BY <1>1, <1>2, <1>3, <1>4

LEMMA WriteKeeps == ASSUME WriterInv, NEW n \in 0 .. MaxData, Write(n) PROVE Kept
<1>1. /\ pc = "open" /\ accepted' = accepted + n /\ accepted' <= MaxData
      /\ UNCHANGED <<total_in, coded, pending, full, size, body, intact>>
      /\ \/ n = 0 /\ ok' = TRUE /\ UNCHANGED <<pc, avail_in>>
         \/ n > 0 /\ pc' = "writing" /\ avail_in' = n /\ UNCHANGED ok
  BY DEF Write, Nothing
<1>2. Visible' = Visible BY <1>1 DEF Visible
<1>3. WriterTypeOK'
 <2>1. /\ accepted' \in 0 .. MaxData /\ avail_in' \in 0 .. MaxData
       /\ pc' \in {"open", "writing", "closing", "whole", "closed"}
   BY <1>1, Typed, Behind DEF WriterInv
 <2>2. ok' \in BOOLEAN BY <1>1, Typed DEF WriterInv
 <2> QED BY <1>1, <2>1, <2>2 DEF WriterInv, WriterTypeOK
<1>4. Counts' BY <1>1, Behind DEF WriterInv, Counts
<1>5. Lasts' BY <1>1, NoneLast DEF WriterInv, Lasts
<1>6. InOrder' BY <1>1, <1>2 DEF WriterInv, InOrder, Between
<1>7. StreamWhole'
 <2>1. ASSUME intact PROVE ok' /\ \A i \in 1 .. Len(body) : ~body[i].last
  <3>1. ok /\ \A i \in 1 .. Len(body) : body[i].last => pc = "closed"
    BY <2>1 DEF WriterInv, StreamWhole
  <3>2. ok' = ok \/ ok' = TRUE BY <1>1
  <3>3. ok' BY <3>1, <3>2
  <3>4. pc # "closed" BY <1>1
  <3> QED BY <3>1, <3>3, <3>4
 <2>2. pc' # "closed" BY <1>1
 <2> QED BY <1>1, <2>1, <2>2 DEF StreamWhole
<1>8. intact' => Shows BY <1>1, <1>2, Behind DEF Shows
<1> QED BY <1>1, <1>3, <1>4, <1>5, <1>6, <1>7, <1>8 DEF WriterInv, Kept

LEMMA CloseKeeps == ASSUME WriterInv, Close PROVE Kept
<1>1. /\ pc = "open" /\ pc' = "closing" /\ avail_in' = 0 /\ size' = CompressBuffer
      /\ UNCHANGED <<accepted, total_in, coded, pending, full, body, ok, intact>>
  BY DEF Close
<1>2. Visible' = Visible BY <1>1 DEF Visible
<1>3. WriterTypeOK' BY <1>1 DEF WriterInv, WriterTypeOK
<1>4. Counts' BY <1>1, Behind DEF WriterInv, Counts
<1>5. Lasts' BY <1>1, NoneLast DEF WriterInv, Lasts
<1>6. InOrder' BY <1>1, <1>2 DEF WriterInv, InOrder, Between
<1>7. StreamWhole' BY <1>1 DEF WriterInv, StreamWhole
<1>8. intact' => Shows BY <1>1, <1>2, Behind DEF Shows
<1> QED BY <1>1, <1>3, <1>4, <1>5, <1>6, <1>7, <1>8 DEF WriterInv, Kept

LEMMA DestroyKeeps == ASSUME WriterInv, Destroy PROVE Kept
<1>1. /\ pc = "closed" /\ avail_in' = 0 /\ pending' = <<>> /\ full' = FALSE
      /\ size' = CompressBuffer
      /\ UNCHANGED <<pc, accepted, total_in, coded, body, ok, intact>>
  BY DEF Destroy
<1>2. Visible' = Visible BY <1>1 DEF Visible
<1>3. WriterTypeOK'
 <2>1. avail_in' \in 0 .. MaxData /\ size' \in Nat \ {0} /\ full' \in BOOLEAN
  <3>1. 0 \in 0 .. MaxData OBVIOUS
  <3> QED BY <1>1, <3>1
 <2>2. pending' \in Seq(UnitSet)
  <3>1. <<>> \in Seq(UnitSet) OBVIOUS
  <3> QED BY <1>1, <3>1
 <2>3. /\ pc' \in {"open", "writing", "closing", "whole", "closed"}
       /\ accepted' \in 0 .. MaxData /\ total_in' \in 0 .. MaxData
       /\ coded' \in 0 .. MaxData /\ body' \in Seq(UnitSet)
   BY <1>1, Typed DEF WriterInv
 <2>4. ok' \in BOOLEAN /\ intact' \in BOOLEAN BY <1>1, Typed DEF WriterInv
 <2> QED BY <2>1, <2>2, <2>3, <2>4 DEF WriterTypeOK
<1>4. Counts' BY <1>1, Behind DEF WriterInv, Counts
<1>5. Lasts' /\ InOrder' BY <1>1 DEF Lasts, InOrder
<1>6. StreamWhole' BY <1>1 DEF WriterInv, StreamWhole
<1>7. Shows BY <1>1, <1>2 DEF Shows
<1> QED BY <1>1, <1>3, <1>4, <1>5, <1>6, <1>7 DEF WriterInv, Kept

LEMMA CompressAllKeeps ==
  ASSUME WriterInv, NEW n \in 0 .. MaxData, CompressAll(n) PROVE Kept
<1>1. /\ pc = "open" /\ accepted = 0 /\ n <= MaxData
      /\ accepted' = n /\ total_in' = n /\ pc' = "whole"
      /\ UNCHANGED <<avail_in, coded, pending, full, size, body, ok, intact>>
  BY DEF CompressAll
<1>2. Visible' = Visible /\ coded = 0 /\ avail_in = 0 BY <1>1, Behind DEF Visible
<1>3. WriterTypeOK' BY <1>1 DEF WriterInv, WriterTypeOK
<1>4. Counts' BY <1>1, <1>2 DEF WriterInv, Counts
<1>5. Lasts' BY <1>1, NoneLast DEF WriterInv, Lasts
<1>6. InOrder' BY <1>1, <1>2 DEF WriterInv, InOrder, Between
<1>7. StreamWhole' BY <1>1 DEF WriterInv, StreamWhole
<1>8. intact' => Shows BY <1>1, <1>2, Behind DEF Shows
<1> QED BY <1>1, <1>3, <1>4, <1>5, <1>6, <1>7, <1>8 DEF WriterInv, Kept

\* What a turn has for dst: what was kept back and what is coded now.
LEMMA CodedOn ==
  ASSUME WriterInv, NEW to \in 0 .. MaxData, total_in <= to, NEW u \in Codings(to)
  PROVE  /\ Reached(u) \in 0 .. MaxData /\ coded <= Reached(u) /\ Reached(u) <= to
         /\ pending \o Units(u) \in Seq(UnitSet)
         /\ intact /\ pc # "closed" =>
              /\ Visible <= Reached(u)
              /\ Between(pending \o Units(u), Visible, Reached(u))
         /\ coded = to => u = <<>>
         /\ \A i \in 1 .. Len(pending \o Units(u)) :
              (pending \o Units(u))[i].last =>
                /\ i \in 1 .. Len(pending) /\ (pending \o Units(u))[i] = pending[i]
<1>1. coded \in 0 .. MaxData /\ coded <= to /\ pending \in Seq(UnitSet)
  BY Behind, Typed DEF WriterInv
<1>2. /\ Units(u) \in Seq(UnitSet) /\ Len(Units(u)) = Len(u)
      /\ Reached(u) \in coded .. to /\ Between(Units(u), coded, Reached(u))
      /\ \A i \in 1 .. Len(u) : ~Units(u)[i].last
      /\ coded = to => u = <<>>
  BY <1>1, CodingsFacts
<1>3. Reached(u) \in 0 .. MaxData /\ coded <= Reached(u) /\ Reached(u) <= to BY <1>1, <1>2
<1>4. pending \o Units(u) \in Seq(UnitSet) BY <1>1, <1>2
<1>5. ASSUME intact, pc # "closed"
      PROVE  Visible <= Reached(u) /\ Between(pending \o Units(u), Visible, Reached(u))
 <2>1. Visible \in Nat /\ Visible <= coded /\ Between(pending, Visible, coded)
   BY <1>5, Behind DEF WriterInv, InOrder
 <2>2. Reached(u) \in Nat /\ coded \in Nat /\ Visible <= Reached(u) BY <1>1, <1>3, <2>1
 <2> QED BY <1>1, <1>2, <1>3, <2>1, <2>2, BetweenJoined
<1>6. ASSUME NEW i \in 1 .. Len(pending \o Units(u)), (pending \o Units(u))[i].last
      PROVE  i \in 1 .. Len(pending) /\ (pending \o Units(u))[i] = pending[i]
 <2>1. /\ Len(pending \o Units(u)) = Len(pending) + Len(Units(u))
       /\ Len(pending) \in Nat /\ Len(Units(u)) \in Nat
  <3>1. pending \in Seq(UnitSet) /\ Units(u) \in Seq(UnitSet) BY <1>1, <1>2
  <3> QED BY <3>1
 <2>2. CASE i <= Len(pending) BY <1>1, <1>2, <2>1, <2>2
 <2>3. CASE i > Len(pending)
  <3>1. /\ i - Len(pending) \in 1 .. Len(Units(u))
        /\ (pending \o Units(u))[i] = Units(u)[i - Len(pending)]
    BY <1>1, <1>2, <2>1, <2>3
  <3> QED BY <1>2, <1>6, <3>1
 <2> QED BY <2>1, <2>2, <2>3
<1> QED BY <1>2, <1>3, <1>4, <1>5, <1>6

LEMMA WriteTurnKeeps == ASSUME WriterInv, WriteTurn PROVE Kept
<1>1. pc = "writing" /\ UNCHANGED <<accepted, size>> BY DEF WriteTurn
<1>2. \A i \in 1 .. Len(pending) : ~pending[i].last BY <1>1, NoneLast DEF WriterInv
<1>3. CASE NothingToDo
 <2>1. ~intact BY <1>1, <1>3, Behind DEF NothingToDo, WriterInv, Counts
 <2>2. /\ pc' = "open" /\ ok' = FALSE /\ intact' = FALSE
       /\ UNCHANGED <<avail_in, total_in, coded, pending, full, body>>
   BY <1>3, <2>1, Typed DEF WriteTurn, DeflateError, WriterInv
 <2>3. WriterTypeOK' BY <1>1, <2>2 DEF WriterInv, WriterTypeOK
 <2>4. Counts' BY <1>1, <2>2 DEF WriterInv, Counts
 <2>5. Lasts' BY <1>2, <2>2 DEF Lasts
 <2>6. InOrder' /\ StreamWhole' BY <2>2 DEF InOrder, StreamWhole
 <2> QED BY <2>2, <2>3, <2>4, <2>5, <2>6 DEF WriterInv, Kept
<1>4. CASE ~NothingToDo
 <2>1. PICK n \in 0 .. avail_in, good \in BOOLEAN : \E u \in Codings(total_in + n) :
         /\ avail_in' = avail_in - n /\ total_in' = total_in + n
         /\ coded' = Reached(u)
         /\ Output(pending \o Units(u), n = avail_in, good)
         /\ IF Again(good) THEN UNCHANGED <<pc, ok>>
                           ELSE pc' = "open" /\ ok' = good
   BY <1>4 DEF WriteTurn
 <2>2. PICK u \in Codings(total_in + n) :
         /\ avail_in' = avail_in - n /\ total_in' = total_in + n
         /\ coded' = Reached(u)
         /\ Output(pending \o Units(u), n = avail_in, good)
         /\ IF Again(good) THEN UNCHANGED <<pc, ok>>
                           ELSE pc' = "open" /\ ok' = good
   BY <2>1
 <2> DEFINE all == pending \o Units(u)
 <2>3. /\ n \in Nat /\ n <= avail_in /\ total_in + n \in 0 .. MaxData
       /\ total_in + n <= accepted /\ total_in <= total_in + n
   BY Behind
 <2>4. /\ coded' \in 0 .. MaxData /\ coded <= coded' /\ coded' <= total_in + n
       /\ all \in Seq(UnitSet)
       /\ intact => Visible <= coded' /\ Between(all, Visible, coded')
       /\ \A i \in 1 .. Len(all) :
            all[i].last => i \in 1 .. Len(pending) /\ all[i] = pending[i]
   BY <1>1, <2>2, <2>3, CodedOn
 <2>5. \A i \in 1 .. Len(all) : ~all[i].last BY <1>2, <2>4
 <2> HIDE DEF all
 <2>6. Output(all, n = avail_in, good) BY <2>2 DEF all
 <2>7. /\ pending' \in Seq(UnitSet) /\ body' \in Seq(UnitSet) /\ full' \in BOOLEAN
       /\ intact' = (intact /\ good) /\ (n # avail_in => full')
  <3>1. (n = avail_in) \in BOOLEAN /\ WriterTypeOK BY DEF WriterInv
  <3> QED BY <2>4, <2>6, <3>1, OutputFacts
 <2>8. \/ pc' = "writing" /\ ok' = ok /\ full' /\ good
       \/ pc' = "open" /\ ok' = good /\ ~(good /\ full')
   BY <1>1, <2>2 DEF Again
 <2>9. WriterTypeOK'
  <3>1. /\ avail_in' \in 0 .. MaxData /\ total_in' \in 0 .. MaxData BY <2>2, <2>3, Behind
  <3>2. /\ pc' \in {"open", "writing", "closing", "whole", "closed"}
        /\ accepted' \in 0 .. MaxData /\ size' \in Nat \ {0}
    BY <1>1, <2>8, Typed DEF WriterInv
  <3>3. ok' \in BOOLEAN /\ intact' \in BOOLEAN BY <2>7, <2>8, Typed DEF WriterInv
  <3> QED BY <2>4, <2>7, <3>1, <3>2, <3>3 DEF WriterTypeOK
 <2>10. Counts'
  <3>1. coded' <= total_in' /\ total_in' + avail_in' = total_in + avail_in
    BY <2>2, <2>3, <2>4, Behind, SMTT(30)
  <3>2. intact' => intact /\ good /\ total_in + avail_in = accepted
    BY <1>1, <2>7 DEF WriterInv, Counts
  <3>3. intact' /\ pc' # "writing" => avail_in' = 0 BY <2>2, <2>3, <2>7, <2>8, <3>2, Behind
  <3>4. intact' /\ pc' # "writing" => total_in' = accepted
    BY <2>2, <2>3, <3>1, <3>2, <3>3, Behind
  <3>5. pc' = "writing" => full' BY <2>8
  <3> QED BY <1>1, <3>1, <3>2, <3>4, <3>5, Behind DEF Counts
 <2>11. /\ \A i \in 1 .. Len(pending') : ~pending'[i].last
        /\ intact' => \A i \in 1 .. Len(body') : ~body'[i].last
  <3>1. (n = avail_in) \in BOOLEAN /\ WriterTypeOK BY DEF WriterInv
  <3>2. Len(all) \in Nat /\ size \in Nat BY <2>4, Typed DEF WriterInv
  <3>3. \A i \in 1 .. Len(all) : all[i].last => i = Len(all) BY <2>5
  <3>4. intact' => \A i \in 1 .. Len(body) : ~body[i].last
    BY <1>1, <2>7 DEF WriterInv, StreamWhole
  <3>5. /\ \A i \in 1 .. Len(pending') :
            pending'[i].last => Len(all) > size /\ all[Len(all)].last
        /\ good /\ (\A i \in 1 .. Len(body) : ~body[i].last) =>
             \A i \in 1 .. Len(body') :
               body'[i].last => Len(all) > 0 /\ all[Len(all)].last
    BY <2>4, <2>6, <3>1, <3>3, LastsKept
  <3>6. Len(all) > 0 => ~all[Len(all)].last BY <2>5, <3>2
  <3>7. Len(all) > size => Len(all) > 0 BY <3>2
  <3>8. intact' => good BY <2>7
  <3> QED BY <3>4, <3>5, <3>6, <3>7, <3>8
 <2>12. Lasts' BY <2>11 DEF Lasts
 <2>13. intact' => /\ intact /\ Visible \in Nat /\ Visible' \in Nat
                   /\ Visible <= Visible' /\ Visible' <= coded'
                   /\ Between(pending', Visible', coded')
  <3> SUFFICES ASSUME intact'
               PROVE  /\ intact /\ Visible \in Nat /\ Visible' \in Nat
                      /\ Visible <= Visible' /\ Visible' <= coded'
                      /\ Between(pending', Visible', coded')
    OBVIOUS
  <3>1. intact /\ good = TRUE BY <2>7
  <3>2. (n = avail_in) \in BOOLEAN /\ WriterTypeOK /\ coded' \in Nat BY <2>4 DEF WriterInv
  <3>3. Output(all, n = avail_in, TRUE) BY <2>6, <3>1
  <3> QED BY <2>4, <3>1, <3>2, <3>3, Behind, FrontShown
 <2>14. InOrder' BY <2>13 DEF InOrder
 <2>15. StreamWhole'
  <3>1. pc' # "closed" BY <2>8
  <3>2. intact' => ok'
   <4>1. intact' => ok /\ good BY <2>7, <2>13 DEF WriterInv, StreamWhole
   <4>2. ok' = ok \/ ok' = good BY <2>8
   <4> QED BY <4>1, <4>2
  <3>3. intact' => \A i \in 1 .. Len(body') : ~body'[i].last BY <2>11
  <3> QED BY <3>1, <3>2, <3>3 DEF StreamWhole
 <2>16. intact' => Shows
  <3>1. pc # "closed" /\ pc' # "closed" /\ accepted' = accepted BY <1>1, <2>8
  <3>2. coded' <= accepted BY <2>3, <2>4, Behind
  <3> QED BY <2>4, <2>13, <3>1, <3>2, Behind DEF Shows
 <2> QED BY <2>9, <2>10, <2>12, <2>13, <2>14, <2>15, <2>16 DEF WriterInv, Kept
<1> QED BY <1>3, <1>4

\* The last unit comes when all is coded, and only once.
LEMMA EndingLast ==
  ASSUME WriterInv, pc = "closing", NEW u \in Codings(total_in)
  PROVE  LET all == pending \o Units(u) \o Ending(Reached(u))
         IN  /\ all \in Seq(UnitSet) /\ Reached(u) \in 0 .. MaxData
             /\ coded <= Reached(u) /\ Reached(u) <= total_in
             /\ intact => Visible <= Reached(u) /\ Between(all, Visible, Reached(u))
             /\ \A i \in 1 .. Len(all) :
                  all[i].last => /\ i = Len(all) /\ Reached(u) = total_in
                                 /\ all[i].upto = total_in
             /\ Reached(u) = total_in => all # <<>> /\ all[Len(all)].last
<1> DEFINE first == pending \o Units(u)
           ending == Ending(Reached(u))
           all == first \o ending
<1>1. /\ pending \in Seq(UnitSet) /\ total_in \in 0 .. MaxData /\ total_in \in Nat
      /\ Visible \in Nat
  BY Typed, Behind DEF WriterInv
<1>2. /\ Reached(u) \in 0 .. MaxData /\ coded <= Reached(u) /\ Reached(u) <= total_in
      /\ first \in Seq(UnitSet)
      /\ intact => Visible <= Reached(u) /\ Between(first, Visible, Reached(u))
      /\ coded = total_in => u = <<>>
      /\ \A i \in 1 .. Len(first) :
           first[i].last => i \in 1 .. Len(pending) /\ first[i] = pending[i]
  BY <1>1, CodedOn
<1>3. \A i \in 1 .. Len(pending) :
        pending[i].last => /\ i = Len(pending) /\ pending[i].upto = total_in
                           /\ coded = total_in
  BY DEF WriterInv, Lasts
<1>4. ASSUME TrailerMade
      PROVE  /\ Len(pending) \in 1 .. Len(pending) /\ coded = total_in
             /\ Reached(u) = total_in /\ ending = <<>> /\ first = pending
             /\ pending[Len(pending)].last
 <2>1. Len(pending) \in 1 .. Len(pending) /\ pending[Len(pending)].last
   BY <1>1, <1>4 DEF TrailerMade
 <2>2. coded = total_in BY <1>3, <2>1
 <2>3. Reached(u) = total_in BY <1>1, <1>2, <2>2
 <2>4. ending = <<>> BY <1>4 DEF Ending
 <2>5. first = pending
  <3>1. Units(u) \in Seq(UnitSet) /\ Len(Units(u)) = Len(u) /\ u = <<>>
    BY <1>1, <1>2, <2>2, Behind, Typed, CodingsFacts DEF WriterInv
  <3>2. Units(u) = <<>> BY <3>1
  <3> QED BY <1>1, <3>2
 <2> QED BY <2>1, <2>2, <2>3, <2>4, <2>5
<1>5. ASSUME ~TrailerMade PROVE \A i \in 1 .. Len(first) : ~first[i].last
 <2> SUFFICES ASSUME NEW i \in 1 .. Len(first), first[i].last PROVE FALSE OBVIOUS
 <2>1. i \in 1 .. Len(pending) /\ pending[i].last BY <1>2
 <2>2. i = Len(pending) BY <1>3, <2>1
 <2>3. pending # <<>> BY <1>1, <2>1
 <2> QED BY <1>5, <2>1, <2>2, <2>3 DEF TrailerMade
<1> HIDE DEF first
<1>6. CASE TrailerMade
 <2>1. all = pending BY <1>1, <1>4, <1>6
 <2>2. pending # <<>> BY <1>6 DEF TrailerMade
 <2> QED BY <1>2, <1>3, <1>4, <1>6, <2>1, <2>2 DEF first
<1>7. CASE ~TrailerMade /\ Reached(u) # total_in
 <2>1. ending = <<>> BY <1>7 DEF Ending
 <2>2. all = first BY <1>2, <2>1
 <2> QED BY <1>2, <1>5, <1>7, <2>2 DEF first
<1>8. CASE ~TrailerMade /\ Reached(u) = total_in
 <2>1. ending = <<[upto |-> total_in, last |-> FALSE], [upto |-> total_in, last |-> TRUE]>>
   BY <1>8 DEF Ending, Trailer, Unit
 <2>2. /\ ending \in Seq(UnitSet) /\ Len(ending) = 2
       /\ ending[1] = [upto |-> total_in, last |-> FALSE]
       /\ ending[2] = [upto |-> total_in, last |-> TRUE]
  <3>1. /\ [upto |-> total_in, last |-> FALSE] \in UnitSet
        /\ [upto |-> total_in, last |-> TRUE] \in UnitSet
    BY <1>1 DEF UnitSet
  <3> QED BY <2>1, <3>1
 <2> HIDE DEF ending
 <2>3. Between(ending, total_in, total_in) BY <1>1, <2>2 DEF Between
 <2>4. /\ all \in Seq(UnitSet) /\ Len(all) = Len(first) + 2 /\ Len(first) \in Nat
       /\ \A i \in 1 .. Len(first) : all[i] = first[i]
       /\ all[Len(first) + 1] = ending[1] /\ all[Len(first) + 2] = ending[2]
  <3>1. /\ all \in Seq(UnitSet) /\ Len(all) = Len(first) + Len(ending)
        /\ Len(first) \in Nat
        /\ \A i \in 1 .. Len(first) + Len(ending) :
             all[i] = IF i <= Len(first) THEN first[i] ELSE ending[i - Len(first)]
    BY <1>2, <2>2, Joined
  <3> HIDE DEF all
  <3>2. Len(all) = Len(first) + 2 /\ all \in Seq(UnitSet) /\ Len(first) \in Nat BY <2>2, <3>1
  <3>3. \A i \in 1 .. Len(first) : i \in 1 .. Len(first) + Len(ending) /\ i <= Len(first)
    BY <2>2, <3>1
  <3>4. /\ Len(first) + 1 \in 1 .. Len(first) + Len(ending)
        /\ Len(first) + 2 \in 1 .. Len(first) + Len(ending)
        /\ ~(Len(first) + 1 <= Len(first)) /\ ~(Len(first) + 2 <= Len(first))
        /\ Len(first) + 1 - Len(first) = 1 /\ Len(first) + 2 - Len(first) = 2
    BY <2>2, <3>1
  <3> QED BY <3>1, <3>2, <3>3, <3>4
 <2>5. intact => Between(all, Visible, total_in) BY <1>1, <1>2, <1>8, <2>2, <2>3, BetweenJoined
 <2> HIDE DEF all
 <2>6. \A i \in 1 .. Len(all) : all[i].last => i = Len(all) /\ all[i].upto = total_in
  <3> SUFFICES ASSUME NEW i \in 1 .. Len(all), all[i].last
               PROVE  i = Len(all) /\ all[i].upto = total_in
    OBVIOUS
  <3>1. \/ i \in 1 .. Len(first)
        \/ i = Len(first) + 1
        \/ i = Len(first) + 2
    BY <2>4
  <3> QED BY <1>5, <1>8, <2>2, <2>4, <3>1
 <2>7. all # <<>> /\ all[Len(all)].last BY <2>2, <2>4
 <2> QED BY <1>2, <1>8, <2>4, <2>5, <2>6, <2>7 DEF all, first, ending
<1> QED BY <1>6, <1>7, <1>8

LEMMA CloseTurnKeeps == ASSUME WriterInv, CloseTurn PROVE Kept
<1>1. pc = "closing" /\ UNCHANGED <<accepted, avail_in, total_in>> BY DEF CloseTurn
<1>2. PICK good \in BOOLEAN, u \in Codings(total_in) :
        LET all == pending \o Units(u) \o Ending(Reached(u))
            end == Reached(u) = total_in /\ Len(all) <= size
        IN  /\ coded' = Reached(u)
            /\ Output(all, end, good)
            /\ size' = IF end THEN size ELSE 2 * size
            /\ pc' = IF good /\ ~end THEN "closing" ELSE "closed"
            /\ ok' = IF good /\ ~end THEN ok ELSE good
  BY DEF CloseTurn
<1> DEFINE all == pending \o Units(u) \o Ending(Reached(u))
           end == Reached(u) = total_in /\ Len(all) <= size
<1>3. /\ coded' = Reached(u) /\ Output(all, end, good)
      /\ size' = IF end THEN size ELSE 2 * size
      /\ pc' = IF good /\ ~end THEN "closing" ELSE "closed"
      /\ ok' = IF good /\ ~end THEN ok ELSE good
  BY <1>2
<1>4. /\ all \in Seq(UnitSet) /\ Reached(u) \in 0 .. MaxData
      /\ coded <= Reached(u) /\ Reached(u) <= total_in
      /\ intact => Visible <= Reached(u) /\ Between(all, Visible, Reached(u))
      /\ \A i \in 1 .. Len(all) :
           all[i].last => /\ i = Len(all) /\ Reached(u) = total_in
                          /\ all[i].upto = total_in
      /\ Reached(u) = total_in => all # <<>> /\ all[Len(all)].last
  BY <1>1, EndingLast
<1> HIDE DEF all
<1>5. end \in BOOLEAN /\ (end <=> coded' = total_in /\ Len(all) <= size) BY <1>3
<1>6. WriterTypeOK /\ size \in Nat /\ size > 0 /\ total_in \in Nat BY Typed DEF WriterInv
<1> HIDE DEF end
<1>7. /\ pending' \in Seq(UnitSet) /\ body' \in Seq(UnitSet) /\ full' \in BOOLEAN
      /\ intact' = (intact /\ good)
  BY <1>3, <1>4, <1>5, <1>6, OutputFacts
<1>8. /\ Len(all) \in Nat
      /\ \A i \in 1 .. Len(all) :
           all[i].last => i = Len(all) /\ coded' = total_in /\ all[i].upto = total_in
      /\ coded' = total_in =>
           all # <<>> /\ Len(all) > 0 /\ Len(all) \in 1 .. Len(all) /\ all[Len(all)].last
  BY <1>3, <1>4
<1>9. /\ \A i \in 1 .. Len(pending') :
           pending'[i].last => /\ i = Len(pending') /\ Len(all) > size
                               /\ pending'[i] = all[Len(all)] /\ all[Len(all)].last
      /\ good /\ (\A i \in 1 .. Len(body) : ~body[i].last) =>
           \A i \in 1 .. Len(body') :
             body'[i].last => /\ i = Len(body') /\ Len(all) <= size
                              /\ Len(all) > 0 /\ all[Len(all)].last
  BY <1>3, <1>4, <1>5, <1>6, <1>8, LastsKept
<1>10. WriterTypeOK'
 <2>1. size' \in Nat \ {0} BY <1>3, <1>6
 <2>2. coded' \in 0 .. MaxData /\ pc' \in {"open", "writing", "closing", "whole", "closed"}
   BY <1>3, <1>4
 <2>3. ok' \in BOOLEAN /\ intact' \in BOOLEAN BY <1>3, <1>7, Typed DEF WriterInv
 <2>4. /\ accepted' \in 0 .. MaxData /\ total_in' \in 0 .. MaxData
       /\ avail_in' \in 0 .. MaxData
   BY <1>1, Typed DEF WriterInv
 <2> QED BY <1>7, <2>1, <2>2, <2>3, <2>4 DEF WriterTypeOK
<1>11. Counts'
 <2>1. coded' <= total_in' /\ total_in' + avail_in' <= accepted' BY <1>1, <1>3, <1>4, Behind
 <2>2. pc' # "writing" /\ (intact' => total_in' = accepted')
   BY <1>1, <1>3, <1>7 DEF WriterInv, Counts
 <2> QED BY <2>1, <2>2 DEF Counts
<1>12. Lasts'
 <2> SUFFICES ASSUME NEW i \in 1 .. Len(pending'), pending'[i].last
              PROVE  /\ i = Len(pending') /\ pending'[i].upto = total_in'
                     /\ coded' = total_in' /\ pc' \in {"closing", "closed"}
   BY DEF Lasts
 <2>1. /\ i = Len(pending') /\ Len(all) > size
       /\ pending'[i] = all[Len(all)] /\ all[Len(all)].last
   BY <1>9
 <2>2. Len(all) \in 1 .. Len(all) BY <1>6, <1>8, <2>1
 <2>3. coded' = total_in /\ all[Len(all)].upto = total_in BY <1>8, <2>1, <2>2
 <2>4. pc' \in {"closing", "closed"} BY <1>3
 <2> QED BY <1>1, <2>1, <2>3, <2>4
<1>13. ASSUME intact'
       PROVE  /\ intact /\ good = TRUE /\ Visible' \in Nat /\ Visible <= Visible'
              /\ Visible' <= coded' /\ Between(pending', Visible', coded')
              /\ Len(all) <= size /\ all # <<>> =>
                   /\ Visible' = all[Len(all)].upto
                   /\ body' # <<>> /\ body'[Len(body')] = all[Len(all)]
 <2>1. intact /\ good = TRUE BY <1>7, <1>13
 <2>2. Output(all, end, TRUE) /\ coded' \in Nat
  <3>1. Output(all, end, good) /\ coded' = Reached(u) BY <1>3
  <3>2. coded' \in Nat BY <1>4, <3>1
  <3>3. good = TRUE BY <2>1
  <3> QED BY <3>1, <3>2, <3>3
 <2>3. Visible <= coded' /\ Between(all, Visible, coded') BY <1>3, <1>4, <2>1
 <2> QED BY <1>4, <1>5, <1>6, <2>1, <2>2, <2>3, FrontShown
<1>14. InOrder' BY <1>13 DEF InOrder
<1>15. ASSUME intact', end
       PROVE  /\ body' # <<>> /\ body'[Len(body')].last
              /\ Visible' = accepted /\ pc' = "closed"
 <2>1. all # <<>> /\ Len(all) <= size /\ all[Len(all)].last /\ all[Len(all)].upto = total_in
   BY <1>5, <1>8, <1>15
 <2>2. total_in = accepted BY <1>1, <1>13, <1>15 DEF WriterInv, Counts
 <2>3. pc' = "closed" BY <1>3, <1>15
 <2> QED BY <1>13, <1>15, <2>1, <2>2, <2>3
<1>16. StreamWhole'
 <2> SUFFICES ASSUME intact'
              PROVE  /\ ok'
                     /\ pc' = "closed" => body' # <<>> /\ body'[Len(body')].last
                     /\ \A i \in 1 .. Len(body') :
                          body'[i].last => i = Len(body') /\ pc' = "closed"
   BY DEF StreamWhole
 <2>1. intact /\ good = TRUE BY <1>13
 <2>2. ok /\ \A i \in 1 .. Len(body) : ~body[i].last BY <1>1, <2>1 DEF WriterInv, StreamWhole
 <2>3. ok'
  <3>1. ok' = ok \/ ok' = good BY <1>3
  <3> QED BY <2>1, <2>2, <3>1
 <2>4. pc' = "closed" => end BY <1>3, <2>1
 <2>5. \A i \in 1 .. Len(body') : body'[i].last => i = Len(body') /\ end
  <3> SUFFICES ASSUME NEW i \in 1 .. Len(body'), body'[i].last PROVE i = Len(body') /\ end
    OBVIOUS
  <3>1. i = Len(body') /\ Len(all) <= size /\ Len(all) > 0 /\ all[Len(all)].last
    BY <1>9, <2>1, <2>2
  <3>2. coded' = total_in BY <1>8, <3>1
  <3> QED BY <1>5, <3>1, <3>2
 <2> QED BY <1>15, <2>3, <2>4, <2>5
<1>17. intact' => Shows
 <2> SUFFICES ASSUME intact' PROVE Shows OBVIOUS
 <2>1. CASE end BY <1>1, <1>15, <2>1 DEF Shows
 <2>2. CASE ~end
  <3>1. pc' = "closing" BY <1>3, <1>13, <2>2
  <3>2. coded' <= accepted /\ accepted \in Nat BY <1>3, <1>4, Behind
  <3>3. Visible <= Visible' /\ Visible' <= accepted' /\ accepted <= accepted'
    BY <1>1, <1>3, <1>4, <1>13, <3>2
  <3> QED BY <1>1, <1>13, <3>1, <3>3 DEF Shows
 <2> QED BY <2>1, <2>2
<1> QED BY <1>10, <1>11, <1>12, <1>13, <1>14, <1>16, <1>17 DEF WriterInv, Kept

LEMMA WriteAllKeeps == ASSUME WriterInv, WriteAll PROVE Kept
<1>1. /\ pc = "whole" /\ pc' = "closed" /\ coded' = total_in
      /\ UNCHANGED <<accepted, avail_in, total_in, pending, full, size>>
  BY DEF WriteAll
<1>2. PICK good \in BOOLEAN, u \in Codings(total_in) :
        /\ body' = IF good THEN Units(u) \o Trailer(total_in) ELSE body
        /\ ok' = good /\ intact' = (intact /\ good)
  BY DEF WriteAll
<1>3. /\ total_in \in 0 .. MaxData /\ coded \in 0 .. MaxData /\ coded <= total_in
      /\ pending \in Seq(UnitSet) /\ body \in Seq(UnitSet)
  BY Typed, Behind DEF WriterInv
<1>4. /\ Units(u) \in Seq(UnitSet)
      /\ \A i \in 1 .. Len(Units(u)) : ~Units(u)[i].last
  BY <1>3, CodingsFacts
<1>5. /\ Trailer(total_in) \in Seq(UnitSet) /\ Len(Trailer(total_in)) = 2
      /\ Trailer(total_in)[1] = [upto |-> total_in, last |-> FALSE]
      /\ Trailer(total_in)[2] = [upto |-> total_in, last |-> TRUE]
 <2>1. /\ [upto |-> total_in, last |-> FALSE] \in UnitSet
       /\ [upto |-> total_in, last |-> TRUE] \in UnitSet
   BY <1>3 DEF UnitSet
 <2> QED BY <2>1 DEF Trailer, Unit
<1> DEFINE all == Units(u) \o Trailer(total_in)
<1>6. /\ all \in Seq(UnitSet) /\ Len(all) = Len(Units(u)) + 2 /\ Len(Units(u)) \in Nat
      /\ \A i \in 1 .. Len(Units(u)) + 2 :
           all[i] = IF i <= Len(Units(u)) THEN Units(u)[i]
                                          ELSE Trailer(total_in)[i - Len(Units(u))]
  BY <1>4, <1>5, Joined
<1>7. body' = IF good THEN all ELSE body BY <1>2
<1> HIDE DEF all
<1>8. /\ all # <<>> /\ all[Len(all)] = [upto |-> total_in, last |-> TRUE]
      /\ \A i \in 1 .. Len(all) : all[i].last => i = Len(all)
 <2>1. all[Len(Units(u)) + 2] = Trailer(total_in)[2] BY <1>6
 <2>2. all[Len(Units(u)) + 1] = Trailer(total_in)[1] BY <1>6
 <2>3. \A i \in 1 .. Len(all) :
         \/ i = Len(all) \/ i = Len(Units(u)) + 1
         \/ i \in 1 .. Len(Units(u)) /\ i <= Len(Units(u))
  <3> SUFFICES ASSUME NEW i \in 1 .. Len(all)
               PROVE  \/ i = Len(all) \/ i = Len(Units(u)) + 1
                      \/ i \in 1 .. Len(Units(u)) /\ i <= Len(Units(u))
    OBVIOUS
  <3>1. Len(all) = Len(Units(u)) + 2 /\ Len(Units(u)) \in Nat BY <1>6
  <3>2. i \in 1 .. Len(Units(u)) + 2 BY <3>1
  <3> QED BY <3>1, <3>2
 <2>4. \A i \in 1 .. Len(Units(u)) : all[i] = Units(u)[i] BY <1>6
 <2>5. ~all[Len(Units(u)) + 1].last BY <1>5, <2>2
 <2>6. all # <<>> /\ all[Len(all)] = [upto |-> total_in, last |-> TRUE] BY <1>5, <1>6, <2>1
 <2>7. \A i \in 1 .. Len(all) : all[i].last => i = Len(all) BY <1>4, <2>3, <2>4, <2>5
 <2> QED BY <2>6, <2>7
<1>9. WriterTypeOK'
 <2>1. body' \in Seq(UnitSet) /\ ok' \in BOOLEAN /\ intact' \in BOOLEAN BY <1>2, <1>3, <1>6, <1>7
 <2>2. coded' \in 0 .. MaxData /\ pc' \in {"open", "writing", "closing", "whole", "closed"}
   BY <1>1, <1>3
 <2> QED BY <1>1, <2>1, <2>2 DEF WriterInv, WriterTypeOK
<1>10. intact' => intact /\ good = TRUE /\ body' = all BY <1>2, <1>7
<1>11. Counts' BY <1>1, <1>3, <1>10, Behind DEF WriterInv, Counts
<1>12. Lasts' /\ InOrder' BY <1>1, NoneLast DEF WriterInv, Lasts, InOrder
<1>13. StreamWhole'
 <2> SUFFICES ASSUME intact'
              PROVE  /\ ok'
                     /\ pc' = "closed" => body' # <<>> /\ body'[Len(body')].last
                     /\ \A i \in 1 .. Len(body') :
                          body'[i].last => i = Len(body') /\ pc' = "closed"
   BY DEF StreamWhole
 <2>1. body' = all /\ good = TRUE BY <1>10
 <2>2. ok' BY <1>2, <2>1
 <2> QED BY <1>1, <1>8, <2>1, <2>2
<1>14. intact' => Shows
 <2> SUFFICES ASSUME intact' PROVE Shows OBVIOUS
 <2>1. Visible' = total_in BY <1>8, <1>10 DEF Visible
 <2>2. total_in = accepted BY <1>1, <1>10 DEF WriterInv, Counts
 <2> QED BY <1>1, <2>1, <2>2 DEF Shows
<1> QED BY <1>9, <1>10, <1>11, <1>12, <1>13, <1>14 DEF WriterInv, Kept

-----------------------------------------------------------------------------
(* The theorems. *)

LEMMA NextKeeps == ASSUME WriterInv, WriterNext PROVE Kept
<1>1. ASSUME NEW n \in 0 .. MaxData, Write(n) \/ CompressAll(n) PROVE Kept
  BY <1>1, WriteKeeps, CompressAllKeeps
<1>2. CASE Close \/ Destroy BY <1>2, CloseKeeps, DestroyKeeps
<1>3. CASE WriteTurn \/ CloseTurn \/ WriteAll
  BY <1>3, WriteTurnKeeps, CloseTurnKeeps, WriteAllKeeps
<1> QED BY <1>1, <1>2, <1>3 DEF WriterNext

LEMMA StepKeeps == WriterInv /\ [WriterNext]_writerVars => WriterInv'
<1> SUFFICES ASSUME WriterInv, [WriterNext]_writerVars PROVE WriterInv' OBVIOUS
<1>1. CASE WriterNext BY <1>1, NextKeeps DEF Kept
<1>2. CASE UNCHANGED writerVars
  BY <1>2 DEF writerVars, WriterInv, WriterTypeOK, Counts, Lasts, InOrder, Between, StreamWhole,
     Visible
<1> QED BY <1>1, <1>2

\* The invariant of the compressing writer, whatever its sizes.
THEOREM CompressorInvariant == WriterSpec => []WriterInv
BY InitWriterInv, StepKeeps, PTL DEF WriterSpec

\* The types of the compressing writer.
THEOREM CompressorTypeOK == WriterSpec => []WriterTypeOK
<1>1. WriterInv => WriterTypeOK BY DEF WriterInv
<1> QED BY <1>1, CompressorInvariant, PTL

\* No call fails unless a write below does, so deflate is never asked for nothing,
\* and the stream ends once, when the writer is closed, for buffers of any size.
THEOREM CompressorStreamWhole == WriterSpec => []StreamWhole
<1>1. WriterInv => StreamWhole BY DEF WriterInv
<1> QED BY <1>1, CompressorInvariant, PTL

\* The compressing writer is a byte stream to whoever decompresses what it writes.
THEOREM CompressorImplementsByteStream == WriterSpec => IsByteStream
<1>1. WriterInit => Stream!Init BY DEF WriterInit, Stream!Init, Visible
<1>2. WriterInv /\ WriterInv' /\ [WriterNext]_writerVars
        => [Stream!Next]_<<accepted, Visible, pc = "closed", ~intact>>
 <2> SUFFICES ASSUME WriterInv, WriterInv', [WriterNext]_writerVars
              PROVE  [Stream!Next]_<<accepted, Visible, pc = "closed", ~intact>>
   OBVIOUS
 <2>1. accepted \in Nat /\ Visible \in Nat BY Behind
 <2>2. accepted' \in Nat BY DEF WriterInv, WriterTypeOK
 <2>3. CASE ~intact' BY <2>3 DEF Stream!Next
 <2>4. CASE WriterNext /\ intact'
  <3>1. intact /\ Shows BY <2>4, NextKeeps DEF Kept
  <3> QED BY <2>1, <2>2, <2>4, <3>1 DEF Shows, Stream!Next, Stream!Write, Stream!Close
 <2>5. CASE UNCHANGED writerVars BY <2>5 DEF writerVars, Visible
 <2> QED BY <2>3, <2>4, <2>5
<1> QED BY <1>1, <1>2, CompressorInvariant, PTL DEF WriterSpec, IsByteStream, Stream!Spec

HIDE DEF CompressWriterAssumption

-----------------------------------------------------------------------------
(* What is sent. *)

\* The units say in order how far the data can be restored.
Ordered(s) == \A i, j \in 1 .. Len(s) : i < j => s[i].upto <= s[j].upto
BodyInv == intact => Ordered(body) /\ (pc = "closed" => Visible = accepted)

\* Nothing has arrived while the data is written.
NotYet ==
  phase = "write" =>
    Reader!Init /\ packet = <<>> /\ region = 0 /\ indeterminate = FALSE /\ bad = 0

\* The last unit of a stream stands where it stood when it was sent, and a packet
\* that has it has all that its length promises.
PacketOK ==
  /\ packet \in Seq(UnitSet) /\ Ordered(packet) /\ region \in Nat /\ indeterminate \in BOOLEAN
  /\ bad \in Nat /\ bad <= Len(packet) /\ bad <= Len(body)
  /\ \A i \in 1 .. Len(packet) :
       packet[i].last => i = Len(body) /\ packet[i].upto = accepted /\ region <= Len(packet)
  /\ phase = "read" => body # <<>> /\ body[Len(body)].last

-----------------------------------------------------------------------------
(* What is read. *)

\* Where inflate stands.
Inflated ==
  /\ used \in Nat /\ length_read \in Nat /\ total_out \in Nat
  /\ used <= length_read /\ length_read <= used + DecompressBuffer
  /\ length_read <= Len(packet)
  /\ ~indeterminate => length_read <= region
  /\ bad = 0 \/ used < bad
  /\ total_out <= Reader!Restored(used)
  /\ inflate_ret \in {"Z_OK", "Z_STREAM_END", "Z_DATA_ERROR", "Z_BUF_ERROR"}
  /\ inflate_ret = "Z_STREAM_END" =>
       used > 0 /\ packet[used].last /\ total_out = packet[used].upto

\* The packet has ended before its length, and inflate needs more.
Stuck == length_read + Reader!Wanted > Len(packet) /\ out = <<>>

\* What inflate has put out is given, copied or still in the filling.
Delivered ==
  /\ out \in Seq(1 .. MaxData) /\ Len(out) <= DecompressBuffer /\ offset \in 0 .. Len(out)
  /\ dest \in Seq(0 .. MaxData) /\ given \in Seq(0 .. MaxData) /\ length \in 0 .. MaxRead
  /\ ret \in {"reading", "abort", "read", "zero", "minus"} /\ spans \in BOOLEAN
  /\ ret = "reading" => length \in 1 .. Len(dest)
  /\ ret # "abort" => Stuck \/ Len(given) + Copied + Len(out) - offset = total_out

\* As long as no read takes from two fillings all of it is the data in its order.
InPlace ==
  ~spans =>
    /\ \A i \in 1 .. Len(out) : out[i] = total_out - Len(out) + i
    /\ \A i \in 1 .. Len(given) : given[i] = i
    /\ ret = "reading" /\ length < Len(dest) =>
         /\ offset = Len(out)
         /\ \A i \in 1 .. Len(dest) - length : dest[i] = Len(given) + i

\* Which errors are noticed.
Noticed ==
  /\ errors \in BOOLEAN
  /\ ret = "zero" => inflate_ret = "Z_STREAM_END" /\ offset = Len(out)
  /\ inflate_ret = "Z_STREAM_END" /\ ~indeterminate /\ length_read # region => errors
  /\ Intact /\ indeterminate => errors = FALSE

ReadInv == Inflated /\ Delivered /\ InPlace /\ Noticed
CompressInv ==
  WriterInv /\ BodyInv /\ phase \in {"write", "read"} /\ NotYet /\ PacketOK /\ ReadInv

USE CompressWriterAssumption, CompressAssumption
    DEF CompressWriterAssumption, CompressAssumption

-----------------------------------------------------------------------------
(* The greatest number of a set. *)

Less == {p \in Nat \X Nat : p[1] < p[2]}

\* A set of numbers has a least one.
LEMMA Least ==
  ASSUME NEW T, T \subseteq Nat, T # {} PROVE \E n \in T : \A m \in T : n <= m
<1>1. IsWellFoundedOn(Less, Nat) BY NatLessThanWellFounded DEF OpToRel, Less
<1>2. PICK n \in T : \A m \in T : <<m, n>> \notin Less BY <1>1, WFMin
<1>3. ASSUME NEW m \in T PROVE n <= m
 <2>1. m \in Nat /\ n \in Nat /\ ~(m < n) BY <1>2 DEF Less
 <2> QED BY <2>1
<1> QED BY <1>3

\* And a greatest one, when it has a bound.
LEMMA Greatest ==
  ASSUME NEW n \in Nat, NEW S \in SUBSET (0 .. n), S # {}
  PROVE  \E m \in S : \A k \in S : k <= m
<1> DEFINE T == {n - m : m \in S}
<1>1. T \subseteq Nat /\ T # {}
 <2>1. \A m \in S : n - m \in Nat OBVIOUS
 <2>2. PICK m \in S : TRUE OBVIOUS
 <2>3. n - m \in T OBVIOUS
 <2> QED BY <2>1, <2>3
<1>2. PICK t \in T : \A u \in T : t <= u
 <2> HIDE DEF T
 <2> QED BY <1>1, Least
<1>3. PICK m \in S : t = n - m OBVIOUS
<1>4. ASSUME NEW k \in S PROVE k <= m
 <2>1. n - k \in T OBVIOUS
 <2>2. n - m <= n - k BY <2>1, <1>2, <1>3
 <2>3. k \in 0 .. n /\ m \in 0 .. n OBVIOUS
 <2>4. k \in Int /\ m \in Int /\ n \in Int BY <2>3
 <2> HIDE DEF T
 <2> QED BY <2>2, <2>4
<1> QED BY <1>4

-----------------------------------------------------------------------------
(* Sequences. *)

\* A function on the first numbers is a sequence.
LEMMA FromFunction ==
  ASSUME NEW S, NEW n \in Nat, NEW e \in [1 .. n -> S] PROVE e \in Seq(S) /\ Len(e) = n
OBVIOUS

\* What is appended stands behind what was there.
LEMMA Appended ==
  ASSUME NEW S, NEW s \in Seq(S), NEW t \in Seq(S), NEW m \in Nat, NEW n \in Nat,
         Len(s) = m, Len(t) = n
  PROVE  /\ s \o t \in Seq(S) /\ Len(s \o t) = m + n
         /\ \A i \in 1 .. m : (s \o t)[i] = s[i]
         /\ \A i \in 1 .. n : (s \o t)[m + i] = t[i]
<1>1. /\ s \o t \in Seq(S) /\ Len(s \o t) = m + n
      /\ \A i \in 1 .. m + n : (s \o t)[i] = IF i <= m THEN s[i] ELSE t[i - m]
  BY ConcatProperties
<1>2. ASSUME NEW i \in 1 .. m PROVE (s \o t)[i] = s[i]
 <2>1. i \in 1 .. m + n /\ i <= m OBVIOUS
 <2> QED BY <1>1, <2>1
<1>3. ASSUME NEW i \in 1 .. n PROVE (s \o t)[m + i] = t[i]
 <2> DEFINE h == m + i
 <2>1. h \in 1 .. m + n /\ ~(h <= m) /\ h - m = i OBVIOUS
 <2> HIDE DEF h
 <2>2. (s \o t)[h] = t[i] BY <1>1, <2>1
 <2> QED BY <2>2 DEF h
<1> QED BY <1>1, <1>2, <1>3

-----------------------------------------------------------------------------
(* The writer. *)

\* What goes out of an ordered piece that follows on what has gone out.
LEMMA OutputOrdered ==
  ASSUME NEW o \in Seq(UnitSet), NEW done \in BOOLEAN, NEW high,
         WriterTypeOK, Output(o, done, TRUE), Between(o, Visible, high), Ordered(body)
  PROVE  Ordered(body')
<1>1. PICK room \in Nat :
        /\ room <= Len(o)
        /\ body' \in Seq(UnitSet) /\ Len(body') = Len(body) + room
        /\ \A i \in 1 .. Len(body) : body'[i] = body[i]
        /\ \A i \in 1 .. room : body'[Len(body) + i] = o[i]
  BY OutputFacts, ZenonT(60)
<1>2. body \in Seq(UnitSet) /\ Len(body) \in Nat /\ Len(o) \in Nat
 <2>1. body \in Seq(UnitSet) /\ Len(o) \in Nat BY DEF WriterTypeOK
 <2> QED BY <2>1
<1>3. /\ \A i \in 1 .. Len(body) : body[i].upto \in Nat
      /\ \A i \in 1 .. Len(o) : o[i].upto \in Nat
 <2>1. /\ \A i \in 1 .. Len(body) : body[i] \in UnitSet
       /\ \A i \in 1 .. Len(o) : o[i] \in UnitSet
   BY <1>2
 <2> QED BY <2>1 DEF UnitSet
<1> SUFFICES ASSUME NEW i \in 1 .. Len(body'), NEW j \in 1 .. Len(body'), i < j
             PROVE  body'[i].upto <= body'[j].upto
  BY DEF Ordered
<1> DEFINE b == Len(body)
<1>4. i \in Nat /\ j \in Nat /\ b \in Nat BY <1>1, <1>2
<1>5. ASSUME NEW h \in 1 .. Len(body'), ~(h <= b)
      PROVE  h - b \in 1 .. room /\ h - b \in 1 .. Len(o) /\ body'[h] = o[h - b]
 <2>1. h - b \in 1 .. room BY <1>1, <1>2, <1>5
 <2>2. body'[b + (h - b)] = o[h - b] /\ b + (h - b) = h BY <1>1, <1>2, <2>1
 <2> QED BY <1>1, <1>2, <2>1, <2>2
<1>6. CASE j <= b
 <2>1. i \in 1 .. b /\ j \in 1 .. b BY <1>4, <1>6
 <2> QED BY <1>1, <2>1 DEF Ordered
<1>7. CASE i <= b /\ ~(j <= b)
 <2>1. i \in 1 .. b /\ b \in 1 .. b /\ body # <<>> BY <1>2, <1>4, <1>7
 <2>2. Visible = body[b].upto BY <2>1 DEF Visible
 <2>3. body[i].upto <= body[b].upto
  <3>1. i = b \/ i < b BY <1>4, <1>7
  <3> QED BY <1>3, <2>1, <3>1 DEF Ordered
 <2>4. Visible <= o[j - b].upto /\ body'[j] = o[j - b] /\ o[j - b].upto \in Nat
   BY <1>3, <1>5, <1>7 DEF Between
 <2>5. body'[i].upto = body[i].upto /\ body[i].upto \in Nat /\ body[b].upto \in Nat
   BY <1>1, <1>3, <2>1
 <2> QED BY <2>2, <2>3, <2>4, <2>5
<1>8. CASE ~(i <= b)
 <2>1. ~(j <= b) BY <1>4, <1>8
 <2>2. i - b < j - b BY <1>4
 <2> QED BY <1>5, <1>8, <2>1, <2>2 DEF Between
<1> QED BY <1>6, <1>7, <1>8

\* What has gone out stays in order.
LEMMA BodyStep == ASSUME WriterInv, BodyInv, [WriterNext]_writerVars PROVE BodyInv'
<1>1. CASE UNCHANGED writerVars BY <1>1 DEF BodyInv, writerVars, Visible
<1>2. CASE WriterNext
 <2> SUFFICES ASSUME intact'
              PROVE  Ordered(body') /\ (pc' = "closed" => Visible' = accepted')
   BY DEF BodyInv, Ordered
 <2>1. intact /\ Shows BY <1>2, NextKeeps DEF Kept
 <2>2. Ordered(body) /\ (pc = "closed" => Visible = accepted) BY <2>1 DEF BodyInv
 <2>3. pc' = "closed" => Visible' = accepted' BY <2>1, <2>2 DEF Shows
 <2>4. WriterTypeOK BY DEF WriterInv
 <2>5. ASSUME NEW n \in 0 .. MaxData, Write(n) \/ CompressAll(n) PROVE body' = body
   BY <2>5 DEF Write, CompressAll
 <2>6. Close \/ Destroy => body' = body BY DEF Close, Destroy
 <2>7. CASE WriteTurn
  <3>1. pc = "writing" BY <2>7 DEF WriteTurn
  <3>2. CASE NothingToDo BY <2>2, <2>3, <2>7, <3>2 DEF WriteTurn, DeflateError
  <3>3. CASE ~NothingToDo
   <4>0. PICK n \in 0 .. avail_in, good \in BOOLEAN : \E u \in Codings(total_in + n) :
           Output(pending \o Units(u), n = avail_in, good)
     BY <2>7, <3>3 DEF WriteTurn
   <4>1. PICK u \in Codings(total_in + n) : Output(pending \o Units(u), n = avail_in, good)
     BY <4>0
   <4>2. good = TRUE BY <4>1 DEF Output
   <4>3. total_in + n \in 0 .. MaxData /\ total_in <= total_in + n BY Behind
   <4>4. /\ pending \o Units(u) \in Seq(UnitSet)
         /\ Between(pending \o Units(u), Visible, Reached(u))
     BY <2>1, <3>1, <4>3, CodedOn
   <4> DEFINE o == pending \o Units(u)
   <4>5. o \in Seq(UnitSet) /\ Between(o, Visible, Reached(u))
         /\ Output(o, n = avail_in, TRUE)
     BY <4>1, <4>2, <4>4
   <4> HIDE DEF o
   <4>6. (n = avail_in) \in BOOLEAN OBVIOUS
   <4> QED BY <2>2, <2>3, <2>4, <4>5, <4>6, OutputOrdered
  <3> QED BY <3>2, <3>3
 <2>8. CASE CloseTurn
  <3>1. PICK good \in BOOLEAN, u \in Codings(total_in) :
          LET o == pending \o Units(u) \o Ending(Reached(u))
          IN  Output(o, Reached(u) = total_in /\ Len(o) <= size, good)
    BY <2>8 DEF CloseTurn
  <3>2. good = TRUE /\ pc = "closing" BY <2>8, <3>1 DEF Output, CloseTurn
  <3> DEFINE o == pending \o Units(u) \o Ending(Reached(u))
             end == Reached(u) = total_in /\ Len(o) <= size
  <3>3. o \in Seq(UnitSet) /\ Between(o, Visible, Reached(u)) BY <2>1, <3>2, EndingLast
  <3>4. Output(o, end, TRUE) /\ end \in BOOLEAN BY <3>1, <3>2
  <3> HIDE DEF o, end
  <3> QED BY <2>2, <2>3, <2>4, <3>3, <3>4, OutputOrdered
 <2>9. CASE WriteAll
  <3>1. PICK good \in BOOLEAN, u \in Codings(total_in) :
          /\ Reached(u) = total_in
          /\ body' = IF good THEN Units(u) \o Trailer(total_in) ELSE body
          /\ intact' = (intact /\ good)
    BY <2>9 DEF WriteAll
  <3>2. body' = Units(u) \o Trailer(total_in) BY <3>1
  <3>3. /\ total_in \in 0 .. MaxData /\ coded \in 0 .. MaxData /\ coded <= total_in
        /\ total_in \in Nat /\ coded \in Nat
    BY Typed, Behind DEF WriterInv
  <3>4. Units(u) \in Seq(UnitSet) /\ Between(Units(u), coded, total_in)
    BY <3>1, <3>3, CodingsFacts
  <3>5. Trailer(total_in) \in Seq(UnitSet) /\ Between(Trailer(total_in), total_in, total_in)
   <4>1. /\ [upto |-> total_in, last |-> FALSE] \in UnitSet
         /\ [upto |-> total_in, last |-> TRUE] \in UnitSet
     BY <3>3 DEF UnitSet
   <4>2. /\ Trailer(total_in) \in Seq(UnitSet) /\ Len(Trailer(total_in)) = 2
         /\ \A i \in 1 .. 2 : Trailer(total_in)[i].upto = total_in
     BY <4>1 DEF Trailer, Unit
   <4> QED BY <3>3, <4>2 DEF Between
  <3>6. Between(Units(u) \o Trailer(total_in), coded, total_in)
   <4> DEFINE s == Units(u)
              t == Trailer(total_in)
   <4>1. s \in Seq(UnitSet) /\ t \in Seq(UnitSet)
         /\ Between(s, coded, total_in) /\ Between(t, total_in, total_in)
     BY <3>4, <3>5
   <4> HIDE DEF s, t
   <4>2. Between(s \o t, coded, total_in) BY <3>3, <4>1, BetweenJoined
   <4> QED BY <4>2 DEF s, t
  <3> QED BY <2>3, <3>2, <3>6 DEF Between, Ordered
 <2> QED BY <1>2, <2>2, <2>3, <2>5, <2>6, <2>7, <2>8, <2>9 DEF WriterNext
<1> QED BY <1>1, <1>2

-----------------------------------------------------------------------------
(* The theorems on the writer. *)

\* What is composed with the writer leaves it alone or lets it take a step.
LEMMA StepOfWriter == [Next]_vars => [WriterNext]_writerVars
<1> SUFFICES ASSUME [Next]_vars PROVE [WriterNext]_writerVars OBVIOUS
<1>1. CASE Writing BY <1>1 DEF Writing
<1>2. CASE Sent \/ Damaged \/ CutOff \/ Followed
  BY <1>2 DEF Sent, Damaged, CutOff, Followed, Arrives, WriterNext
<1>3. ASSUME NEW n \in 1 .. MaxRead, Call(n) PROVE [WriterNext]_writerVars BY <1>3 DEF Call
<1>4. CASE Step BY <1>4 DEF Step
<1>5. CASE UNCHANGED vars BY <1>5 DEF vars
<1> QED BY <1>1, <1>2, <1>3, <1>4, <1>5 DEF Next

\* The composition implements the compressing writer alone.
THEOREM ComposedWriter == Spec => WriterSpec
<1>1. Init => WriterInit BY DEF Init
<1> QED BY <1>1, StepOfWriter, PTL DEF Spec, WriterSpec

\* Whatever becomes of the packet, the stream is whole when it was written.
THEOREM StreamsWhole == Spec => []StreamWhole
BY ComposedWriter, CompressorStreamWhole, PTL

\* The refinement of the byte stream holds in the composition.
THEOREM ComposedByteStream == Spec => IsByteStream
BY ComposedWriter, CompressorImplementsByteStream, PTL
-----------------------------------------------------------------------------
(* inflate. *)

\* The data that can be restored up to a unit, and no less up to a later one.
LEMMA RestoredFacts ==
  ASSUME PacketOK, NEW j \in Nat, j <= Len(packet)
  PROVE  /\ Reader!Restored(j) \in 0 .. MaxData
         /\ j > 0 => packet[j] \in UnitSet /\ Reader!Restored(j) = packet[j].upto
         /\ \A i \in Nat : i <= j => Reader!Restored(i) <= Reader!Restored(j)
<1>1. packet \in Seq(UnitSet) /\ Len(packet) \in Nat BY DEF PacketOK
<1>2. ASSUME NEW i \in Nat, i <= j
      PROVE  /\ Reader!Restored(i) \in 0 .. MaxData
             /\ i > 0 => /\ packet[i] \in UnitSet /\ Reader!Restored(i) = packet[i].upto
                         /\ i \in 1 .. Len(packet)
             /\ i = 0 => Reader!Restored(i) = 0
 <2>1. CASE i = 0 BY <2>1 DEF Reader!Restored
 <2>2. CASE i # 0
  <3>1. i \in 1 .. Len(packet) BY <1>1, <1>2, <2>2
  <3>2. packet[i] \in UnitSet BY <1>1, <3>1
  <3> QED BY <2>2, <3>1, <3>2 DEF Reader!Restored, UnitSet
 <2> QED BY <2>1, <2>2
<1>3. ASSUME NEW i \in Nat, i <= j PROVE Reader!Restored(i) <= Reader!Restored(j)
 <2>1. Reader!Restored(i) \in 0 .. MaxData /\ Reader!Restored(j) \in 0 .. MaxData BY <1>2, <1>3
 <2>2. CASE i = 0 BY <1>2, <2>1, <2>2
 <2>3. CASE i = j BY <2>1, <2>3
 <2>4. CASE i # 0 /\ i < j
  <3>1. /\ i \in 1 .. Len(packet) /\ j \in 1 .. Len(packet)
        /\ Reader!Restored(i) = packet[i].upto /\ Reader!Restored(j) = packet[j].upto
    BY <1>2, <1>3, <2>4
  <3> QED BY <2>4, <3>1 DEF PacketOK, Ordered
 <2> QED BY <1>3, <2>2, <2>3, <2>4
<1> QED BY <1>2, <1>3

\* inflate goes from one unit to the next as long as the output holds what is before it.
Passes(j) ==
  /\ Reader!Restored(j) <= total_out + DecompressBuffer
  /\ j > 0 => ~packet[j].last
  /\ j + 1 # bad

\* It stops where it cannot pass, and no sooner.
LEMMA UsedUpFacts ==
  ASSUME used \in Nat, NEW avail \in Nat, used <= avail
  PROVE  LET k == Reader!UsedUp(avail)
         IN  /\ k \in Nat /\ used <= k /\ k <= avail
             /\ \A j \in used .. k - 1 : Passes(j)
             /\ \A m \in used + 1 .. avail : (\A j \in used .. m - 1 : Passes(j)) => m <= k
<1> DEFINE S == {used} \cup {m \in used + 1 .. avail : \A j \in used .. m - 1 : Passes(j)}
           k == Reader!UsedUp(avail)
<1>1. k = CHOOSE m \in S : \A n \in S : m >= n BY DEF Reader!UsedUp, Reader!Max, Passes
<1>2. S \in SUBSET (0 .. avail) /\ S # {}
 <2>1. ASSUME NEW m \in S PROVE m \in 0 .. avail
  <3>1. m = used \/ m \in used + 1 .. avail OBVIOUS
  <3> HIDE DEF S
  <3> QED BY <3>1
 <2>2. used \in S OBVIOUS
 <2> QED BY <2>1, <2>2
<1>3. k \in S /\ \A n \in S : k >= n
 <2> HIDE DEF S, k
 <2>1. \E m \in S : \A n \in S : n <= m BY <1>2, Greatest
 <2>2. \A m, n \in S : n <= m => m >= n BY <1>2
 <2> QED BY <1>1, <2>1, <2>2
<1> HIDE DEF k
<1>4. k = used \/ (k \in used + 1 .. avail /\ \A j \in used .. k - 1 : Passes(j)) BY <1>3
<1>5. k \in Nat /\ used <= k /\ k <= avail BY <1>4
<1>6. \A j \in used .. k - 1 : Passes(j)
 <2>1. CASE k = used BY <2>1
 <2> QED BY <1>4, <2>1
<1>7. ASSUME NEW m \in used + 1 .. avail, \A j \in used .. m - 1 : Passes(j) PROVE m <= k
 <2>1. m \in S BY <1>7
 <2> QED BY <1>3, <1>5, <2>1
<1> QED BY <1>5, <1>6, <1>7 DEF k

\* How much is asked for, and when the file has it.
LEMMA WantedFacts ==
  ASSUME PacketOK, Inflated
  PROVE  /\ Reader!Wanted \in Nat /\ Len(packet) \in Nat
         /\ length_read + Reader!Wanted <= used + DecompressBuffer
         /\ indeterminate => length_read + Reader!Wanted <= Len(packet)
         /\ ~indeterminate => length_read + Reader!Wanted <= region
         /\ length_read + Reader!Wanted > Len(packet) => region > Len(packet)
         /\ indeterminate /\ used < Len(packet) => used < length_read + Reader!Wanted
<1>1. /\ Len(packet) \in Nat /\ region \in Nat /\ length_read \in Nat /\ used \in Nat
      /\ used <= length_read /\ length_read <= used + DecompressBuffer
      /\ length_read <= Len(packet) /\ (~indeterminate => length_read <= region)
      /\ indeterminate \in BOOLEAN /\ DecompressBuffer \in Nat /\ DecompressBuffer > 0
 <2>1. packet \in Seq(UnitSet) BY DEF PacketOK
 <2> QED BY <2>1 DEF PacketOK, Inflated
<1>2. CASE length_read > used
 <2>1. Reader!Wanted = 0 BY <1>2 DEF Reader!Wanted
 <2> QED BY <1>1, <1>2, <2>1
<1>3. CASE ~(length_read > used) /\ indeterminate
 <2>1. Reader!Wanted = IF DecompressBuffer <= Len(packet) - length_read
                       THEN DecompressBuffer ELSE Len(packet) - length_read
   BY <1>3 DEF Reader!Wanted, Reader!Lesser
 <2> QED BY <1>1, <1>3, <2>1
<1>4. CASE ~(length_read > used) /\ ~indeterminate
 <2>1. Reader!Wanted = IF DecompressBuffer <= region - length_read
                       THEN DecompressBuffer ELSE region - length_read
   BY <1>4 DEF Reader!Wanted, Reader!Lesser
 <2> QED BY <1>1, <1>4, <2>1
<1> QED BY <1>2, <1>3, <1>4

-----------------------------------------------------------------------------
(* The steps of the reader. *)

\* A step of the reader changes neither the writer nor the packet.
LEMMA ReaderStep ==
  ASSUME CompressInv, phase = "read", UNCHANGED <<writerVars, file, phase>>, ReadInv'
  PROVE  CompressInv'
<1>1. WriterInv' BY StepKeeps DEF CompressInv
<1>2. BodyInv' BY BodyStep DEF CompressInv
<1>3. phase' = "read" /\ NotYet' BY DEF NotYet
<1>4. PacketOK' BY DEF CompressInv, PacketOK, file, writerVars
<1> QED BY <1>1, <1>2, <1>3, <1>4 DEF CompressInv

\* What is said of reads does not depend on how they are named, as long as nothing moves.
LEMMA StuckSame ==
  ASSUME UNCHANGED <<file, length_read, used, out>> PROVE Stuck' <=> Stuck
BY DEF Stuck, file, Reader!Wanted, Reader!Lesser

\* A read begins, or the end has been reached.
LEMMA CallStep == ASSUME CompressInv, NEW n \in 1 .. MaxRead, Call(n) PROVE CompressInv'
<1>1. /\ phase = "read" /\ ret \notin {"reading", "abort"}
      /\ UNCHANGED <<writerVars, phase>>
      /\ UNCHANGED <<packet, region, indeterminate, bad, length_read, used, total_out, out, offset,
                     inflate_ret, given, spans>>
  BY DEF Call, Reader!Call, Reader!file
<1>2. Inflated /\ Delivered /\ InPlace /\ Noticed /\ PacketOK BY DEF CompressInv, ReadInv
<1>3. UNCHANGED file BY <1>1 DEF file
<1>4. Inflated' BY <1>1, <1>2 DEF Inflated, Reader!Restored
<1>5. Stuck' <=> Stuck BY <1>1, <1>3, StuckSame
<1>6. Copied = 0 /\ (Stuck \/ Len(given) + Len(out) - offset = total_out)
 <2>1. Copied = 0 BY <1>1 DEF Copied
 <2>2. Len(given) \in Nat /\ Len(out) \in Nat /\ offset \in Nat
   BY <1>2, LenProperties DEF Delivered
 <2>3. Stuck \/ Len(given) + 0 + Len(out) - offset = total_out BY <1>1, <1>2, <2>1 DEF Delivered
 <2> QED BY <2>1, <2>2, <2>3
<1>7. CASE Reader!AtEnd
 <2>1. ret' = "zero" /\ dest' = <<>> /\ UNCHANGED <<length, errors>>
   BY <1>7 DEF Call, Reader!Call
 <2>2. inflate_ret = "Z_STREAM_END" /\ offset = Len(out) BY <1>7 DEF Reader!AtEnd, Reader!Drained
 <2>3. Copied' = 0 /\ dest' \in Seq(0 .. MaxData) BY <2>1 DEF Copied
 <2>4. Stuck' \/ Len(given') + Copied' + Len(out') - offset' = total_out'
  <3>1. Len(given) \in Nat BY <1>2, LenProperties DEF Delivered
  <3> QED BY <1>1, <1>5, <1>6, <2>3, <3>1
 <2>5. Delivered' BY <1>1, <1>2, <2>1, <2>3, <2>4 DEF Delivered
 <2>6. InPlace' BY <1>1, <1>2, <2>1 DEF InPlace
 <2>7. Noticed' BY <1>1, <1>2, <2>1, <2>2 DEF Noticed, Intact, writerVars
 <2> QED BY <1>1, <1>3, <1>4, <2>5, <2>6, <2>7, ReaderStep DEF ReadInv
<1>8. CASE ~Reader!AtEnd
 <2>1. /\ ret' = "reading" /\ length' = n /\ dest' = [i \in 1 .. n |-> 0]
       /\ errors' = (errors \/ Reader!DidNotEnd)
   BY <1>8 DEF Call, Reader!Call
 <2>2. dest' \in Seq(0 .. MaxData) /\ Len(dest') = n
  <3>1. 0 \in 0 .. MaxData OBVIOUS
  <3> QED BY <2>1, <3>1
 <2>3. Copied' = 0 BY <2>1, <2>2 DEF Copied
 <2>4. Stuck' \/ Len(given') + Copied' + Len(out') - offset' = total_out'
  <3>1. Len(given) \in Nat BY <1>2, LenProperties DEF Delivered
  <3> QED BY <1>1, <1>5, <1>6, <2>3, <3>1
 <2>5. Delivered'
  <3>1. length' \in 0 .. MaxRead /\ length' \in 1 .. Len(dest') BY <2>1, <2>2
  <3> QED BY <1>1, <1>2, <2>1, <2>2, <2>4, <3>1 DEF Delivered
 <2>6. InPlace'
  <3>1. ~(length' < Len(dest')) BY <2>1, <2>2
  <3> QED BY <1>1, <1>2, <2>1, <3>1 DEF InPlace
 <2>7. Noticed'
  <3>1. Reader!DidNotEnd \in BOOLEAN /\ (indeterminate => ~Reader!DidNotEnd)
    BY DEF Reader!DidNotEnd
  <3> QED BY <1>1, <1>2, <2>1, <3>1 DEF Noticed, Intact, writerVars
 <2> QED BY <1>1, <1>3, <1>4, <2>5, <2>6, <2>7, ReaderStep DEF ReadInv
<1> QED BY <1>7, <1>8

\* The read fails when the file ends before its packet, and then always.
LEMMA ReadFailsStep == ASSUME CompressInv, Step, Reader!ReadFails PROVE CompressInv'
<1>1. /\ phase = "read" /\ ret = "reading" /\ UNCHANGED <<writerVars, phase>>
      /\ length_read + Reader!Wanted > Len(packet)
      /\ ret' = "minus" /\ errors' = TRUE /\ out' = <<>> /\ offset' = 0 /\ dest' = <<>>
      /\ UNCHANGED <<packet, region, indeterminate, bad, length_read, used, total_out,
                     inflate_ret, length, given, spans>>
  BY DEF Step, Reader!ReadFails, Reader!file
<1>2. Inflated /\ Delivered /\ InPlace /\ Noticed /\ PacketOK BY DEF CompressInv, ReadInv
<1>3. UNCHANGED file BY <1>1 DEF file
<1>4. Inflated' BY <1>1, <1>2 DEF Inflated, Reader!Restored
<1>5. Stuck' BY <1>1 DEF Stuck, Reader!Wanted, Reader!Lesser
<1>6. Delivered'
 <2>1. out' \in Seq(1 .. MaxData) /\ Len(out') = 0 /\ dest' \in Seq(0 .. MaxData) BY <1>1
 <2> QED BY <1>1, <1>2, <1>5, <2>1 DEF Delivered
<1>7. InPlace'
 <2>1. Len(out') = 0 BY <1>1
 <2> QED BY <1>1, <1>2, <2>1 DEF InPlace
<1>8. ~indeterminate
 <2>1. Len(packet) \in Nat /\ Reader!Wanted \in Nat /\ length_read \in Nat
   BY <1>2, WantedFacts DEF Inflated
 <2>2. indeterminate => length_read + Reader!Wanted <= Len(packet) BY <1>2, WantedFacts
 <2> QED BY <1>1, <2>1, <2>2
<1>9. Noticed' BY <1>1, <1>8 DEF Noticed
<1> QED BY <1>1, <1>3, <1>4, <1>6, <1>7, <1>9, ReaderStep DEF ReadInv

\* A read takes what there is in the filling, and as much as it wants.
LEMMA CopyStep == ASSUME CompressInv, Step, Reader!Copy PROVE CompressInv'
<1> DEFINE len == Reader!Lesser(length, Len(out) - offset)
           G == Len(given)
           D == Len(dest)
           O == Len(out)
<1>1. /\ phase = "read" /\ ret = "reading" /\ offset # O /\ UNCHANGED <<writerVars, phase>>
      /\ dest' = [i \in DOMAIN dest |-> IF i <= len THEN out[offset + i] ELSE dest[i]]
      /\ offset' = offset + len /\ length' = length - len
      /\ IF len = length THEN ret' = "read" /\ given' = given \o dest'
                         ELSE UNCHANGED <<ret, given>>
      /\ UNCHANGED <<packet, region, indeterminate, bad, length_read, used, total_out, out,
                     inflate_ret, spans, errors>>
  BY DEF Step, Reader!Copy, Reader!file, Reader!Drained
<1>2. Inflated /\ Delivered /\ InPlace /\ Noticed /\ PacketOK BY DEF CompressInv, ReadInv
<1>3. UNCHANGED file BY <1>1 DEF file
<1>4. Inflated' BY <1>1, <1>2 DEF Inflated, Reader!Restored
<1>5. /\ out \in Seq(1 .. MaxData) /\ given \in Seq(0 .. MaxData) /\ dest \in Seq(0 .. MaxData)
      /\ O \in Nat /\ G \in Nat /\ D \in Nat /\ offset \in Nat /\ offset < O
      /\ length \in Nat /\ length > 0 /\ length <= D /\ length <= MaxRead
      /\ DOMAIN dest = 1 .. D /\ total_out \in Nat
 <2>1. /\ out \in Seq(1 .. MaxData) /\ given \in Seq(0 .. MaxData) /\ dest \in Seq(0 .. MaxData)
       /\ offset \in 0 .. O /\ length \in 1 .. D /\ length \in 0 .. MaxRead
       /\ total_out \in Nat
   BY <1>1, <1>2 DEF Delivered, Inflated
 <2>2. O \in Nat /\ G \in Nat /\ D \in Nat /\ DOMAIN dest = 1 .. D BY <2>1, LenProperties
 <2> QED BY <1>1, <2>1, <2>2
<1>6. /\ len \in Nat /\ len > 0 /\ len <= length /\ len <= D /\ offset + len <= O
      /\ len # length => offset + len = O
  BY <1>5 DEF Reader!Lesser
<1> HIDE DEF len
<1>7. ASSUME NEW i \in 1 .. D
      PROVE  /\ dest'[i] = IF i <= len THEN out[offset + i] ELSE dest[i]
             /\ i <= len => offset + i \in 1 .. O
             /\ dest'[i] \in 0 .. MaxData
 <2>1. dest'[i] = IF i <= len THEN out[offset + i] ELSE dest[i] BY <1>1, <1>5
 <2>2. i <= len => offset + i \in 1 .. O BY <1>5, <1>6
 <2>3. i <= len => out[offset + i] \in 0 .. MaxData
  <3>1. \A j \in 1 .. O : out[j] \in 1 .. MaxData BY <1>5, ElementOfSeq
  <3> QED BY <2>2, <3>1
 <2>4. dest[i] \in 0 .. MaxData BY <1>5, ElementOfSeq
 <2> QED BY <2>1, <2>2, <2>3, <2>4
<1>8. dest' \in Seq(0 .. MaxData) /\ Len(dest') = D
 <2>1. dest' \in [1 .. D -> 0 .. MaxData] BY <1>1, <1>5, <1>7
 <2>2. D \in Nat BY <1>5
 <2> HIDE DEF D
 <2> QED BY <2>1, <2>2, FromFunction
<1>9. G + (D - length) + O - offset = total_out
 <2>1. out # <<>> BY <1>5
 <2>2. ~Stuck /\ Copied = D - length BY <2>1, <1>1 DEF Stuck, Copied
 <2>3. G + Copied + O - offset = total_out BY <1>1, <1>2, <2>2 DEF Delivered
 <2> QED BY <2>2, <2>3
<1>10. /\ ~spans => \A i \in 1 .. O : out[i] = total_out - O + i
       /\ ~spans => length = D
       /\ ~spans => \A i \in 1 .. G : given[i] = i
 <2>1. ~spans /\ length < D => offset = O BY <1>1, <1>2 DEF InPlace
 <2>2. /\ ~spans => \A i \in 1 .. O : out[i] = total_out - O + i
       /\ ~spans => \A i \in 1 .. G : given[i] = i
   BY <1>2 DEF InPlace
 <2>3. ~spans => length = D
  <3> HIDE DEF D, O
  <3> QED BY <1>5, <2>1
 <2> QED BY <2>2, <2>3
<1>11. Len(out) = O /\ Len(given) = G /\ Len(dest) = D OBVIOUS
<1> HIDE DEF G, D, O
\* Without a second filling the octets are copied to where they are in the data.
<1>12. ASSUME ~spans, NEW i \in 1 .. D, i <= len PROVE dest'[i] = G + i
 <2>1. dest'[i] = out[offset + i] /\ out[offset + i] = total_out - O + (offset + i)
   BY <1>7, <1>10, <1>12
 <2>2. G + O - offset = total_out BY <1>5, <1>9, <1>10, <1>12
 <2>3. i \in Nat BY <1>5
 <2> QED BY <1>5, <2>1, <2>2, <2>3
<1>13. offset' \in 0 .. O /\ Len(out') = O /\ out' = out
 <2>1. offset + len \in 0 .. O BY <1>5, <1>6
 <2> QED BY <1>1, <1>11, <2>1
<1>14. CASE len = length
 <2>1. ret' = "read" /\ given' = given \o dest' /\ length' = 0
  <3>1. length - len = 0 BY <1>5, <1>6, <1>14
  <3> QED BY <1>1, <1>14, <3>1
 <2>2. /\ given' \in Seq(0 .. MaxData) /\ Len(given') = G + D
       /\ \A i \in 1 .. G : given'[i] = given[i]
       /\ \A i \in 1 .. D : given'[G + i] = dest'[i]
  <3> DEFINE e == dest'
  <3>1. given' = given \o e /\ e \in Seq(0 .. MaxData) /\ Len(e) = D BY <2>1, <1>8
  <3>2. \A i \in 1 .. D : e[i] = dest'[i] OBVIOUS
  <3> HIDE DEF e
  <3>3. /\ given \o e \in Seq(0 .. MaxData) /\ Len(given \o e) = G + D
        /\ \A i \in 1 .. G : (given \o e)[i] = given[i]
        /\ \A i \in 1 .. D : (given \o e)[G + i] = e[i]
   <4> DEFINE Octets == 0 .. MaxData
   <4>1. /\ given \in Seq(Octets) /\ Len(given) = G /\ G \in Nat /\ D \in Nat
         /\ e \in Seq(Octets) /\ Len(e) = D
     BY <1>5, <1>11, <3>1
   <4> HIDE DEF Octets
   <4>2. /\ given \o e \in Seq(Octets) /\ Len(given \o e) = G + D
         /\ \A i \in 1 .. G : (given \o e)[i] = given[i]
         /\ \A i \in 1 .. D : (given \o e)[G + i] = e[i]
     BY <4>1, Appended
   <4> QED BY <4>2 DEF Octets
  <3> QED BY <3>1, <3>2, <3>3
 <2>3. Len(given') + Copied' + Len(out') - offset' = total_out'
  <3>1. Copied' = 0 /\ offset' = offset + length /\ total_out' = total_out
    BY <2>1, <1>1, <1>14 DEF Copied
  <3>2. G + D + 0 + O - (offset + length) = total_out BY <1>5, <1>9
  <3> QED BY <1>13, <2>2, <3>1, <3>2
 <2>4. Delivered'
  <3>1. length' \in 0 .. MaxRead BY <2>1
  <3> QED BY <1>1, <1>2, <1>8, <1>13, <1>11, <2>1, <2>2, <2>3, <3>1 DEF Delivered
 <2>5. InPlace'
  <3> SUFFICES ASSUME ~spans PROVE \A i \in 1 .. Len(given') : given'[i] = i
    BY <1>1, <1>2, <2>1 DEF InPlace
  <3>1. \A i \in 1 .. D : given'[G + i] = G + i
   <4>1. \A i \in 1 .. D : i <= len BY <1>10, <1>14, <1>5
   <4> QED BY <4>1, <1>12, <2>2
  <3>2. ASSUME NEW h \in 1 .. G + D PROVE given'[h] = h
   <4>1. CASE h <= G
    <5>1. h \in 1 .. G BY <4>1, <1>5
    <5> QED BY <5>1, <2>2, <1>10
   <4>2. CASE ~(h <= G)
    <5>1. h - G \in 1 .. D /\ G + (h - G) = h BY <4>2, <1>5
    <5> QED BY <5>1, <3>1
   <4> QED BY <4>1, <4>2
  <3> QED BY <3>2, <2>2
 <2>6. Noticed' BY <1>1, <1>2, <2>1 DEF Noticed, Intact, writerVars
 <2> QED BY <1>1, <1>3, <1>4, <2>4, <2>5, <2>6, ReaderStep DEF ReadInv
<1>15. CASE len # length
 <2>1. ret' = "reading" /\ given' = given /\ length' = length - len /\ offset' = O
   BY <1>1, <1>6, <1>15
 <2>2. length' \in 1 .. D /\ length' \in 0 .. MaxRead
  <3>1. length - len \in 1 .. D /\ length - len \in 0 .. MaxRead BY <1>5, <1>6, <1>15
  <3> QED BY <2>1, <3>1
 <2>3. Len(given') + Copied' + Len(out') - offset' = total_out'
  <3>1. Copied' = D - (length - len) /\ offset' = offset + len /\ total_out' = total_out
    BY <2>1, <1>1, <1>8 DEF Copied
  <3>2. Len(given') = G BY <2>1, <1>11
  <3>3. G + (D - (length - len)) + O - (offset + len) = total_out BY <1>5, <1>6, <1>9
  <3> QED BY <1>13, <3>1, <3>2, <3>3
 <2>4. Delivered'
  <3>1. length' \in 1 .. Len(dest') BY <1>8, <2>2
  <3> QED BY <1>1, <1>2, <1>8, <1>13, <1>11, <2>1, <2>2, <2>3, <3>1 DEF Delivered
 <2>5. InPlace'
  <3> SUFFICES ASSUME ~spans PROVE \A i \in 1 .. D - length' : dest'[i] = G + i
    BY <1>1, <1>2, <1>8, <1>11, <1>13, <2>1 DEF InPlace
  <3>1. D - length' = len BY <2>1, <1>5, <1>6, <1>10
  <3>2. ASSUME NEW i \in 1 .. len PROVE i \in 1 .. D /\ i <= len BY <1>5, <1>6
  <3> QED BY <3>1, <3>2, <1>12
 <2>6. Noticed' BY <1>1, <1>2, <2>1 DEF Noticed, Intact, writerVars
 <2> QED BY <1>1, <1>3, <1>4, <2>4, <2>5, <2>6, ReaderStep DEF ReadInv
<1> QED BY <1>14, <1>15

\* A filling begins where the one before has ended, and inflate goes on where it stood.
LEMMA FillStep == ASSUME CompressInv, Step, Reader!Fill PROVE CompressInv'
<1> DEFINE read == length_read + Reader!Wanted
           k == Reader!UsedUp(read)
           n == Reader!Lesser(Reader!Restored(k), total_out + DecompressBuffer)
           fill == [i \in 1 .. n - total_out |-> total_out + i]
           res == Reader!Result(read, k, n)
<1>1. /\ phase = "read" /\ ret = "reading" /\ offset = Len(out) /\ UNCHANGED <<writerVars, phase>>
      /\ read <= Len(packet)
      /\ length_read' = read /\ used' = k /\ total_out' = n /\ out' = fill /\ offset' = 0
      /\ inflate_ret' = res
      /\ errors' = (errors
           \/ (inflate_ret' = "Z_STREAM_END" /\ ~indeterminate /\ read # region)
           \/ inflate_ret' \notin {"Z_OK", "Z_STREAM_END"})
      /\ ret' = IF fill # <<>> THEN ret ELSE "abort"
      /\ spans' = (spans \/ length < Len(dest))
      /\ UNCHANGED <<packet, region, indeterminate, bad, length, dest, given>>
  BY DEF Step, Reader!Fill, Reader!file, Reader!Drained, Reader!Start, Reader!EndsEarly,
     Reader!Progress
<1>2. Inflated /\ Delivered /\ InPlace /\ Noticed /\ PacketOK BY DEF CompressInv, ReadInv
<1>3. UNCHANGED file BY <1>1 DEF file
<1>4. /\ used \in Nat /\ length_read \in Nat /\ total_out \in Nat /\ used <= length_read
      /\ Len(packet) \in Nat /\ bad \in Nat /\ DecompressBuffer \in Nat /\ DecompressBuffer > 0
      /\ bad = 0 \/ used < bad
      /\ total_out <= Reader!Restored(used)
  BY <1>2, WantedFacts DEF Inflated, PacketOK
<1>5. /\ read \in Nat /\ length_read <= read /\ used <= read
      /\ read <= used + DecompressBuffer
      /\ ~indeterminate => read <= region
      /\ indeterminate /\ used < Len(packet) => used < read
 <2>1. Reader!Wanted \in Nat BY <1>2, WantedFacts
 <2>2. /\ length_read + Reader!Wanted \in Nat /\ length_read <= length_read + Reader!Wanted
       /\ used <= length_read + Reader!Wanted
   BY <1>4, <2>1
 <2> QED BY <1>2, <2>2, WantedFacts
<1> HIDE DEF read
<1>6. /\ k \in Nat /\ used <= k /\ k <= read
      /\ \A j \in used .. k - 1 : Passes(j)
      /\ \A m \in used + 1 .. read : (\A j \in used .. m - 1 : Passes(j)) => m <= k
  BY <1>4, <1>5, UsedUpFacts
<1> HIDE DEF k
<1>7. k <= Len(packet) BY <1>1, <1>4, <1>5, <1>6
<1>8. /\ Reader!Restored(k) \in 0 .. MaxData /\ Reader!Restored(used) <= Reader!Restored(k)
      /\ Reader!Restored(used) \in 0 .. MaxData
      /\ k > 0 => Reader!Restored(k) = packet[k].upto
 <2>1. used <= Len(packet) BY <1>4, <1>6, <1>7
 <2> QED BY <1>2, <1>4, <1>6, <1>7, <2>1, RestoredFacts
<1>9. /\ n \in Nat /\ total_out <= n /\ n <= total_out + DecompressBuffer
      /\ n <= Reader!Restored(k) /\ n <= MaxData
      /\ n = Reader!Restored(k) \/ n = total_out + DecompressBuffer
  BY <1>4, <1>8 DEF Reader!Lesser
<1> HIDE DEF n
<1>10. /\ fill \in Seq(1 .. MaxData) /\ Len(fill) = n - total_out
       /\ \A i \in 1 .. n - total_out : fill[i] = total_out + i
       /\ n - total_out \in Nat /\ n - total_out <= DecompressBuffer
 <2>1. n - total_out \in Nat /\ n - total_out <= DecompressBuffer BY <1>4, <1>9
 <2>2. \A i \in 1 .. n - total_out : total_out + i \in 1 .. MaxData BY <1>4, <1>9
 <2>3. fill \in [1 .. n - total_out -> 1 .. MaxData] BY <2>2
 <2> QED BY <2>1, <2>3
<1> HIDE DEF fill
<1>11. bad = 0 \/ k < bad
 <2>1. CASE k = used BY <1>4, <2>1
 <2>2. CASE k # used /\ bad # 0 /\ ~(k < bad)
  <3>1. bad - 1 \in used .. k - 1 /\ bad - 1 + 1 = bad BY <1>4, <1>6, <2>2
  <3> QED BY <1>6, <3>1 DEF Passes
 <2> QED BY <2>1, <2>2
<1>12. /\ res \in {"Z_OK", "Z_STREAM_END", "Z_DATA_ERROR", "Z_BUF_ERROR"}
       /\ res = "Z_STREAM_END" => k > 0 /\ packet[k].last /\ n = packet[k].upto
 <2>1. res = IF n < Reader!Restored(k) THEN "Z_OK"
             ELSE IF k > 0 /\ packet[k].last THEN "Z_STREAM_END"
             ELSE IF k + 1 = bad /\ bad <= read THEN "Z_DATA_ERROR"
             ELSE IF k = used /\ n = total_out THEN "Z_BUF_ERROR"
             ELSE "Z_OK"
   BY DEF Reader!Result
 <2>2. ~(n < Reader!Restored(k)) => n = Reader!Restored(k) BY <1>8, <1>9
 <2> HIDE DEF res
 <2>3. res \in {"Z_OK", "Z_STREAM_END", "Z_DATA_ERROR", "Z_BUF_ERROR"} BY <2>1
 <2>4. res = "Z_STREAM_END" => ~(n < Reader!Restored(k)) /\ k > 0 /\ packet[k].last BY <2>1
 <2> QED BY <2>2, <2>3, <2>4, <1>8
<1>13. Intact /\ indeterminate => res \in {"Z_OK", "Z_STREAM_END"}
 <2> SUFFICES ASSUME Intact, indeterminate, res \notin {"Z_OK", "Z_STREAM_END"} PROVE FALSE
   OBVIOUS
 <2>1. /\ ~(n < Reader!Restored(k)) /\ ~(k > 0 /\ packet[k].last)
       /\ \/ k + 1 = bad
          \/ k = used /\ n = total_out
   BY DEF Reader!Result
 <2>2. packet = body /\ bad = 0 BY DEF Intact
 <2>3. body # <<>> /\ body[Len(body)].last BY <1>1, <1>2 DEF PacketOK
 <2>4. k + 1 # bad BY <1>6, <2>2
 <2>5. k = used /\ n = total_out /\ Reader!Restored(used) <= total_out + DecompressBuffer
   BY <2>1, <2>4, <1>4, <1>8, <1>9
 <2>6. used < Len(packet)
  <3>1. used # Len(packet)
   <4>1. Len(packet) > 0
    <5>1. packet \in Seq(UnitSet) /\ packet # <<>> BY <1>2, <2>2, <2>3 DEF PacketOK
    <5> QED BY <5>1
   <4> QED BY <2>1, <2>2, <2>3, <2>5, <4>1
  <3> QED BY <3>1, <1>4, <1>6, <1>7
 <2>7. used + 1 \in used + 1 .. read BY <1>4, <1>5, <2>6
 <2>8. Passes(used)
  <3>2. used > 0 => ~packet[used].last BY <2>1, <2>5
  <3>3. used + 1 # bad BY <1>4, <2>2
  <3> QED BY <3>2, <3>3, <2>5 DEF Passes
 <2>9. used + 1 <= k
  <3> DEFINE m == used + 1
  <3>1. ASSUME NEW j \in used .. m - 1 PROVE Passes(j)
   <4>1. j = used BY <1>4
   <4> QED BY <2>8, <4>1
  <3>2. m \in used + 1 .. read BY <2>7
  <3> HIDE DEF m
  <3>3. m <= k BY <1>6, <3>1, <3>2
  <3> QED BY <3>3 DEF m
 <2> QED BY <2>5, <2>9, <1>4
<1> HIDE DEF res
<1>14. Inflated'
 <2>2. total_out' <= Reader!Restored(used)' BY <1>1, <1>9 DEF Reader!Restored
 <2>3. read <= k + DecompressBuffer BY <1>4, <1>5, <1>6
 <2>4. packet' = packet /\ region' = region /\ indeterminate' = indeterminate /\ bad' = bad
   BY <1>1
 <2> QED BY <1>1, <1>5, <1>6, <1>9, <1>11, <1>12, <2>2, <2>3, <2>4 DEF Inflated
<1>15. /\ out = <<>> => Len(out) = 0
       /\ Len(given) + Copied = total_out
 <2>1. ~Stuck
  <3>1. read > Len(packet) => FALSE BY <1>1, <1>4, <1>5
  <3> QED BY <3>1 DEF Stuck, read
 <2>2. Len(given) + Copied + Len(out) - offset = total_out BY <1>1, <1>2, <2>1 DEF Delivered
 <2>3. /\ Len(given) \in Nat /\ Len(out) \in Nat /\ Len(dest) \in Nat /\ length \in Nat
   BY <1>2, LenProperties DEF Delivered
 <2>4. Copied \in Int BY <1>1, <2>3 DEF Copied
 <2> QED BY <1>1, <2>2, <2>3, <2>4
<1>16. Delivered'
 <2>1. ret' # "abort" => Len(given') + Copied' + Len(out') - offset' = total_out'
  <3> SUFFICES ASSUME ret' # "abort"
               PROVE  Len(given') + Copied' + Len(out') - offset' = total_out'
    OBVIOUS
  <3>1. ret' = "reading" /\ Copied' = Copied /\ Len(given') = Len(given) BY <1>1 DEF Copied
  <3>2. Len(out') = n - total_out /\ offset' = 0 /\ total_out' = n BY <1>1, <1>10
  <3>3. Len(given) + Copied + (n - total_out) - 0 = n BY <1>15, <1>9, <1>4
  <3> QED BY <3>1, <3>2, <3>3
 <2>2. offset' \in 0 .. Len(out') BY <1>1, <1>10
 <2>3. spans' \in BOOLEAN /\ ret' \in {"reading", "abort"}
       /\ out' \in Seq(1 .. MaxData) /\ Len(out') <= DecompressBuffer
   BY <1>1, <1>2, <1>10 DEF Delivered
 <2> QED BY <1>1, <1>2, <2>1, <2>2, <2>3 DEF Delivered
<1>17. InPlace'
 <2> SUFFICES ASSUME ~spans'
              PROVE  /\ \A i \in 1 .. Len(out') : out'[i] = total_out' - Len(out') + i
                     /\ \A i \in 1 .. Len(given') : given'[i] = i
                     /\ ~(length' < Len(dest'))
   BY DEF InPlace
 <2>1. ~spans /\ ~(length < Len(dest)) BY <1>1
 <2>2. Len(out') = n - total_out /\ total_out' = n BY <1>1, <1>10
 <2>3. ASSUME NEW i \in 1 .. n - total_out PROVE out'[i] = n - (n - total_out) + i
  <3>1. out'[i] = total_out + i BY <1>1, <1>10
  <3>2. n - (n - total_out) = total_out BY <1>4, <1>9
  <3> QED BY <3>1, <3>2
 <2> QED BY <1>1, <1>2, <2>1, <2>2, <2>3 DEF InPlace
<1>18. Noticed'
 <2>1. ret' # "zero" BY <1>1
 <2>2. Intact' <=> Intact BY <1>1 DEF Intact, writerVars
 <2>3. errors' \in BOOLEAN BY <1>1, <1>2 DEF Noticed
 <2>4. inflate_ret' = "Z_STREAM_END" /\ ~indeterminate' /\ length_read' # region' => errors'
   BY <1>1
 <2>5. Intact' /\ indeterminate' => errors' = FALSE BY <1>1, <1>2, <1>13, <2>2 DEF Noticed
 <2> QED BY <2>1, <2>3, <2>4, <2>5 DEF Noticed
<1> QED BY <1>1, <1>3, <1>14, <1>16, <1>17, <1>18, ReaderStep DEF ReadInv

-----------------------------------------------------------------------------
(* The packet on its way. *)

\* As it is sent, or a front part of it, or with more behind it.
LEMMA ArrivesStep ==
  ASSUME CompressInv, NEW units \in Seq(UnitSet), NEW len \in Nat, NEW open \in BOOLEAN,
         NEW damaged \in Nat, damaged <= Len(units), damaged <= Len(body),
         Arrives(units, len, open, damaged),
         Ordered(body) => Ordered(units),
         \A i \in 1 .. Len(units) :
           units[i].last => /\ i \in 1 .. Len(body) /\ units[i] = body[i]
                            /\ len <= Len(units)
  PROVE  CompressInv'
<1>1. /\ phase = "write" /\ intact /\ Destroy /\ phase' = "read" /\ packet' = units
      /\ region' = (IF open THEN 0 ELSE len) /\ indeterminate' = open /\ bad' = damaged
      /\ UNCHANGED <<length_read, used, total_out, out, offset, inflate_ret, length, dest, ret,
                     given, spans, errors>>
  BY DEF Arrives, r
<1>2. WriterInv' /\ BodyInv'
 <2>1. [WriterNext]_writerVars BY <1>1 DEF WriterNext
 <2> QED BY <2>1, StepKeeps, BodyStep DEF CompressInv
<1>3. /\ length_read = 0 /\ used = 0 /\ total_out = 0 /\ out = <<>> /\ offset = 0
      /\ inflate_ret = "Z_OK" /\ length = 0 /\ dest = <<>> /\ ret = "read"
      /\ given = <<>> /\ spans = FALSE /\ errors = FALSE
  BY <1>1 DEF CompressInv, NotYet, Reader!Init
<1>4. /\ pc = "closed" /\ UNCHANGED <<pc, accepted, body>> BY <1>1 DEF Destroy
<1>5. /\ body # <<>> /\ body[Len(body)].last /\ Ordered(body) /\ Visible = accepted
      /\ \A i \in 1 .. Len(body) : body[i].last => i = Len(body)
      /\ accepted \in Nat
 <2>1. WriterInv /\ BodyInv BY DEF CompressInv
 <2> QED BY <1>1, <1>4, <2>1, Behind DEF WriterInv, StreamWhole, BodyInv
<1>6. body[Len(body)].upto = accepted BY <1>5 DEF Visible
<1>7. Len(units) \in Nat /\ DecompressBuffer \in Nat /\ region' \in Nat BY <1>1
<1>8. PacketOK'
 <2>1. \A i \in 1 .. Len(packet') :
         packet'[i].last => /\ i = Len(body') /\ packet'[i].upto = accepted'
                            /\ region' <= Len(packet')
  <3> SUFFICES ASSUME NEW i \in 1 .. Len(units), units[i].last
               PROVE  i = Len(body) /\ units[i].upto = accepted /\ region' <= Len(units)
    BY <1>1, <1>4
  <3>1. i \in 1 .. Len(body) /\ units[i] = body[i] /\ len <= Len(units) OBVIOUS
  <3>2. i = Len(body) BY <1>5, <3>1
  <3> QED BY <1>1, <1>6, <1>7, <3>1, <3>2
 <2>2. Ordered(units) BY <1>5
 <2> QED BY <1>1, <1>4, <1>5, <1>7, <2>1, <2>2 DEF PacketOK, Ordered
<1>9. Inflated'
 <2>1. Reader!Restored(used)' = 0 BY <1>1, <1>3 DEF Reader!Restored
 <2> QED BY <1>1, <1>3, <1>7, <2>1 DEF Inflated
<1>10. Delivered'
 <2>1. out' \in Seq(1 .. MaxData) /\ dest' \in Seq(0 .. MaxData) /\ given' \in Seq(0 .. MaxData)
       /\ Len(out') = 0 /\ Len(dest') = 0 /\ Len(given') = 0
   BY <1>1, <1>3
 <2>2. Copied' = 0 BY <1>1, <1>3 DEF Copied
 <2>3. Len(given') + Copied' + Len(out') - offset' = total_out' BY <1>1, <1>3, <2>1, <2>2
 <2>4. offset' \in 0 .. Len(out') /\ length' \in 0 .. MaxRead /\ Len(out') <= DecompressBuffer
   BY <1>1, <1>3, <1>7, <2>1
 <2>5. ret' = "read" /\ spans' \in BOOLEAN BY <1>1, <1>3
 <2> QED BY <2>1, <2>3, <2>4, <2>5 DEF Delivered
<1>11. InPlace' /\ Noticed'
 <2>1. Len(out') = 0 /\ Len(given') = 0 /\ ret' = "read" BY <1>1, <1>3
 <2>2. InPlace' BY <2>1 DEF InPlace
 <2>3. errors' = FALSE /\ inflate_ret' = "Z_OK" BY <1>1, <1>3
 <2> QED BY <2>1, <2>2, <2>3 DEF Noticed
<1>12. phase' \in {"write", "read"} /\ NotYet' BY <1>1 DEF NotYet
<1> QED BY <1>2, <1>8, <1>9, <1>10, <1>11, <1>12 DEF CompressInv, ReadInv

\* While the data is written nothing has arrived.
LEMMA WritingStep == ASSUME CompressInv, Writing PROVE CompressInv'
<1>1. /\ phase = "write" /\ phase' = "write" /\ WriterNext
      /\ UNCHANGED <<packet, region, indeterminate, bad, length_read, used, total_out, out, offset,
                     inflate_ret, length, dest, ret, given, spans, errors>>
  BY DEF Writing, file, r
<1>2. WriterInv' /\ BodyInv' BY <1>1, StepKeeps, BodyStep DEF CompressInv
<1>3. NotYet' BY <1>1 DEF CompressInv, NotYet, Reader!Init
<1>4. packet = <<>> /\ bad = 0 /\ indeterminate = FALSE /\ Len(packet) = 0
  BY <1>1 DEF CompressInv, NotYet
<1>5. PacketOK'
 <2>1. body' \in Seq(UnitSet) BY <1>2 DEF WriterInv, WriterTypeOK
 <2>2. Len(body') \in Nat BY <2>1
 <2> QED BY <1>1, <1>4, <2>2 DEF CompressInv, PacketOK, Ordered
<1>6. Inflated' BY <1>1 DEF CompressInv, ReadInv, Inflated, Reader!Restored
<1>7. Stuck' <=> Stuck BY <1>1, StuckSame DEF file
<1>8. Delivered' /\ InPlace' BY <1>1, <1>7 DEF CompressInv, ReadInv, Delivered, InPlace, Copied
<1>9. Noticed' BY <1>1, <1>4 DEF CompressInv, ReadInv, Noticed
<1> QED BY <1>1, <1>2, <1>3, <1>5, <1>6, <1>8, <1>9 DEF CompressInv, ReadInv

\* Sent as it is, with a unit damaged, cut off, or with other units behind it.
LEMMA SendingStep ==
  ASSUME CompressInv, Sent \/ Damaged \/ CutOff \/ Followed PROVE CompressInv'
<1>1. /\ body \in Seq(UnitSet) /\ Len(body) \in Nat /\ accepted \in 0 .. MaxData
 <2>1. body \in Seq(UnitSet) /\ accepted \in 0 .. MaxData
   BY DEF CompressInv, WriterInv, WriterTypeOK
 <2> QED BY <2>1
<1>2. CASE Sent
 <2>1. PICK open \in BOOLEAN : Arrives(body, Len(body), open, 0) BY <1>2 DEF Sent
 <2> QED BY <1>1, <2>1, ArrivesStep
<1>3. CASE Damaged
 <2>1. PICK open \in BOOLEAN, k \in 1 .. Len(body) : Arrives(body, Len(body), open, k)
   BY <1>3 DEF Damaged
 <2>2. k \in Nat /\ k <= Len(body) BY <1>1
 <2> QED BY <1>1, <2>1, <2>2, ArrivesStep
<1>4. CASE CutOff
 <2>1. PICK open \in BOOLEAN, k \in 0 .. Len(body) - 1 : \E len \in {k, Len(body)} :
         Arrives(SubSeq(body, 1, k), len, open, 0)
   BY <1>4 DEF CutOff
 <2>2. PICK len \in {k, Len(body)} : Arrives(SubSeq(body, 1, k), len, open, 0) BY <2>1
 <2> DEFINE u == SubSeq(body, 1, k)
 <2>3. /\ u \in Seq(UnitSet) /\ Len(u) = k /\ k \in Nat /\ k < Len(body)
       /\ \A i \in 1 .. k : u[i] = body[i] /\ i \in 1 .. Len(body) /\ i # Len(body)
   BY <1>1
 <2>4. Arrives(u, len, open, 0) /\ len \in Nat BY <1>1, <2>2
 <2> HIDE DEF u
 <2>5. Ordered(body) => Ordered(u) BY <2>3 DEF Ordered
 <2>6. \A i \in 1 .. Len(u) : ~u[i].last
  <3>1. intact /\ pc = "closed" BY <2>4 DEF Arrives, Destroy
  <3>2. \A i \in 1 .. Len(body) : body[i].last => i = Len(body)
    BY <3>1 DEF CompressInv, WriterInv, StreamWhole
  <3> QED BY <2>3, <3>2
 <2>7. 0 <= Len(u) /\ 0 <= Len(body) /\ 0 \in Nat BY <1>1, <2>3
 <2> QED BY <2>3, <2>4, <2>5, <2>6, <2>7, ArrivesStep
<1>5. CASE Followed
 <2>1. PICK open \in BOOLEAN, n \in {1, DecompressBuffer} :
         Arrives(body \o [i \in 1 .. n |-> Unit(accepted, FALSE)], Len(body) + n, open, 0)
   BY <1>5 DEF Followed
 <2> DEFINE more == [i \in 1 .. n |-> Unit(accepted, FALSE)]
            u == body \o more
 <2>2. n \in Nat /\ Len(body) + n \in Nat BY <1>1
 <2>3. /\ more \in Seq(UnitSet) /\ Len(more) = n
       /\ \A i \in 1 .. n : more[i].upto = accepted /\ more[i].last = FALSE
  <3>1. Unit(accepted, FALSE) \in UnitSet BY <1>1 DEF Unit, UnitSet
  <3> QED BY <2>2, <3>1 DEF Unit
 <2>4. Arrives(u, Len(body) + n, open, 0) BY <2>1
 <2> HIDE DEF more
 <2>5. /\ u \in Seq(UnitSet) /\ Len(u) = Len(body) + n
       /\ \A i \in 1 .. Len(body) + n :
            u[i] = IF i <= Len(body) THEN body[i] ELSE more[i - Len(body)]
   BY <1>1, <2>3, Joined
 <2> HIDE DEF u
 <2>6. ASSUME NEW i \in 1 .. Len(u)
       PROVE  /\ i <= Len(body) => i \in 1 .. Len(body) /\ u[i] = body[i]
              /\ ~(i <= Len(body)) => u[i].upto = accepted /\ u[i].last = FALSE
  <3>1. i \in 1 .. Len(body) + n BY <2>5
  <3>2. CASE i <= Len(body) BY <1>1, <2>5, <3>1, <3>2
  <3>3. CASE ~(i <= Len(body))
   <4>1. i - Len(body) \in 1 .. n BY <1>1, <2>2, <3>1, <3>3
   <4> QED BY <2>3, <2>5, <3>1, <3>3, <4>1
  <3> QED BY <3>2, <3>3
 <2>7. intact /\ pc = "closed" BY <2>4 DEF Arrives, Destroy
 <2>8. Ordered(body) => Ordered(u)
  <3> SUFFICES ASSUME Ordered(body), NEW i \in 1 .. Len(u), NEW j \in 1 .. Len(u), i < j
               PROVE  u[i].upto <= u[j].upto
    BY DEF Ordered
  <3>1. i \in Nat /\ j \in Nat BY <2>5, <1>1, <2>2
  <3>2. \A h \in 1 .. Len(body) : body[h] \in UnitSet /\ body[h].upto \in Nat
   <4>1. \A h \in 1 .. Len(body) : body[h] \in UnitSet BY <1>1
   <4> QED BY <4>1 DEF UnitSet
  <3>3. body # <<>> /\ body[Len(body)].upto = accepted
    BY <2>7 DEF CompressInv, WriterInv, StreamWhole, BodyInv, Visible
  <3>4. Len(body) \in 1 .. Len(body) BY <1>1, <3>3
  <3>5. CASE j <= Len(body)
   <4>1. i <= Len(body) BY <1>1, <3>1, <3>5
   <4>2. i \in 1 .. Len(body) /\ u[i] = body[i] BY <2>6, <4>1
   <4>3. j \in 1 .. Len(body) /\ u[j] = body[j] BY <2>6, <3>5
   <4>4. body[i].upto <= body[j].upto BY <4>2, <4>3 DEF Ordered
   <4> QED BY <4>2, <4>3, <4>4
  <3>6. CASE i <= Len(body) /\ ~(j <= Len(body))
   <4>1. i \in 1 .. Len(body) /\ u[i] = body[i] /\ u[j].upto = accepted BY <2>6, <3>6
   <4>2. i = Len(body) \/ i < Len(body) BY <1>1, <3>1, <3>6
   <4>3. body[i].upto <= body[Len(body)].upto BY <3>2, <3>4, <4>1, <4>2 DEF Ordered
   <4> QED BY <3>3, <4>1, <4>3
  <3>7. CASE ~(i <= Len(body))
   <4>1. ~(j <= Len(body)) BY <1>1, <3>1, <3>7
   <4>2. u[i].upto = accepted /\ u[j].upto = accepted BY <2>6, <3>7, <4>1
   <4> QED BY <4>2, <1>1
  <3> QED BY <3>5, <3>6, <3>7
 <2>9. \A i \in 1 .. Len(u) :
         u[i].last => i \in 1 .. Len(body) /\ u[i] = body[i] /\ Len(body) + n <= Len(u)
  <3>1. Len(body) + n <= Len(u) BY <2>2, <2>5
  <3>2. ASSUME NEW i \in 1 .. Len(u), u[i].last PROVE i <= Len(body)
   <4>1. CASE ~(i <= Len(body))
    <5>1. u[i].last = FALSE BY <2>6, <4>1
    <5> QED BY <3>2, <5>1
   <4> QED BY <4>1
  <3>3. ASSUME NEW i \in 1 .. Len(u), u[i].last
        PROVE  i \in 1 .. Len(body) /\ u[i] = body[i]
   <4>1. i <= Len(body) BY <3>2, <3>3
   <4> QED BY <2>6, <4>1
  <3> QED BY <3>1, <3>3
 <2>10. 0 <= Len(u) /\ 0 <= Len(body) /\ 0 \in Nat BY <1>1, <2>2, <2>5
 <2> QED BY <2>2, <2>4, <2>5, <2>8, <2>9, <2>10, ArrivesStep
<1> QED BY <1>2, <1>3, <1>4, <1>5


\* Nothing is written or read yet.
LEMMA CompressInit == Init => CompressInv
<1> SUFFICES ASSUME Init PROVE CompressInv OBVIOUS
<1>1. WriterInv BY InitWriterInv DEF Init
<1>2. /\ pc = "open" /\ body = <<>> /\ phase = "write" /\ Reader!Init
      /\ packet = <<>> /\ region = 0 /\ indeterminate = FALSE /\ bad = 0
  BY DEF Init, WriterInit
<1>3. /\ length_read = 0 /\ used = 0 /\ total_out = 0 /\ out = <<>> /\ offset = 0
      /\ inflate_ret = "Z_OK" /\ length = 0 /\ dest = <<>> /\ ret = "read"
      /\ given = <<>> /\ spans = FALSE /\ errors = FALSE
  BY <1>2 DEF Reader!Init
<1>4. /\ Len(body) = 0 /\ Len(packet) = 0 /\ Len(out) = 0 /\ Len(given) = 0 /\ Len(dest) = 0
  BY <1>2, <1>3
<1>5. BodyInv /\ NotYet BY <1>2, <1>4 DEF BodyInv, Ordered, NotYet
<1>6. PacketOK
 <2>1. packet \in Seq(UnitSet) /\ Ordered(packet) BY <1>2, <1>4 DEF Ordered
 <2>2. 1 .. Len(packet) = {} BY <1>4
 <2>3. region \in Nat /\ bad \in Nat /\ bad <= Len(packet) /\ bad <= Len(body) BY <1>2, <1>4
 <2>4. indeterminate \in BOOLEAN /\ ~(phase = "read") BY <1>2
 <2> QED BY <2>1, <2>2, <2>3, <2>4 DEF PacketOK
<1>7. Inflated
 <2>1. Reader!Restored(used) = 0 BY <1>3 DEF Reader!Restored
 <2> QED BY <1>2, <1>3, <1>4, <2>1 DEF Inflated
<1>8. Delivered
 <2>1. Copied = 0 BY <1>3 DEF Copied
 <2>2. Len(given) + Copied + Len(out) - offset = total_out BY <1>3, <1>4, <2>1
 <2>3. offset \in 0 .. Len(out) /\ length \in 0 .. MaxRead /\ Len(out) <= DecompressBuffer
   BY <1>3, <1>4
 <2>4. /\ out \in Seq(1 .. MaxData) /\ dest \in Seq(0 .. MaxData) /\ given \in Seq(0 .. MaxData)
       /\ ret = "read" /\ spans \in BOOLEAN
  <3>1. <<>> \in Seq(1 .. MaxData) /\ <<>> \in Seq(0 .. MaxData) OBVIOUS
  <3> QED BY <1>3, <3>1
 <2> QED BY <2>2, <2>3, <2>4 DEF Delivered
<1>9. InPlace /\ Noticed
 <2>1. InPlace BY <1>3, <1>4 DEF InPlace
 <2> QED BY <1>3, <2>1 DEF Noticed
<1> QED BY <1>1, <1>2, <1>5, <1>6, <1>7, <1>8, <1>9 DEF CompressInv, ReadInv

\* A step that changes nothing.
LEMMA CompressStutter == ASSUME CompressInv, UNCHANGED vars PROVE CompressInv'
<1>1. /\ UNCHANGED writerVars /\ UNCHANGED <<packet, region, indeterminate, bad>> /\ phase' = phase
      /\ UNCHANGED <<length_read, used, total_out, out, offset, inflate_ret, length, dest, ret,
                     given, spans, errors>>
  BY DEF vars, file, r
<1>2. WriterInv' /\ BodyInv' BY <1>1, StepKeeps, BodyStep DEF CompressInv
<1>3. NotYet' /\ PacketOK'
  BY <1>1 DEF CompressInv, NotYet, Reader!Init, PacketOK, Ordered, writerVars
<1>4. Inflated' BY <1>1 DEF CompressInv, ReadInv, Inflated, Reader!Restored
<1>5. Stuck' <=> Stuck BY <1>1, StuckSame DEF file
<1>6. Delivered' /\ InPlace' BY <1>1, <1>5 DEF CompressInv, ReadInv, Delivered, InPlace, Copied
<1>7. Noticed' BY <1>1 DEF CompressInv, ReadInv, Noticed, Intact, writerVars
<1> QED BY <1>1, <1>2, <1>3, <1>4, <1>6, <1>7 DEF CompressInv, ReadInv

\* Every step keeps it.
LEMMA CompressStep == ASSUME CompressInv, [Next]_vars PROVE CompressInv'
<1>1. CASE Writing BY <1>1, WritingStep
<1>2. CASE Sent \/ Damaged \/ CutOff \/ Followed BY <1>2, SendingStep
<1>3. ASSUME NEW n \in 1 .. MaxRead, Call(n) PROVE CompressInv' BY <1>3, CallStep
<1>4. CASE Step
 <2>1. Reader!ReadFails \/ Reader!Fill \/ Reader!Copy BY <1>4 DEF Step, Reader!Step
 <2> QED BY <1>4, <2>1, ReadFailsStep, FillStep, CopyStep
<1>5. CASE UNCHANGED vars BY <1>5, CompressStutter
<1> QED BY <1>1, <1>2, <1>3, <1>4, <1>5 DEF Next

-----------------------------------------------------------------------------
(* The theorems on the reader. *)

\* What is in the filling, what is copied and what has been given is what inflate
\* has put out, and inflate stands where the packet lets it, always.
THEOREM CompressInvariance == Spec => []CompressInv
BY CompressInit, CompressStep, PTL DEF Spec

\* The types.
LEMMA CompressTyped == CompressInv => TypeOK
<1> SUFFICES ASSUME CompressInv PROVE TypeOK OBVIOUS
<1>1. WriterInv /\ PacketOK /\ Inflated /\ Delivered /\ Noticed /\ phase \in {"write", "read"}
  BY DEF CompressInv, ReadInv
<1>2. WriterTypeOK BY <1>1 DEF WriterInv
<1>3. packet \in Seq(UnitSet) /\ region \in Nat /\ bad \in 0 .. Len(packet) BY <1>1 DEF PacketOK
<1>4. {indeterminate, spans, errors} \subseteq BOOLEAN BY <1>1 DEF PacketOK, Delivered, Noticed
<1>5. length_read \in used .. used + DecompressBuffer /\ length_read <= Len(packet)
  BY <1>1 DEF Inflated
<1>6. total_out \in 0 .. MaxData
 <2>1. Reader!Restored(used) \in 0 .. MaxData
  <3>1. used \in Nat /\ used <= Len(packet)
   <4>1. Len(packet) \in Nat BY <1>3
   <4> QED BY <1>1, <4>1 DEF Inflated
  <3> QED BY <1>1, <3>1, RestoredFacts
 <2>2. total_out \in Nat /\ total_out <= Reader!Restored(used) BY <1>1 DEF Inflated
 <2> QED BY <2>1, <2>2
<1>7. /\ out \in Seq(1 .. MaxData) /\ Len(out) <= DecompressBuffer /\ offset \in 0 .. Len(out)
      /\ length \in 0 .. MaxRead /\ dest \in Seq(0 .. MaxData) /\ given \in Seq(0 .. MaxData)
      /\ ret \in {"reading", "abort", "read", "zero", "minus"}
  BY <1>1 DEF Delivered
<1>8. inflate_ret \in {"Z_OK", "Z_STREAM_END", "Z_DATA_ERROR", "Z_BUF_ERROR"} BY <1>1 DEF Inflated
<1> QED BY <1>1, <1>2, <1>3, <1>4, <1>5, <1>6, <1>7, <1>8 DEF TypeOK

\* No buffer of the composition is overrun and no state of zlib's is read that it
\* does not have (compress.c:76 to 158).
THEOREM CompressTypeCorrect == Spec => []TypeOK
BY CompressInvariance, CompressTyped, PTL

\* A reader that has said the end has put out all of the data, and no unit was damaged.
LEMMA EndReached ==
  ASSUME CompressInv, ret = "zero"
  PROVE  /\ bad = 0 /\ used = Len(body) /\ total_out = accepted
         /\ region <= Len(packet) /\ offset = Len(out)
         /\ phase = "read"
<1>1. PacketOK /\ Inflated /\ Delivered /\ Noticed BY DEF CompressInv, ReadInv
<1>2. inflate_ret = "Z_STREAM_END" /\ offset = Len(out) BY <1>1 DEF Noticed
<1>3. used \in Nat /\ used > 0 /\ packet[used].last /\ total_out = packet[used].upto
  BY <1>1, <1>2 DEF Inflated
<1>4. used \in 1 .. Len(packet)
 <2>1. Len(packet) \in Nat BY <1>1 DEF PacketOK
 <2> QED BY <1>1, <1>3, <2>1 DEF Inflated
<1>5. used = Len(body) /\ packet[used].upto = accepted /\ region <= Len(packet)
  BY <1>1, <1>3, <1>4 DEF PacketOK
<1>6. bad = 0
 <2>1. bad \in Nat /\ bad <= Len(body) /\ (bad = 0 \/ used < bad) BY <1>1 DEF PacketOK, Inflated
 <2> QED BY <1>3, <1>5, <2>1
<1>7. phase = "read" BY DEF CompressInv, NotYet, Reader!Init
<1> QED BY <1>2, <1>3, <1>5, <1>6, <1>7

\* Both parts of what a reader may rely on.
LEMMA CompressSafe == CompressInv => DataRestored
<1> SUFFICES ASSUME CompressInv PROVE DataRestored OBVIOUS
<1>1. PacketOK /\ Inflated /\ Delivered /\ InPlace /\ Noticed BY DEF CompressInv, ReadInv
<1>2. /\ Len(packet) \in Nat /\ region \in Nat /\ length_read \in Nat
      /\ Len(given) \in Nat /\ Len(out) \in Nat /\ offset \in Nat
 <2>1. packet \in Seq(UnitSet) /\ given \in Seq(0 .. MaxData) /\ out \in Seq(1 .. MaxData)
   BY <1>1 DEF PacketOK, Delivered
 <2> QED BY <1>1, <2>1 DEF PacketOK, Inflated, Delivered
<1>3. region <= Len(packet) => ~Stuck
 <2>1. Reader!Wanted \in Nat BY <1>1, WantedFacts
 <2>2. length_read + Reader!Wanted > Len(packet) => region > Len(packet) BY <1>1, WantedFacts
 <2> QED BY <1>2, <2>1, <2>2 DEF Stuck
<1>4. DataGiven
 <2>1. region <= Len(packet) /\ ret # "abort" => Len(given) + Copied + Len(out) - offset = total_out
   BY <1>1, <1>3 DEF Delivered
 <2>2. ~spans => \A i \in 1 .. Len(given) : given[i] = i BY <1>1 DEF InPlace
 <2>3. ASSUME ret = "zero" PROVE Len(given) = accepted
  <3>1. total_out = accepted /\ region <= Len(packet) /\ offset = Len(out) BY <2>3, EndReached
  <3>2. Copied = 0 BY <2>3 DEF Copied
  <3>3. Len(given) + 0 + Len(out) - offset = total_out BY <2>1, <2>3, <3>1, <3>2
  <3> QED BY <1>2, <3>1, <3>3
 <2> QED BY <2>1, <2>2, <2>3 DEF DataGiven
<1>5. DamageNoticed
 <2>1. ret = "zero" => bad = 0 /\ used = Len(body) BY EndReached
 <2>2. ret = "zero" /\ ~indeterminate /\ region > length_read => errors
  <3>1. region > length_read => length_read # region BY <1>2
  <3> QED BY <1>1, <3>1 DEF Noticed
 <2>3. phase = "read" /\ Intact /\ indeterminate => ~errors BY <1>1 DEF Noticed
 <2> QED BY <2>1, <2>2, <2>3 DEF DamageNoticed
<1> QED BY <1>4, <1>5 DEF DataRestored

\* Whoever decompresses gets the octets that were written, each once and in order as
\* long as no read takes from two fillings, and is told the end only when it has them
\* all; and a packet that is damaged, cut off or followed by more than the reader
\* passes does not end without an error, for buffers, data and reads of any size
\* (compress.c:87 to 157).
THEOREM CompressedDataRestored == Spec => []DataRestored
BY CompressInvariance, CompressSafe, PTL

=============================================================================
