--------------------------- MODULE WriterStackProofs ---------------------------
(***************************************************************************)
(* What the stacked writers do, however they are stacked and however many  *)
(* there are: TypeOK, Enclosed, IsByteStream and ErrorsKept.               *)
(*                                                                         *)
(* What is out says nothing of what a partial writer still holds, and the  *)
(* end of a packet must be of both.  The invariant is about all that has   *)
(* been written: the pieces that are out and those held, in the order in   *)
(* which they will come out and each with the writers that it will then    *)
(* have gone through (Flow).  A write to a writer adds to the end of that  *)
(* whatever the writers below keep, and a finaliser ends the last of the   *)
(* writers that all of it still goes through (WrittenInv, with TypeInv for *)
(* the stack under it).  What is out is the start of it, so that what      *)
(* holds of all of it holds of the file.                                   *)
(*                                                                         *)
(* The result of writer_info_finalise is collected over several steps and  *)
(* becomes the result of a call only at the end, so that the invariant of  *)
(* ErrorsKept (ReportInv) is about it too.                                 *)
(***************************************************************************)
EXTENDS WriterStack, FiniteSetTheorems, SequenceTheorems, WellFoundedInduction, TLAPS

-----------------------------------------------------------------------------
(* The writers and what they are at. *)

NameSet == [what : Whats, by : WriterIds \cup {<<"app", 0>>}, n : 0 .. MaxData]
WriterSet == [id : WriterIds, pending : BOOLEAN, first : BOOLEAN, held : Seq(PieceSet),
              seen : Seq(NameSet)]
JobSet == [at : {"none", "packets", "public_part", "secret_part", "encrypted_part", "failed"},
           armoured : BOOLEAN]

\* The writers up to here have not been finalised.
Live == IF phase = "finalising" THEN at ELSE Top

\* The writers s, the newest of which has at most number m: those up to live have not
\* been finalised.
Stacked(s, m, live) ==
  /\ s \in Seq(WriterSet) /\ Len(s) >= 1 /\ Kind(s[1]) = "base" /\ Len(s) <= m + 1
  /\ \A i, j \in 1 .. Len(s) : i < j => s[i].id[2] < s[j].id[2]
  /\ \A i \in 1 .. Len(s) :
       /\ s[i].id[2] <= m
       /\ s[i].held # <<>> => Kind(s[i]) \in Buffering /\ s[i].pending
       /\ s[i].pending <=> i <= live /\ Kind(s[i]) \in Finalised
       /\ Kind(s[i]) = "sign" => i > 1 /\ s[i - 1].id = <<"partial", s[i].id[2] - 1>>

StackInv ==
  /\ made \in 0 .. MaxWriters /\ at \in 0 .. MaxWriters + 1
  /\ phase \in {"open", "finalising", "closed"} /\ (phase = "finalising" => at <= Top)
  /\ IF phase = "closed" THEN stack = <<>> ELSE Stacked(stack, made, Live)

\* Writer t is the armour of a key, and none below it waits for its end.
KeyAt(s, t) ==
  /\ t >= 2 /\ t <= Len(s) /\ Kind(s[t]) = "base64"
  /\ \A i \in 1 .. t - 1 : Kind(s[i]) \notin Finalised
KeyInv ==
  /\ job \in JobSet /\ (job.at = "none" => ~job.armoured)
  /\ phase = "closed" => job = Idle
  /\ phase = "finalising" => job = Idle \/ job = [at |-> "packets", armoured |-> TRUE]
  /\ job.at = "encrypted_part" => Top >= 2 /\ Kind(stack[Top]) = "encrypt"
  /\ job.armoured /\ job.at # "failed" =>
       KeyAt(stack, IF job.at = "encrypted_part" THEN Top - 1 ELSE Top)

-----------------------------------------------------------------------------
(* What has been written, whether it is out or still held: ps, in the order in *)
(* which it will come out and with the writers that it will have gone through. *)

Ids(s, n) == {s[j].id : j \in 1 .. n}
Lifted(s, n, ps) ==
  [k \in DOMAIN ps |-> [ps[k] EXCEPT !.through = @ \cup Ids(s, n)]]
Flow(s, n, o, v) ==
  /\ v \in [0 .. n -> Seq(PieceSet)] /\ v[0] = o
  /\ \A i \in 1 .. n : v[i] = v[i - 1] \o Lifted(s, i - 1, s[i].held)
SeenAll(s, n, v) ==
  \A i \in 1 .. n : Kind(s[i]) \in Hashing => MadeOver(v[i], s[i].seen, s[i].id)

\* No writer is older than its pieces.
Old(ps, m) ==
  \A k \in DOMAIN ps : ps[k].by[2] <= m /\ \A id \in ps[k].through : id[2] <= m
\* Writers in live have not ended or signed; those in kept, if they have ended, will
\* not be written to again.
Closing(p) == p.what \in {"end", "signature"}
NotEnded(ps, live) == \A k \in DOMAIN ps : Closing(ps[k]) => ps[k].by \notin live
EndKinds(ps, kept) ==
  \A k \in DOMAIN ps :
    /\ ps[k].what = "end" /\ ps[k].by \in kept => ps[k].by[1] \in Finalised
    /\ ps[k].what = "signature" => ps[k].by[1] = "sign"
EndOnce(ps) ==
  \A j, k \in DOMAIN ps : ps[j].what = "end" /\ ps[k].what = "end" /\ ps[j].by = ps[k].by => j = k
\* Nothing goes through a writer after that.
Shut(ps) == \A j, k \in DOMAIN ps : j <= k /\ Closing(ps[j]) => ps[j].by \notin ps[k].through
Headed(ps) ==
  \A h \in DOMAIN ps : ps[h].what = "header" => ps[h].by[1] \in Finalised \cup {"dash"}
\* The text of a clear-signed message goes on.
TextOpen(ps, text) ==
  \A h, k \in DOMAIN ps :
    ps[h].what = "header" /\ ps[h].by \in text /\ ps[h].by[1] = "dash" /\ k > h =>
      ps[h].by \in ps[k].through
WillEnd(ps, live) ==
  \A k \in DOMAIN ps : \A id \in ps[k].through \cup {ps[k].by} :
    id[1] \in Finalised => id \in live \/ Ends(ps, id) # {}
Signs(ps, id) == \E j \in DOMAIN ps : ps[j].what = "signature" /\ ps[j].by = id
WillSign(ps, signing) ==
  \A k \in DOMAIN ps : \A id \in ps[k].through \cup {ps[k].by} :
    id[1] = "sign" => id \in signing \/ Signs(ps, id)

Good(ps, m, live, kept, text, signing) ==
  /\ Framed(ps) /\ Covering(ps) /\ SecretsOnly(ps)
  /\ Old(ps, m) /\ NotEnded(ps, live) /\ EndKinds(ps, kept) /\ EndOnce(ps)
  /\ Shut(ps) /\ Headed(ps) /\ TextOpen(ps, text) /\ WillEnd(ps, live) /\ WillSign(ps, signing)

\* Pieces of data are numbered as they come.
Counted(ps, n) ==
  /\ Count(ps, Len(ps)) = n
  /\ \A k \in Numbers(ps) : ps[k].n = Count(ps, k)

Text == IF phase = "open" \/ job # Idle THEN Ids(stack, Top) ELSE {}
Signing == {stack[j].id : j \in {i \in 1 .. Top : Kind(stack[i]) = "sign" /\ i <= Live + 1}}
\* A signed writer that is done waits for its packet to end.
SignSeen(v) ==
  Live < Top /\ Kind(stack[Live + 1]) = "sign" =>
    MadeOver(v[Live], stack[Live + 1].seen, stack[Live + 1].id)
Encrypts ==
  /\ job.at # "failed"
  /\ \A i \in 1 .. Top :
       Kind(stack[i]) = "encrypt" => i = Top /\ phase = "open" /\ job.at = "encrypted_part"

DataInv(v) ==
  /\ Flow(stack, Live, out, v) /\ SeenAll(stack, Live, v) /\ SignSeen(v)
  /\ Good(v[Live], made, Ids(stack, Live), Ids(stack, Top), Text, Signing)
  /\ Counted(v[Live], accepted) /\ Encrypts
WrittenInv == intact => \E v : DataInv(v)

USE WriterStackAssumption DEF WriterStackAssumption

-----------------------------------------------------------------------------
(* Pieces and the writers they go through. *)

\* A writer and what made a piece have a kind and a number.
LEMMA IdFacts ==
  /\ \A id \in WriterIds : id[1] \in Kinds /\ id[2] \in Nat
  /\ \A id \in WriterIds \cup {<<"app", 0>>} : id[2] \in Nat
BY DEF WriterIds

\* A piece that goes through writers remains the piece it is.
LEMMA PieceFacts ==
  ASSUME NEW p \in PieceSet, NEW T \in SUBSET WriterIds
  PROVE  /\ [p EXCEPT !.through = @ \cup T] \in PieceSet
         /\ [p EXCEPT !.through = @ \cup T].through = p.through \cup T
         /\ [p EXCEPT !.through = @ \cup T].what = p.what
         /\ [p EXCEPT !.through = @ \cup T].by = p.by
         /\ [p EXCEPT !.through = @ \cup T].n = p.n
         /\ [p EXCEPT !.through = @ \cup T].seen = p.seen
         /\ Name([p EXCEPT !.through = @ \cup T]) = Name(p)
<1> DEFINE A == WriterIds \cup {<<"app", 0>>}
           B == 0 .. MaxData
           C == SUBSET WriterIds
           D == Seq([what : Whats, by : A, n : B])
           q == [p EXCEPT !.through = @ \cup T]
<1>1. p \in [what : Whats, by : A, n : B, through : C, seen : D] BY DEF PieceSet
<1>2. p.through \cup T \in C
 <2> HIDE DEF A, B, D
 <2> QED BY <1>1
<1> HIDE DEF A, B, C, D
<1>3. /\ q \in [what : Whats, by : A, n : B, through : C, seen : D]
      /\ q.through = p.through \cup T
      /\ q.what = p.what /\ q.by = p.by /\ q.n = p.n /\ q.seen = p.seen
  BY <1>1, <1>2
<1>4. q \in PieceSet BY <1>3 DEF PieceSet, A, B, C, D
<1>5. Name(q) = Name(p) BY <1>3 DEF Name
<1> QED BY <1>3, <1>4, <1>5

\* What a piece is made of says which it is.
LEMMA PieceEqual ==
  ASSUME NEW p \in PieceSet, NEW q \in PieceSet, p.what = q.what, p.by = q.by, p.n = q.n,
         p.seen = q.seen, p.through = q.through
  PROVE  p = q
BY DEF PieceSet

\* The writers up to a place have writers' names, and the one there is among them.
LEMMA IdsFacts ==
  ASSUME NEW s \in Seq(WriterSet), NEW n \in 0 .. Len(s)
  PROVE  /\ Ids(s, n) \in SUBSET WriterIds
         /\ n > 0 => Ids(s, n) = Ids(s, n - 1) \cup {s[n].id}
         /\ n = 0 => Ids(s, n) = {}
<1>1. \A j \in 1 .. n : s[j] \in WriterSet OBVIOUS
<1>2. \A j \in 1 .. n : s[j].id \in WriterIds BY <1>1 DEF WriterSet
<1>3. n > 0 => Ids(s, n) = Ids(s, n - 1) \cup {s[n].id} BY DEF Ids
<1> QED BY <1>2, <1>3 DEF Ids

\* Pieces that have gone through a writer.
LEMMA MarkedFacts ==
  ASSUME NEW w \in WriterSet, NEW ps \in Seq(PieceSet)
  PROVE  /\ Marked(w, ps) \in Seq(PieceSet) /\ Len(Marked(w, ps)) = Len(ps)
         /\ ps = <<>> <=> Marked(w, ps) = <<>>
         /\ \A k \in 1 .. Len(ps) :
              /\ Marked(w, ps)[k] \in PieceSet
              /\ Marked(w, ps)[k].through = ps[k].through \cup {w.id}
              /\ Marked(w, ps)[k].what = ps[k].what /\ Marked(w, ps)[k].by = ps[k].by
              /\ Marked(w, ps)[k].n = ps[k].n /\ Marked(w, ps)[k].seen = ps[k].seen
              /\ Name(Marked(w, ps)[k]) = Name(ps[k])
<1> DEFINE m == Len(ps)
           A == Marked(w, ps)
           T == {w.id}
<1>1. m \in Nat /\ DOMAIN ps = 1 .. m /\ \A k \in 1 .. m : ps[k] \in PieceSet OBVIOUS
<1>2. A = [k \in 1 .. m |-> [ps[k] EXCEPT !.through = @ \cup T]] BY <1>1 DEF Marked
<1>3. T \in SUBSET WriterIds BY DEF WriterSet
<1>4. ASSUME NEW k \in 1 .. m
      PROVE  /\ A[k] \in PieceSet /\ A[k].through = ps[k].through \cup T
             /\ A[k].what = ps[k].what /\ A[k].by = ps[k].by
             /\ A[k].n = ps[k].n /\ A[k].seen = ps[k].seen /\ Name(A[k]) = Name(ps[k])
 <2> HIDE DEF T
 <2>1. A[k] = [ps[k] EXCEPT !.through = @ \cup T] /\ ps[k] \in PieceSet BY <1>1, <1>2
 <2> DEFINE p == ps[k]
            a == A[k]
 <2> HIDE DEF A, p, a
 <2>2. a = [p EXCEPT !.through = @ \cup T] /\ p \in PieceSet BY <2>1 DEF p, a
 <2>3. /\ a \in PieceSet /\ a.through = p.through \cup T /\ a.what = p.what /\ a.by = p.by
       /\ a.n = p.n /\ a.seen = p.seen /\ Name(a) = Name(p)
   BY <2>2, <1>3, PieceFacts
 <2> QED BY <2>3 DEF p, a
<1> HIDE DEF A, m
<1>5. A \in Seq(PieceSet) /\ Len(A) = m
 <2>1. A \in [1 .. m -> PieceSet] BY <1>2, <1>4
 <2> QED BY <1>1, <2>1
<1>6. ps = <<>> <=> A = <<>> BY <1>5 DEF m
<1> QED BY <1>4, <1>5, <1>6 DEF A, m, T

\* What has gone through the writers up to a place is otherwise as it was.
LEMMA LiftedFacts ==
  ASSUME NEW s \in Seq(WriterSet), NEW n \in 0 .. Len(s), NEW ps \in Seq(PieceSet)
  PROVE  /\ Lifted(s, n, ps) \in Seq(PieceSet) /\ Len(Lifted(s, n, ps)) = Len(ps)
         /\ \A k \in 1 .. Len(ps) :
              /\ Lifted(s, n, ps)[k] \in PieceSet
              /\ Lifted(s, n, ps)[k].through = ps[k].through \cup Ids(s, n)
              /\ Lifted(s, n, ps)[k].what = ps[k].what /\ Lifted(s, n, ps)[k].by = ps[k].by
              /\ Lifted(s, n, ps)[k].n = ps[k].n /\ Lifted(s, n, ps)[k].seen = ps[k].seen
              /\ Name(Lifted(s, n, ps)[k]) = Name(ps[k])
<1> DEFINE m == Len(ps)
           A == Lifted(s, n, ps)
           T == Ids(s, n)
<1>1. m \in Nat /\ DOMAIN ps = 1 .. m /\ \A k \in 1 .. m : ps[k] \in PieceSet OBVIOUS
<1>2. A = [k \in 1 .. m |-> [ps[k] EXCEPT !.through = @ \cup T]] BY <1>1 DEF Lifted
<1>3. T \in SUBSET WriterIds BY IdsFacts
<1>4. ASSUME NEW k \in 1 .. m
      PROVE  /\ A[k] \in PieceSet /\ A[k].through = ps[k].through \cup T
             /\ A[k].what = ps[k].what /\ A[k].by = ps[k].by
             /\ A[k].n = ps[k].n /\ A[k].seen = ps[k].seen /\ Name(A[k]) = Name(ps[k])
 <2> HIDE DEF T
 <2>1. A[k] = [ps[k] EXCEPT !.through = @ \cup T] /\ ps[k] \in PieceSet BY <1>1, <1>2
 <2> DEFINE p == ps[k]
            a == A[k]
 <2> HIDE DEF A, p, a
 <2>2. a = [p EXCEPT !.through = @ \cup T] /\ p \in PieceSet BY <2>1 DEF p, a
 <2>3. /\ a \in PieceSet /\ a.through = p.through \cup T /\ a.what = p.what /\ a.by = p.by
       /\ a.n = p.n /\ a.seen = p.seen /\ Name(a) = Name(p)
   BY <2>2, <1>3, PieceFacts
 <2> QED BY <2>3 DEF p, a
<1> HIDE DEF A, m
<1>5. A \in Seq(PieceSet) /\ Len(A) = m
 <2>1. A \in [1 .. m -> PieceSet] BY <1>2, <1>4
 <2> QED BY <1>1, <2>1
<1> QED BY <1>4, <1>5 DEF A, m, T

\* What goes through a writer and then through those below it.
LEMMA LiftedOfMarked ==
  ASSUME NEW s \in Seq(WriterSet), NEW n \in 1 .. Len(s), NEW ps \in Seq(PieceSet)
  PROVE  Lifted(s, n - 1, Marked(s[n], ps)) = Lifted(s, n, ps)
<1> DEFINE M == Marked(s[n], ps)
           A == Lifted(s, n - 1, M)
           B == Lifted(s, n, ps)
<1>1. n - 1 \in 0 .. Len(s) /\ n \in 0 .. Len(s) /\ s[n] \in WriterSet /\ n > 0 OBVIOUS
<1>2. M \in Seq(PieceSet) /\ Len(M) = Len(ps) BY <1>1, MarkedFacts
<1>3. /\ A \in Seq(PieceSet) /\ Len(A) = Len(ps)
      /\ B \in Seq(PieceSet) /\ Len(B) = Len(ps)
  BY <1>1, <1>2, LiftedFacts
<1>4. ASSUME NEW k \in 1 .. Len(ps) PROVE A[k] = B[k]
 <2>1. /\ M[k].through = ps[k].through \cup {s[n].id} /\ M[k].what = ps[k].what
       /\ M[k].by = ps[k].by /\ M[k].n = ps[k].n /\ M[k].seen = ps[k].seen
   BY <1>1, MarkedFacts
 <2> HIDE DEF M
 <2>2. /\ A[k] \in PieceSet /\ A[k].through = M[k].through \cup Ids(s, n - 1)
       /\ A[k].what = M[k].what /\ A[k].by = M[k].by /\ A[k].n = M[k].n /\ A[k].seen = M[k].seen
   BY <1>1, <1>2, LiftedFacts
 <2>3. /\ B[k] \in PieceSet /\ B[k].through = ps[k].through \cup Ids(s, n)
       /\ B[k].what = ps[k].what /\ B[k].by = ps[k].by /\ B[k].n = ps[k].n
       /\ B[k].seen = ps[k].seen
   BY <1>1, LiftedFacts
 <2>4. Ids(s, n) = Ids(s, n - 1) \cup {s[n].id} BY <1>1, IdsFacts
 <2> HIDE DEF A, B
 <2>5. A[k].through = B[k].through BY <2>1, <2>2, <2>3, <2>4
 <2> QED BY <2>1, <2>2, <2>3, <2>5, PieceEqual
<1> HIDE DEF A, B
<1> QED BY <1>3, <1>4, SeqEqual DEF A, B, M

\* Two runs of pieces go through the same writers one after the other.
LEMMA LiftedOfConcat ==
  ASSUME NEW s \in Seq(WriterSet), NEW n \in 0 .. Len(s),
         NEW a \in Seq(PieceSet), NEW b \in Seq(PieceSet)
  PROVE  Lifted(s, n, a \o b) = Lifted(s, n, a) \o Lifted(s, n, b)
<1> DEFINE c == a \o b
           A == Lifted(s, n, a)
           B == Lifted(s, n, b)
           C == Lifted(s, n, c)
           T == Ids(s, n)
<1>1. /\ c \in Seq(PieceSet) /\ Len(c) = Len(a) + Len(b) /\ Len(a) \in Nat /\ Len(b) \in Nat
      /\ \A i \in 1 .. Len(a) + Len(b) : c[i] = IF i <= Len(a) THEN a[i] ELSE b[i - Len(a)]
  BY ConcatProperties
<1> HIDE DEF c
<1>2. /\ A \in Seq(PieceSet) /\ Len(A) = Len(a) /\ B \in Seq(PieceSet) /\ Len(B) = Len(b)
      /\ C \in Seq(PieceSet) /\ Len(C) = Len(c)
  BY <1>1, LiftedFacts
<1>3. /\ \A k \in 1 .. Len(a) : A[k] = [a[k] EXCEPT !.through = @ \cup T]
      /\ \A k \in 1 .. Len(b) : B[k] = [b[k] EXCEPT !.through = @ \cup T]
      /\ \A k \in 1 .. Len(c) : C[k] = [c[k] EXCEPT !.through = @ \cup T]
 <2>1. DOMAIN a = 1 .. Len(a) /\ DOMAIN b = 1 .. Len(b) /\ DOMAIN c = 1 .. Len(c) BY <1>1
 <2> HIDE DEF T
 <2> QED BY <2>1 DEF Lifted, T
<1> HIDE DEF A, B, C, T
<1>4. /\ A \o B \in Seq(PieceSet) /\ Len(A \o B) = Len(A) + Len(B)
      /\ \A i \in 1 .. Len(A) + Len(B) : (A \o B)[i] = IF i <= Len(A) THEN A[i] ELSE B[i - Len(A)]
  BY <1>2, ConcatProperties
<1> DEFINE D == A \o B
<1> HIDE DEF D
<1>5. ASSUME NEW k \in 1 .. Len(c) PROVE C[k] = D[k]
 <2>1. CASE k <= Len(a)
  <3>1. k \in 1 .. Len(a) BY <2>1
  <3>2. c[k] = a[k] /\ D[k] = A[k] BY <1>1, <1>2, <1>4, <3>1 DEF D
  <3> QED BY <1>3, <3>1, <3>2
 <2>2. CASE k > Len(a)
  <3>1. k - Len(a) \in 1 .. Len(b) /\ ~(k <= Len(a)) BY <1>1, <2>2
  <3>2. c[k] = b[k - Len(a)] /\ D[k] = B[k - Len(a)] BY <1>1, <1>2, <1>4, <3>1 DEF D
  <3> QED BY <1>3, <3>1, <3>2
 <2> QED BY <1>1, <2>1, <2>2
<1>6. C = D BY <1>1, <1>2, <1>4, <1>5, SeqEqual DEF D
<1> QED BY <1>6 DEF A, B, C, D, c

\* Nothing that goes through writers is still nothing.
LEMMA LiftedOfNone ==
  ASSUME NEW s \in Seq(WriterSet), NEW n \in 0 .. Len(s) PROVE Lifted(s, n, <<>>) = <<>>
<1>1. <<>> \in Seq(PieceSet) /\ Len(<<>>) = 0 BY EmptySeq
<1>2. Lifted(s, n, <<>>) \in Seq(PieceSet) /\ Len(Lifted(s, n, <<>>)) = 0 BY <1>1, LiftedFacts
<1> QED BY <1>2, EmptySeq

-----------------------------------------------------------------------------
(* What gets to each writer of the pieces that are written to one of them. *)

Less == {x \in Nat \X Nat : x[1] < x[2]}

\* A set of numbers has a least one.
LEMMA Least ==
  ASSUME NEW T, T \subseteq Nat, T # {} PROVE \E n \in T : \A m \in T : n <= m
<1>1. IsWellFoundedOn(Less, Nat) BY NatLessThanWellFounded DEF OpToRel, Less
<1>2. PICK n \in T : \A m \in T : <<m, n>> \notin Less BY <1>1, WFMin
<1>3. ASSUME NEW m \in T PROVE n <= m
 <2>1. m \in Nat /\ n \in Nat /\ ~(m < n) BY <1>2 DEF Less
 <2> QED BY <2>1
<1> QED BY <1>3

Passed(s, keep, above, i) ==
  IF above = <<>> \/ i + 1 \in keep THEN <<>>
  ELSE Emitted(s[i + 1], Marked(s[i + 1], above))

\* The recursion of Arriving, from the writer on top down to the file.
LEMMA ArrivingFacts ==
  ASSUME NEW s, NEW pieces, NEW top \in Nat, NEW keep
  PROVE  /\ Arriving(s, pieces, top, keep)[top] = pieces
         /\ \A i \in 0 .. top - 1 : Arriving(s, pieces, top, keep)[i] =
              Passed(s, keep, Arriving(s, pieces, top, keep)[i + 1], i)
<1> DEFINE Step(g, i) == IF i = top THEN pieces ELSE Passed(s, keep, g[i + 1], i)
           Reaches(n) == \E g : g = [i \in top - n .. top |-> Step(g, i)]
           A == Arriving(s, pieces, top, keep)
<1>1. A = CHOOSE g : g = [i \in 0 .. top |-> Step(g, i)] BY DEF Arriving, Passed
<1>2. Reaches(0)
 <2> DEFINE g == [i \in top .. top |-> pieces]
 <2>1. g = [i \in top - 0 .. top |-> Step(g, i)]
  <3>1. top - 0 = top /\ \A i \in top .. top : i = top OBVIOUS
  <3> QED BY <3>1
 <2> HIDE DEF g
 <2> QED BY <2>1
<1>3. ASSUME NEW n \in Nat, n < top, Reaches(n) PROVE Reaches(n + 1)
 <2>1. PICK g : g = [i \in top - n .. top |-> Step(g, i)] BY <1>3
 <2> DEFINE h == [i \in top - (n + 1) .. top |->
                    IF i = top - (n + 1) THEN Passed(s, keep, g[i + 1], i) ELSE g[i]]
 <2>2. ASSUME NEW i \in top - (n + 1) .. top PROVE h[i] = Step(h, i)
  <3>1. CASE i = top - (n + 1)
   <4>1. i + 1 \in top - n .. top /\ i # top /\ i + 1 \in top - (n + 1) .. top
         /\ i + 1 # top - (n + 1)
     BY <1>3, <3>1
   <4>2. h[i + 1] = g[i + 1] /\ h[i] = Passed(s, keep, g[i + 1], i) BY <3>1, <4>1
   <4> QED BY <4>1, <4>2
  <3>2. CASE i # top - (n + 1)
   <4>1. i \in top - n .. top BY <3>2
   <4>2. h[i] = g[i] /\ g[i] = Step(g, i) BY <2>1, <3>2, <4>1
   <4>3. CASE i = top BY <4>2, <4>3
   <4>4. CASE i # top
    <5>1. i + 1 \in top - (n + 1) .. top /\ i + 1 # top - (n + 1) BY <4>1, <4>4
    <5>2. h[i + 1] = g[i + 1] BY <5>1
    <5> QED BY <4>2, <4>4, <5>2
   <4> QED BY <4>3, <4>4
  <3> QED BY <3>1, <3>2
 <2>3. h = [i \in top - (n + 1) .. top |-> Step(h, i)]
  <3> DEFINE e == [i \in top - (n + 1) .. top |-> Step(h, i)]
  <3>1. \A i \in top - (n + 1) .. top : h[i] = e[i] BY <2>2
  <3>2. DOMAIN h = top - (n + 1) .. top /\ DOMAIN e = top - (n + 1) .. top OBVIOUS
  <3>3. h = [i \in DOMAIN h |-> h[i]] /\ e = [i \in DOMAIN e |-> e[i]] OBVIOUS
  <3> HIDE DEF h, e
  <3> QED BY <3>1, <3>2, <3>3 DEF e
 <2> HIDE DEF h
 <2> QED BY <2>3
<1>4. Reaches(top)
 <2> DEFINE B == {n \in 0 .. top : ~Reaches(n)}
 <2> HIDE DEF Reaches
 <2>1. SUFFICES ASSUME B # {} PROVE FALSE OBVIOUS
 <2>2. PICK n \in B : \A m \in B : n <= m
  <3>1. B \subseteq Nat OBVIOUS
  <3> HIDE DEF B
  <3> QED BY <2>1, <3>1, Least
 <2>3. n # 0 /\ n \in Nat /\ n <= top BY <1>2, <2>2
 <2>4. n - 1 \in Nat /\ n - 1 < top /\ n - 1 \in 0 .. top /\ n - 1 < n BY <2>3
 <2>5. Reaches(n - 1)
  <3>1. n - 1 \notin B BY <2>2, <2>4
  <3> QED BY <2>4, <3>1
 <2>6. Reaches((n - 1) + 1) BY <1>3, <2>4, <2>5
 <2>7. (n - 1) + 1 = n BY <2>3
 <2> QED BY <2>2, <2>6, <2>7
<1>5. \E g : g = [i \in 0 .. top |-> Step(g, i)]
 <2>1. top - top = 0 OBVIOUS
 <2> QED BY <1>4, <2>1
<1>6. A = [i \in 0 .. top |-> Step(A, i)] BY <1>1, <1>5
<1> HIDE DEF A
<1>7. A[top] = pieces BY <1>6
<1>8. ASSUME NEW i \in 0 .. top - 1 PROVE A[i] = Passed(s, keep, A[i + 1], i)
 <2>1. i \in 0 .. top /\ i # top OBVIOUS
 <2> QED BY <1>6, <2>1
<1> QED BY <1>7, <1>8 DEF A

\* All that arrives are pieces.
LEMMA ArrivingTypes ==
  ASSUME NEW s \in Seq(WriterSet), NEW pieces \in Seq(PieceSet), NEW top \in 0 .. Len(s), NEW keep
  PROVE  \A i \in 0 .. top : Arriving(s, pieces, top, keep)[i] \in Seq(PieceSet)
<1> DEFINE A == Arriving(s, pieces, top, keep)
           B == {n \in 0 .. top : A[top - n] \notin Seq(PieceSet)}
<1>1. /\ top \in Nat /\ A[top] = pieces
      /\ \A i \in 0 .. top - 1 : A[i] = Passed(s, keep, A[i + 1], i)
  BY ArrivingFacts
<1> HIDE DEF A
<1>2. B = {}
 <2> SUFFICES ASSUME B # {} PROVE FALSE OBVIOUS
 <2>1. PICK n \in B : \A m \in B : n <= m
  <3>1. B \subseteq Nat BY <1>1
  <3> HIDE DEF B
  <3> QED BY <3>1, Least
 <2>2. n \in 0 .. top /\ n # 0 /\ A[top - n] \notin Seq(PieceSet) BY <1>1, <2>1
 <2> DEFINE i == top - n
 <2>3. /\ i \in 0 .. top - 1 /\ i + 1 = top - (n - 1) /\ n - 1 \in 0 .. top /\ n - 1 < n
       /\ i + 1 \in 1 .. Len(s)
   BY <1>1, <2>2
 <2>4. A[i + 1] \in Seq(PieceSet)
  <3>1. n - 1 \notin B
   <4>1. n \in Nat /\ n - 1 \in Nat /\ ~(n <= n - 1) BY <2>2, <2>3
   <4> HIDE DEF B
   <4> QED BY <2>1, <4>1
  <3> QED BY <2>3, <3>1
 <2>5. A[i] = Passed(s, keep, A[i + 1], i) BY <1>1, <2>3
 <2>6. s[i + 1] \in WriterSet BY <2>3
 <2> DEFINE w == s[i + 1]
            ps == A[i + 1]
 <2> HIDE DEF B, i
 <2>7. w.held \in Seq(PieceSet) /\ Marked(w, ps) \in Seq(PieceSet)
   BY <2>4, <2>6, MarkedFacts DEF WriterSet
 <2> HIDE DEF w, ps
 <2>8. Emitted(w, Marked(w, ps)) \in Seq(PieceSet) BY <2>7, ConcatProperties DEF Emitted
 <2>9. A[i] \in Seq(PieceSet)
  <3>1. A[i] = <<>> \/ A[i] = Emitted(w, Marked(w, ps)) BY <2>5 DEF Passed, w, ps
  <3> QED BY <2>8, <3>1, EmptySeq
 <2> QED BY <2>2, <2>9 DEF i
<1>3. ASSUME NEW i \in 0 .. top PROVE A[i] \in Seq(PieceSet)
 <2>1. top - i \in 0 .. top /\ top - (top - i) = i BY <1>1
 <2> QED BY <1>2, <2>1
<1> QED BY <1>3 DEF A

-----------------------------------------------------------------------------
(* Hashes: the pieces that have gone through a writer, counted. *)

\* How many pieces have gone through a writer is a number.
LEMMA GoneType ==
  ASSUME NEW ps, NEW id, NEW k \in Nat
  PROVE  /\ IsFiniteSet({j \in 1 .. k : id \in ps[j].through})
         /\ Gone(ps, id, k) \in Nat
<1>1. IsFiniteSet(1 .. k) BY FS_Interval
<1>2. {j \in 1 .. k : id \in ps[j].through} \in SUBSET (1 .. k) OBVIOUS
<1>3. IsFiniteSet({j \in 1 .. k : id \in ps[j].through}) BY <1>1, <1>2, FS_Subset
<1> QED BY <1>3, FS_CardinalityType DEF Gone

\* What comes later does not change the count.
LEMMA GonePrefix ==
  ASSUME NEW ps, NEW qs, NEW id, NEW k \in Nat, \A j \in 1 .. k : ps[j].through = qs[j].through
  PROVE  Gone(ps, id, k) = Gone(qs, id, k)
<1>1. {j \in 1 .. k : id \in ps[j].through} = {j \in 1 .. k : id \in qs[j].through} OBVIOUS
<1> QED BY <1>1 DEF Gone

\* As many have gone through up to a place as up to a later one, or fewer.
LEMMA GoneGrows ==
  ASSUME NEW ps, NEW id, NEW n \in Nat, NEW k \in 0 .. n
  PROVE  /\ Gone(ps, id, k) <= Gone(ps, id, n)
         /\ k > 0 /\ id \in ps[k].through => Gone(ps, id, k) >= 1
<1>1. k \in Nat OBVIOUS
<1> DEFINE S == {j \in 1 .. k : id \in ps[j].through}
           T == {j \in 1 .. n : id \in ps[j].through}
<1>2. IsFiniteSet(S) /\ IsFiniteSet(T) /\ S \subseteq T
 <2>1. IsFiniteSet(S) BY <1>1, GoneType
 <2>2. IsFiniteSet(T) BY GoneType
 <2>3. \A j \in 1 .. k : j \in 1 .. n OBVIOUS
 <2> QED BY <2>1, <2>2, <2>3
<1>3. k > 0 /\ id \in ps[k].through => k \in S BY <1>1
<1> HIDE DEF S, T
<1>4. Cardinality(S) <= Cardinality(T) /\ Cardinality(S) \in Nat /\ (Cardinality(S) = 0 <=> S = {})
  BY <1>2, FS_Subset, FS_CardinalityType, FS_EmptySet
<1>5. Gone(ps, id, k) = Cardinality(S) /\ Gone(ps, id, n) = Cardinality(T) BY DEF Gone, S, T
<1>6. k > 0 /\ id \in ps[k].through => S # {} BY <1>3
<1> QED BY <1>4, <1>5, <1>6

\* Pieces that all go through the writer.
LEMMA GoneAll ==
  ASSUME NEW ps, NEW id, NEW n \in Nat, NEW k \in Nat,
         \A j \in n + 1 .. n + k : id \in ps[j].through
  PROVE  Gone(ps, id, n + k) = Gone(ps, id, n) + k
<1> DEFINE S == {j \in 1 .. n : id \in ps[j].through}
           T == n + 1 .. n + k
           U == {j \in 1 .. n + k : id \in ps[j].through}
<1>1. IsFiniteSet(S) BY GoneType
<1>2. IsFiniteSet(T) /\ Cardinality(T) = k
 <2>1. n + 1 \in Int /\ n + k \in Int OBVIOUS
 <2>2. IsFiniteSet(T) /\ Cardinality(T) = IF n + 1 > n + k THEN 0 ELSE (n + k) - (n + 1) + 1
   BY <2>1, FS_Interval
 <2> HIDE DEF T
 <2> QED BY <2>2
<1>3. U = S \cup T
 <2>1. ASSUME NEW j \in 1 .. n + k PROVE j \in 1 .. n \/ j \in n + 1 .. n + k OBVIOUS
 <2>2. \A j \in 1 .. n : j \in 1 .. n + k OBVIOUS
 <2>3. \A j \in n + 1 .. n + k : j \in 1 .. n + k OBVIOUS
 <2> QED BY <2>1, <2>2, <2>3
<1>4. S \cap T = {}
 <2>1. ASSUME NEW j \in 1 .. n, j \in n + 1 .. n + k PROVE FALSE BY <2>1
 <2> QED BY <2>1
<1>5. Gone(ps, id, n + k) = Cardinality(U) /\ Gone(ps, id, n) = Cardinality(S) BY DEF Gone
<1> HIDE DEF S, T, U
<1>6. Cardinality(S \cup T) = Cardinality(S) + Cardinality(T) - Cardinality(S \cap T)
  BY <1>1, <1>2, FS_Union
<1>7. Cardinality({}) = 0 /\ Cardinality(S) \in Nat BY <1>1, FS_EmptySet, FS_CardinalityType
<1>8. Cardinality(S \cap T) = 0 /\ Cardinality(T) = k BY <1>2, <1>4, <1>7
<1>9. Cardinality(U) = Cardinality(S) + k
 <2>1. Cardinality(U) = Cardinality(S \cup T) BY <1>3
 <2> QED BY <1>6, <1>7, <1>8, <2>1
<1> QED BY <1>5, <1>9

\* What is first put into a hash.
LEMMA BeforeFacts ==
  ASSUME NEW id \in WriterIds
  PROVE  Len(Before(id)) \in Nat /\ DOMAIN Before(id) = 1 .. Len(Before(id))
<1>1. CASE id[1] = "stream_encrypt" BY <1>1 DEF Before
<1>2. CASE id[1] # "stream_encrypt" BY <1>2 DEF Before
<1> QED BY <1>1, <1>2

\* Nothing goes through a writer before it is there.
LEMMA MadeOverNone ==
  ASSUME NEW ps \in Seq(PieceSet), NEW id \in WriterIds, NEW seen,
         \A k \in 1 .. Len(ps) : id \notin ps[k].through, seen = Before(id)
  PROVE  MadeOver(ps, seen, id)
<1>1. Gone(ps, id, Len(ps)) = 0
 <2>1. {j \in 1 .. Len(ps) : id \in ps[j].through} = {} OBVIOUS
 <2> QED BY <2>1, FS_EmptySet DEF Gone
<1>2. Len(Before(id)) \in Nat BY BeforeFacts
<1>3. DOMAIN ps = 1 .. Len(ps) OBVIOUS
<1> QED BY <1>1, <1>2, <1>3 DEF MadeOver

\* A hash follows the pieces that go through its writer.
LEMMA MadeOverMore ==
  ASSUME NEW ps \in Seq(PieceSet), NEW xs \in Seq(PieceSet), NEW id \in WriterIds,
         NEW seen \in Seq(NameSet), NEW names \in Seq(NameSet), MadeOver(ps, seen, id),
         Len(names) = Len(xs),
         \A k \in 1 .. Len(xs) : id \in xs[k].through /\ names[k] = Name(xs[k])
  PROVE  MadeOver(ps \o xs, seen \o names, id)
<1> DEFINE n == Len(ps)
           m == Len(xs)
           b == Len(Before(id))
           g == Gone(ps, id, n)
           qs == ps \o xs
           more == seen \o names
<1>1. /\ n \in Nat /\ m \in Nat /\ b \in Nat /\ Len(seen) \in Nat
      /\ DOMAIN ps = 1 .. n /\ DOMAIN Before(id) = 1 .. b
  BY BeforeFacts
<1>2. /\ Len(qs) = n + m /\ DOMAIN qs = 1 .. n + m
      /\ \A i \in 1 .. n + m : qs[i] = IF i <= n THEN ps[i] ELSE xs[i - n]
  BY ConcatProperties, LenProperties
<1>3. /\ Len(more) = Len(seen) + m
      /\ \A i \in 1 .. Len(seen) + m : more[i] = IF i <= Len(seen) THEN seen[i] ELSE names[i - Len(seen)]
 <2>1. /\ Len(more) = Len(seen) + Len(names)
       /\ \A i \in 1 .. Len(seen) + Len(names) :
            more[i] = IF i <= Len(seen) THEN seen[i] ELSE names[i - Len(seen)]
   BY ConcatProperties
 <2>2. Len(names) = m OBVIOUS
 <2> HIDE DEF m, more
 <2> QED BY <2>1, <2>2
<1>4. /\ Len(seen) = b + g /\ (\A k \in 1 .. b : seen[k] = Before(id)[k])
      /\ \A k \in 1 .. n : id \in ps[k].through => seen[b + Gone(ps, id, k)] = Name(ps[k])
  BY <1>1 DEF MadeOver
<1>5. g \in Nat BY <1>1, GoneType
<1> HIDE DEF n, m, b, g, qs, more
<1>6. \A k \in 0 .. n : Gone(qs, id, k) = Gone(ps, id, k)
 <2>1. ASSUME NEW k \in 0 .. n PROVE Gone(qs, id, k) = Gone(ps, id, k)
  <3>1. k \in Nat /\ \A j \in 1 .. k : j \in 1 .. n + m /\ j <= n BY <1>1
  <3>2. \A j \in 1 .. k : qs[j].through = ps[j].through BY <1>2, <3>1
  <3> QED BY <3>1, <3>2, GonePrefix
 <2> QED BY <2>1
<1>7. \A k \in 0 .. m : Gone(qs, id, n + k) = g + k
 <2>1. ASSUME NEW k \in 0 .. m PROVE Gone(qs, id, n + k) = g + k
  <3>1. ASSUME NEW j \in n + 1 .. n + k PROVE id \in qs[j].through
   <4>1. j \in 1 .. n + m /\ ~(j <= n) /\ j - n \in 1 .. m BY <1>1
   <4>2. qs[j] = xs[j - n] BY <1>2, <4>1
   <4> QED BY <4>1, <4>2 DEF m
  <3>2. k \in Nat BY <1>1
  <3>3. Gone(qs, id, n + k) = Gone(qs, id, n) + k BY <1>1, <3>1, <3>2, GoneAll
  <3> QED BY <1>1, <1>6, <3>3 DEF g
 <2> QED BY <2>1
<1>8. Len(more) = b + Gone(qs, id, n + m) BY <1>1, <1>3, <1>4, <1>5, <1>7
<1>9. ASSUME NEW k \in 1 .. b PROVE more[k] = Before(id)[k]
 <2>1. k \in 1 .. Len(seen) + m /\ k <= Len(seen) BY <1>1, <1>4, <1>5
 <2> QED BY <1>3, <1>4, <2>1
<1>10. ASSUME NEW k \in 1 .. n + m, id \in qs[k].through
       PROVE  more[b + Gone(qs, id, k)] = Name(qs[k])
 <2>1. CASE k <= n
  <3>1. k \in 1 .. n /\ k \in 0 .. n /\ k > 0 /\ k \in Nat BY <1>1, <2>1
  <3>2. qs[k] = ps[k] /\ Gone(qs, id, k) = Gone(ps, id, k) BY <1>2, <1>6, <2>1, <3>1
  <3> DEFINE q == Gone(ps, id, k)
  <3>3. q \in Nat /\ q >= 1 /\ q <= g BY <1>1, <1>10, <3>1, <3>2, GoneType, GoneGrows DEF g
  <3>4. seen[b + q] = Name(ps[k]) BY <1>4, <1>10, <3>1, <3>2
  <3> HIDE DEF q
  <3>5. b + q \in 1 .. Len(seen) + m /\ b + q <= Len(seen) BY <1>1, <1>4, <1>5, <3>3
  <3>6. more[b + q] = seen[b + q] BY <1>3, <3>5
  <3> QED BY <3>2, <3>4, <3>6 DEF q
 <2>2. CASE ~(k <= n)
  <3> DEFINE j == k - n
  <3>1. j \in 1 .. m /\ j \in 0 .. m /\ k = n + j BY <1>1, <2>2
  <3>2. qs[k] = xs[j] /\ Gone(qs, id, k) = g + j BY <1>2, <1>7, <2>2, <3>1
  <3> HIDE DEF j
  <3>3. b + (g + j) \in 1 .. Len(seen) + m /\ ~(b + (g + j) <= Len(seen))
        /\ b + (g + j) - Len(seen) = j
    BY <1>1, <1>4, <1>5, <3>1
  <3>4. more[b + (g + j)] = names[j]
   <4>1. /\ Len(seen) + j \in 1 .. Len(seen) + m /\ ~(Len(seen) + j <= Len(seen))
         /\ Len(seen) + j - Len(seen) = j /\ b + (g + j) = Len(seen) + j
     BY <1>1, <1>4, <1>5, <3>1
   <4>2. more[Len(seen) + j] = names[Len(seen) + j - Len(seen)] BY <1>1, <1>3, <3>1, <4>1
   <4>3. Len(seen) + j - Len(seen) = j BY <4>1
   <4> QED BY <1>1, <1>5, <3>1, <4>1, <4>2, <4>3
  <3>5. names[j] = Name(xs[j]) BY <3>1 DEF m
  <3> QED BY <3>2, <3>4, <3>5
 <2> QED BY <2>1, <2>2
<1>11. MadeOver(qs, more, id) BY <1>1, <1>2, <1>8, <1>9, <1>10 DEF MadeOver, b
<1> QED BY <1>11 DEF qs, more

\* And stays as it is when others are written.
LEMMA MadeOverOther ==
  ASSUME NEW ps \in Seq(PieceSet), NEW x \in PieceSet, NEW id \in WriterIds,
         NEW seen, MadeOver(ps, seen, id), id \notin x.through
  PROVE  MadeOver(ps \o <<x>>, seen, id)
<1> DEFINE n == Len(ps)
           b == Len(Before(id))
           qs == ps \o <<x>>
<1>1. /\ n \in Nat /\ b \in Nat /\ DOMAIN ps = 1 .. n /\ DOMAIN Before(id) = 1 .. b BY BeforeFacts
<1>2. /\ Len(qs) = n + 1 /\ DOMAIN qs = 1 .. n + 1 /\ qs[n + 1] = x
      /\ \A i \in 1 .. n : qs[i] = ps[i]
 <2>1. <<x>> \in Seq(PieceSet) /\ Len(<<x>>) = 1 /\ <<x>>[1] = x OBVIOUS
 <2>2. /\ qs \in Seq(PieceSet) /\ Len(qs) = n + 1
       /\ \A i \in 1 .. n + 1 : qs[i] = IF i <= n THEN ps[i] ELSE <<x>>[i - n]
   BY <2>1, ConcatProperties
 <2> HIDE DEF qs, n
 <2> QED BY <1>1, <2>1, <2>2, LenProperties
<1>3. /\ Len(seen) = b + Gone(ps, id, n) /\ (\A k \in 1 .. b : seen[k] = Before(id)[k])
      /\ \A k \in 1 .. n : id \in ps[k].through => seen[b + Gone(ps, id, k)] = Name(ps[k])
  BY <1>1 DEF MadeOver
<1> HIDE DEF n, b, qs
<1>4. \A k \in 0 .. n : Gone(qs, id, k) = Gone(ps, id, k)
 <2>1. ASSUME NEW k \in 0 .. n PROVE Gone(qs, id, k) = Gone(ps, id, k)
  <3>1. k \in Nat /\ \A j \in 1 .. k : j \in 1 .. n BY <1>1
  <3>2. \A j \in 1 .. k : qs[j].through = ps[j].through BY <1>2, <3>1
  <3> QED BY <3>1, <3>2, GonePrefix
 <2> QED BY <2>1
<1>5. Gone(qs, id, n + 1) = Gone(ps, id, n)
 <2>1. {j \in 1 .. n + 1 : id \in qs[j].through} = {j \in 1 .. n : id \in qs[j].through}
  <3>1. \A j \in 1 .. n + 1 : j \in 1 .. n \/ j = n + 1 BY <1>1
  <3>2. \A j \in 1 .. n : j \in 1 .. n + 1 BY <1>1
  <3> QED BY <1>2, <3>1, <3>2
 <2>2. Gone(qs, id, n + 1) = Gone(qs, id, n) BY <2>1 DEF Gone
 <2> QED BY <1>1, <1>4, <2>2
<1>6. ASSUME NEW k \in 1 .. n + 1, id \in qs[k].through
      PROVE  seen[b + Gone(qs, id, k)] = Name(qs[k])
 <2>1. k \in 1 .. n /\ k \in 0 .. n BY <1>1, <1>2, <1>6
 <2> QED BY <1>2, <1>3, <1>4, <1>6, <2>1
<1>7. MadeOver(qs, seen, id) BY <1>1, <1>2, <1>3, <1>5, <1>6 DEF MadeOver, b
<1> QED BY <1>7 DEF qs

-----------------------------------------------------------------------------
(* One more piece, and more writers. *)

\* A run of pieces with one more at its end.
LEMMA OneMore ==
  ASSUME NEW ps \in Seq(PieceSet), NEW x \in PieceSet
  PROVE  /\ Len(ps) \in Nat /\ DOMAIN ps = 1 .. Len(ps)
         /\ ps \o <<x>> \in Seq(PieceSet) /\ Len(ps \o <<x>>) = Len(ps) + 1
         /\ DOMAIN (ps \o <<x>>) = 1 .. Len(ps) + 1
         /\ (ps \o <<x>>)[Len(ps) + 1] = x
         /\ \A i \in 1 .. Len(ps) : (ps \o <<x>>)[i] = ps[i]
<1> DEFINE n == Len(ps)
           qs == ps \o <<x>>
<1>1. n \in Nat /\ DOMAIN ps = 1 .. n OBVIOUS
<1>2. <<x>> \in Seq(PieceSet) /\ Len(<<x>>) = 1 /\ <<x>>[1] = x OBVIOUS
<1>3. /\ qs \in Seq(PieceSet) /\ Len(qs) = n + 1
      /\ \A i \in 1 .. n + 1 : qs[i] = IF i <= n THEN ps[i] ELSE <<x>>[i - n]
  BY <1>2, ConcatProperties
<1> HIDE DEF qs, n
<1>4. /\ DOMAIN qs = 1 .. n + 1 /\ qs[n + 1] = x /\ \A i \in 1 .. n : qs[i] = ps[i]
  BY <1>1, <1>2, <1>3, LenProperties
<1> QED BY <1>1, <1>3, <1>4 DEF n, qs

\* The numbers of what is in a piece are numbers.
LEMMA NumbersOf ==
  ASSUME NEW ps \in Seq(PieceSet), NEW k \in DOMAIN ps
  PROVE  /\ ps[k].by \in WriterIds \cup {<<"app", 0>>} /\ ps[k].through \in SUBSET WriterIds
         /\ ps[k].by[2] \in Nat /\ \A id \in ps[k].through : id[2] \in Nat
<1>1. ps[k] \in PieceSet OBVIOUS
<1>2. ps[k].by \in WriterIds \cup {<<"app", 0>>} /\ ps[k].through \in SUBSET WriterIds
 <2> DEFINE p == ps[k]
 <2>1. p \in PieceSet BY <1>1
 <2> HIDE DEF p
 <2>2. p.by \in WriterIds \cup {<<"app", 0>>} /\ p.through \in SUBSET WriterIds
   BY <2>1 DEF PieceSet
 <2> QED BY <2>2 DEF p
<1> QED BY <1>2, IdFacts

\* New writers change nothing of what has been written.
LEMMA GrowGood ==
  ASSUME NEW ps \in Seq(PieceSet), NEW m \in Nat, NEW m2 \in Nat, m <= m2,
         NEW L, NEW K, NEW T, NEW S, NEW S2, NEW N,
         Good(ps, m, L, K, T, S), \A id \in N : id[2] \in Nat /\ id[2] > m, S \subseteq S2
  PROVE  Good(ps, m2, L \cup N, K \cup N, T \cup N, S2)
<1>1. ASSUME NEW k \in DOMAIN ps
      PROVE  ps[k].by[2] <= m2 /\ ps[k].by \notin N /\ \A id \in ps[k].through : id[2] <= m2
 <2>1. /\ ps[k].by[2] <= m /\ (\A id \in ps[k].through : id[2] <= m)
       /\ ps[k].by[2] \in Nat /\ \A id \in ps[k].through : id[2] \in Nat
   BY NumbersOf DEF Good, Old
 <2>2. ps[k].by[2] <= m2 /\ \A id \in ps[k].through : id[2] <= m2 BY <2>1
 <2>3. ps[k].by \notin N BY <2>1
 <2> QED BY <2>2, <2>3
<1>2. Old(ps, m2) BY <1>1 DEF Old
<1>3. NotEnded(ps, L \cup N) /\ EndKinds(ps, K \cup N) BY <1>1 DEF Good, NotEnded, EndKinds
<1>4. TextOpen(ps, T \cup N) BY <1>1 DEF Good, TextOpen
<1>5. WillEnd(ps, L \cup N) BY DEF Good, WillEnd
<1>6. WillSign(ps, S2) BY DEF Good, WillSign
<1> QED BY <1>2, <1>3, <1>4, <1>5, <1>6 DEF Good

\* Writers that are taken away or are done have ended, if they are of a kind that
\* ends; those that come back are not.
LEMMA ShrinkGood ==
  ASSUME NEW ps \in Seq(PieceSet), NEW m \in Nat, NEW L, NEW K, NEW T, NEW S,
         NEW L2, NEW K2, NEW T2, NEW S2, Good(ps, m, L, K, T, S),
         \A id \in L2 : id \in L \/ (id \in K /\ id[1] \notin Finalised \cup {"sign"}),
         \A id \in L : id[1] \in Finalised => id \in L2,
         K2 \subseteq K, T2 \subseteq T, S \subseteq S2
  PROVE  Good(ps, m, L2, K2, T2, S2)
<1>1. NotEnded(ps, L2) BY DEF Good, NotEnded, EndKinds, Closing
<1>2. EndKinds(ps, K2) BY DEF Good, EndKinds
<1>3. TextOpen(ps, T2) BY DEF Good, TextOpen
<1>4. WillEnd(ps, L2) BY DEF Good, WillEnd
<1>5. WillSign(ps, S2) BY DEF Good, WillSign
<1> QED BY <1>1, <1>2, <1>3, <1>4, <1>5 DEF Good

\* A piece that ends nothing goes through writers that have not ended, those among
\* them whose header is out.
LEMMA AppendGood ==
  ASSUME NEW ps \in Seq(PieceSet), NEW m \in Nat, NEW L, NEW K, NEW T, NEW S,
         NEW S2, NEW x \in PieceSet, Good(ps, m, L, K, T, S),
         x.what # "end", x.by[2] <= m, \A id \in x.through : id \in L /\ id[2] <= m,
         \A h \in DOMAIN ps :
           ps[h].what = "header" /\ (ps[h].by \in L \/ (ps[h].by \in T /\ ps[h].by[1] = "dash"))
             => ps[h].by \in x.through,
         x.what = "header" =>
           /\ x.by \in L /\ x.by[1] \in Finalised \cup {"dash"} /\ x.by \notin x.through
           /\ \A k \in DOMAIN ps : x.by \notin ps[k].through,
         x.what = "signature" =>
           /\ x.by \notin L /\ x.by[1] = "sign" /\ x.by \in WriterIds
           /\ MadeOver(ps, x.seen, x.by),
         x.what = "secret" <=> \E id \in x.through : id[1] = "encrypt",
         x.by[1] \in Finalised => x.by \in L,
         \A id \in x.through \cup {x.by} :
           id[1] = "sign" => id \in S2 \/ (x.what = "signature" /\ id = x.by),
         \A id \in S : id \in S2 \/ (x.what = "signature" /\ id = x.by)
  PROVE  Good(ps \o <<x>>, m, L, K, T, S2)
<1> DEFINE n == Len(ps)
           qs == ps \o <<x>>
<1>1. /\ n \in Nat /\ DOMAIN ps = 1 .. n /\ qs \in Seq(PieceSet) /\ Len(qs) = n + 1
      /\ DOMAIN qs = 1 .. n + 1 /\ qs[n + 1] = x /\ \A i \in 1 .. n : qs[i] = ps[i]
  BY OneMore
<1> HIDE DEF n, qs
<1>2. /\ 1 .. n \subseteq 1 .. n + 1 /\ n + 1 \in 1 .. n + 1
      /\ \A k \in 1 .. n + 1 : k \in 1 .. n \/ k = n + 1
      /\ \A k \in 1 .. n : k < n + 1 /\ ~(n + 1 <= k)
  BY <1>1
<1>3. /\ Framed(ps) /\ Covering(ps) /\ SecretsOnly(ps) /\ Old(ps, m) /\ NotEnded(ps, L)
      /\ EndKinds(ps, K) /\ EndOnce(ps) /\ Shut(ps) /\ Headed(ps) /\ TextOpen(ps, T)
      /\ WillEnd(ps, L) /\ WillSign(ps, S)
  BY DEF Good
<1>4. \A id : Ends(qs, id) = Ends(ps, id)
 <2>1. ASSUME NEW id PROVE Ends(qs, id) = Ends(ps, id)
  <3>1. \A i \in 1 .. n + 1 : qs[i].what = "end" => i \in 1 .. n BY <1>1, <1>2
  <3> QED BY <1>1, <1>2, <3>1 DEF Ends
 <2> QED BY <2>1
<1>5. \A id \in L : Ends(ps, id) = {} BY <1>3 DEF NotEnded, Ends, Closing
<1>6. \A k \in 1 .. n : ps[k].what = "header" /\ ps[k].by[1] # "dash" /\ Ends(ps, ps[k].by) = {}
        => ps[k].by \in x.through
 <2>1. \A k \in 1 .. n : ps[k].what = "header" /\ ps[k].by[1] # "dash" => ps[k].by[1] \in Finalised
   BY <1>1, <1>3 DEF Headed
 <2>2. \A k \in 1 .. n : ps[k].by[1] \in Finalised /\ Ends(ps, ps[k].by) = {} => ps[k].by \in L
   BY <1>1, <1>3 DEF WillEnd
 <2> QED BY <1>1, <2>1, <2>2
<1>7. Framed(qs)
 <2>1. ASSUME NEW h \in 1 .. n + 1, NEW i \in 1 .. n + 1, qs[h].what = "header"
       PROVE  /\ qs[h].by \in qs[i].through => Between(qs, i, h, qs[h].by)
              /\ Between(qs, i, h, qs[h].by)
                   /\ (qs[h].by[1] # "dash" \/ Ends(qs, qs[h].by) # {}) =>
                   qs[h].by \in qs[i].through
  <3>1. CASE h \in 1 .. n /\ i \in 1 .. n
   <4>1. qs[h] = ps[h] /\ qs[i] = ps[i] BY <1>1, <3>1
   <4>2. Between(qs, i, h, ps[h].by) <=> Between(ps, i, h, ps[h].by) BY <1>4 DEF Between
   <4>3. /\ ps[h].by \in ps[i].through => Between(ps, i, h, ps[h].by)
         /\ Between(ps, i, h, ps[h].by)
              /\ (ps[h].by[1] # "dash" \/ Ends(ps, ps[h].by) # {}) =>
              ps[h].by \in ps[i].through
     BY <1>1, <1>3, <2>1, <3>1, <4>1 DEF Framed
   <4>4. Ends(qs, ps[h].by) = Ends(ps, ps[h].by) BY <1>4
   <4> QED BY <4>1, <4>2, <4>3, <4>4
  <3>2. CASE h \in 1 .. n /\ i = n + 1
   <4>1. qs[h] = ps[h] /\ qs[i] = x /\ i > h BY <1>1, <1>2, <3>2
   <4>2. ps[h].by \in x.through => Between(qs, i, h, ps[h].by) BY <1>4, <1>5, <4>1 DEF Between
   <4>3. ASSUME Between(qs, i, h, ps[h].by) PROVE Ends(ps, ps[h].by) = {}
    <5>1. \A e \in Ends(ps, ps[h].by) : n + 1 < e /\ e \in 1 .. n
      BY <1>1, <1>4, <3>2, <4>3 DEF Between, Ends
    <5> QED BY <1>1, <5>1
   <4> QED BY <1>4, <1>6, <2>1, <3>2, <4>1, <4>2, <4>3
  <3>3. CASE h = n + 1
   <4>1. qs[h] = x /\ ~(i > h) BY <1>1, <1>2, <3>3
   <4>2. x.by \notin qs[i].through BY <1>1, <1>2, <2>1, <4>1
   <4> QED BY <4>1, <4>2 DEF Between
  <3> QED BY <1>2, <3>1, <3>2, <3>3
 <2> QED BY <1>1, <2>1 DEF Framed
<1>8. Covering(qs)
 <2>1. ASSUME NEW k \in 1 .. n + 1, Closing(qs[k]), qs[k].by[1] \in Hashing
       PROVE  MadeOver(qs, qs[k].seen, qs[k].by)
  <3>1. CASE k \in 1 .. n
   <4>1. qs[k] = ps[k] /\ MadeOver(ps, ps[k].seen, ps[k].by) /\ ps[k].by \notin x.through
     BY <1>1, <1>3, <2>1, <3>1 DEF Covering, NotEnded, Closing
   <4>2. ps[k].by \in WriterIds
    <5>1. ps[k].by \in WriterIds \cup {<<"app", 0>>} BY <1>1, <3>1, NumbersOf
    <5> QED BY <2>1, <4>1, <5>1 DEF Hashing
   <4> QED BY <4>1, <4>2, MadeOverOther DEF qs
  <3>2. CASE k = n + 1
   <4>1. qs[k] = x /\ x.what = "signature" BY <1>1, <2>1, <3>2 DEF Closing
   <4>2. x.by \notin x.through /\ x.by \in WriterIds /\ MadeOver(ps, x.seen, x.by) BY <4>1
   <4> QED BY <4>1, <4>2, MadeOverOther DEF qs
  <3> QED BY <1>2, <3>1, <3>2
 <2> QED BY <1>1, <2>1 DEF Covering, Closing
<1>9. SecretsOnly(qs) BY <1>1, <1>2, <1>3 DEF SecretsOnly
<1>10. Old(qs, m) BY <1>1, <1>2, <1>3 DEF Old
<1>11. NotEnded(qs, L) BY <1>1, <1>2, <1>3 DEF NotEnded, Closing
<1>12. EndKinds(qs, K) BY <1>1, <1>2, <1>3 DEF EndKinds
<1>13. EndOnce(qs) BY <1>1, <1>2, <1>3 DEF EndOnce
<1>14. Shut(qs)
 <2>1. ASSUME NEW j \in 1 .. n + 1, NEW k \in 1 .. n + 1, j <= k, Closing(qs[j])
       PROVE  qs[j].by \notin qs[k].through
  <3>1. CASE j \in 1 .. n /\ k \in 1 .. n BY <1>1, <1>3, <2>1, <3>1 DEF Shut
  <3>2. CASE j \in 1 .. n /\ k = n + 1 BY <1>1, <1>3, <2>1, <3>2 DEF NotEnded
  <3>3. CASE j = n + 1
   <4>1. k = n + 1 BY <1>2, <2>1, <3>3
   <4> QED BY <1>1, <2>1, <3>3, <4>1 DEF Closing
  <3> QED BY <1>2, <3>1, <3>2, <3>3
 <2> QED BY <1>1, <2>1 DEF Shut
<1>15. Headed(qs) BY <1>1, <1>2, <1>3 DEF Headed
<1>16. TextOpen(qs, T)
 <2>1. ASSUME NEW h \in 1 .. n + 1, NEW k \in 1 .. n + 1, qs[h].what = "header",
              qs[h].by \in T, qs[h].by[1] = "dash", k > h
       PROVE  qs[h].by \in qs[k].through
  <3>1. h \in 1 .. n BY <1>1, <1>2, <2>1
  <3>2. CASE k \in 1 .. n BY <1>1, <1>3, <2>1, <3>1, <3>2 DEF TextOpen
  <3>3. CASE k = n + 1 BY <1>1, <2>1, <3>1, <3>3
  <3> QED BY <1>2, <3>2, <3>3
 <2> QED BY <1>1, <2>1 DEF TextOpen
<1>17. WillEnd(qs, L)
 <2>1. ASSUME NEW k \in 1 .. n + 1, NEW id \in qs[k].through \cup {qs[k].by}, id[1] \in Finalised
       PROVE  id \in L \/ Ends(qs, id) # {}
  <3>1. CASE k \in 1 .. n BY <1>1, <1>3, <1>4, <2>1, <3>1 DEF WillEnd
  <3>2. CASE k = n + 1 BY <1>1, <2>1, <3>2
  <3> QED BY <1>2, <3>1, <3>2
 <2> QED BY <1>1, <2>1 DEF WillEnd
<1>18. WillSign(qs, S2)
 <2>1. \A id : Signs(ps, id) => Signs(qs, id) BY <1>1, <1>2 DEF Signs
 <2>2. x.what = "signature" => Signs(qs, x.by) BY <1>1, <1>2 DEF Signs
 <2>3. ASSUME NEW k \in 1 .. n + 1, NEW id \in qs[k].through \cup {qs[k].by}, id[1] = "sign"
       PROVE  id \in S2 \/ Signs(qs, id)
  <3>1. CASE k \in 1 .. n
   <4>1. id \in S \/ Signs(ps, id) BY <1>1, <1>3, <2>3, <3>1 DEF WillSign
   <4> QED BY <2>1, <2>2, <4>1
  <3>2. CASE k = n + 1
   <4>1. id \in x.through \cup {x.by} BY <1>1, <2>3, <3>2
   <4> QED BY <2>2, <2>3, <4>1
  <3> QED BY <1>2, <3>1, <3>2
 <2> QED BY <1>1, <2>3 DEF WillSign
<1>19. Good(qs, m, L, K, T, S2)
  BY <1>7, <1>8, <1>9, <1>10, <1>11, <1>12, <1>13, <1>14, <1>15, <1>16, <1>17, <1>18 DEF Good
<1> QED BY <1>19 DEF qs

\* A writer ends with a piece that goes through those below it, and nothing goes
\* through it any more.
LEMMA EndGood ==
  ASSUME NEW ps \in Seq(PieceSet), NEW m \in Nat, NEW L, NEW K, NEW T, NEW S,
         NEW L2, NEW K2, NEW T2, NEW x \in PieceSet, Good(ps, m, L, K, T, S),
         x.what = "end", x.by \in L, x.by[2] <= m, x.by \in WriterIds,
         x.by[1] = "dash" => x.by \in T,
         x.by[1] \in Hashing => MadeOver(ps, x.seen, x.by),
         x.by \notin x.through, \A id \in x.through : id \in L /\ id[2] <= m,
         \A id \in L : id \in x.through \/ id = x.by,
         \A id \in T : id \in x.through \/ id[1] # "dash" \/ id = x.by,
         \A id \in L2 : id \in L /\ id # x.by, \A id \in L : id \in L2 \/ id = x.by,
         K2 \subseteq K, T2 \subseteq T, x.by \in K2 => x.by[1] \in Finalised,
         x.by \in T2 => x.by[1] # "dash",
         \A id \in x.through : id[1] # "encrypt",
         \A id \in x.through \cup {x.by} : id[1] = "sign" => id \in S
  PROVE  Good(ps \o <<x>>, m, L2, K2, T2, S)
<1> DEFINE n == Len(ps)
           qs == ps \o <<x>>
           e == x.by
<1>1. /\ n \in Nat /\ DOMAIN ps = 1 .. n /\ qs \in Seq(PieceSet) /\ Len(qs) = n + 1
      /\ DOMAIN qs = 1 .. n + 1 /\ qs[n + 1] = x /\ \A i \in 1 .. n : qs[i] = ps[i]
  BY OneMore
<1> HIDE DEF n, qs
<1>2. /\ 1 .. n \subseteq 1 .. n + 1 /\ n + 1 \in 1 .. n + 1
      /\ \A k \in 1 .. n + 1 : k \in 1 .. n \/ k = n + 1
      /\ \A k \in 1 .. n : k < n + 1 /\ ~(n + 1 <= k)
  BY <1>1
<1>3. /\ Framed(ps) /\ Covering(ps) /\ SecretsOnly(ps) /\ Old(ps, m) /\ NotEnded(ps, L)
      /\ EndKinds(ps, K) /\ EndOnce(ps) /\ Shut(ps) /\ Headed(ps) /\ TextOpen(ps, T)
      /\ WillEnd(ps, L) /\ WillSign(ps, S)
  BY DEF Good
<1>4. /\ \A id : id # e => Ends(qs, id) = Ends(ps, id)
      /\ Ends(ps, e) = {} /\ Ends(qs, e) = {n + 1}
 <2>1. ASSUME NEW id, id # e PROVE Ends(qs, id) = Ends(ps, id)
  <3>1. \A i \in 1 .. n + 1 : qs[i].by = id => i \in 1 .. n BY <1>1, <1>2, <2>1
  <3> QED BY <1>1, <1>2, <3>1 DEF Ends
 <2>2. \A i \in 1 .. n : ~(ps[i].what = "end" /\ ps[i].by = e)
   BY <1>1, <1>3 DEF NotEnded, Closing
 <2>3. Ends(ps, e) = {} BY <1>1, <2>2 DEF Ends
 <2>4. Ends(qs, e) = {n + 1} BY <1>1, <1>2, <2>2 DEF Ends
 <2> QED BY <2>1, <2>3, <2>4
<1>5. \A id \in L : Ends(ps, id) = {} BY <1>3 DEF NotEnded, Ends, Closing
<1>6. \A k \in 1 .. n : ps[k].what = "header" /\ ps[k].by[1] # "dash" /\ Ends(ps, ps[k].by) = {}
        => ps[k].by \in L
 <2>1. \A k \in 1 .. n : ps[k].what = "header" /\ ps[k].by[1] # "dash" => ps[k].by[1] \in Finalised
   BY <1>1, <1>3 DEF Headed
 <2>2. \A k \in 1 .. n : ps[k].by[1] \in Finalised /\ Ends(ps, ps[k].by) = {} => ps[k].by \in L
   BY <1>1, <1>3 DEF WillEnd
 <2> QED BY <1>1, <2>1, <2>2
<1>7. Framed(qs)
 <2>1. ASSUME NEW h \in 1 .. n + 1, NEW i \in 1 .. n + 1, qs[h].what = "header"
       PROVE  /\ qs[h].by \in qs[i].through => Between(qs, i, h, qs[h].by)
              /\ Between(qs, i, h, qs[h].by)
                   /\ (qs[h].by[1] # "dash" \/ Ends(qs, qs[h].by) # {}) =>
                   qs[h].by \in qs[i].through
  <3>0. h \in 1 .. n /\ qs[h] = ps[h] BY <1>1, <1>2, <2>1
  <3>1. CASE i \in 1 .. n /\ ps[h].by # e
   <4>1. qs[i] = ps[i] BY <1>1, <3>1
   <4>2. Ends(qs, ps[h].by) = Ends(ps, ps[h].by) BY <1>4, <3>1
   <4>3. Between(qs, i, h, ps[h].by) <=> Between(ps, i, h, ps[h].by) BY <4>2 DEF Between
   <4> QED BY <1>1, <1>3, <2>1, <3>0, <3>1, <4>1, <4>2, <4>3 DEF Framed
  <3>2. CASE i \in 1 .. n /\ ps[h].by = e
   <4>1. qs[i] = ps[i] /\ i < n + 1 BY <1>1, <1>2, <3>2
   <4>2. Between(qs, i, h, e) <=> i > h BY <1>4, <4>1 DEF Between
   <4>3. Between(ps, i, h, e) <=> i > h BY <1>4 DEF Between
   <4>4. /\ e \in ps[i].through => Between(ps, i, h, e)
         /\ Between(ps, i, h, e) /\ e[1] # "dash" => e \in ps[i].through
     BY <1>1, <1>3, <2>1, <3>0, <3>2 DEF Framed
   <4>5. i > h /\ e[1] = "dash" => e \in ps[i].through
     BY <1>1, <1>3, <2>1, <3>0, <3>2 DEF TextOpen
   <4> QED BY <3>0, <3>2, <4>1, <4>2, <4>3, <4>4, <4>5
  <3>3. CASE i = n + 1
   <4>1. qs[i] = x /\ i > h BY <1>1, <1>2, <3>0, <3>3
   <4>2. ps[h].by \in x.through => Between(qs, i, h, ps[h].by) BY <1>4, <1>5, <4>1 DEF Between
   <4>3. ASSUME Between(qs, i, h, ps[h].by) PROVE Ends(qs, ps[h].by) = {}
    <5>1. \A k \in Ends(qs, ps[h].by) : n + 1 < k /\ k \in 1 .. n + 1
      BY <1>1, <3>3, <4>3 DEF Between, Ends
    <5> QED BY <1>1, <5>1
   <4>4. Ends(qs, ps[h].by) = {} /\ ps[h].by[1] # "dash" => ps[h].by \in x.through
    <5>1. Ends(qs, ps[h].by) = {} => ps[h].by # e /\ Ends(ps, ps[h].by) = {} BY <1>4
    <5> QED BY <1>6, <2>1, <3>0, <5>1
   <4> QED BY <3>0, <4>1, <4>2, <4>3, <4>4
  <3> QED BY <1>2, <3>1, <3>2, <3>3
 <2> QED BY <1>1, <2>1 DEF Framed
<1>8. Covering(qs)
 <2>1. ASSUME NEW k \in 1 .. n + 1, Closing(qs[k]), qs[k].by[1] \in Hashing
       PROVE  MadeOver(qs, qs[k].seen, qs[k].by)
  <3>1. CASE k \in 1 .. n
   <4>1. qs[k] = ps[k] /\ MadeOver(ps, ps[k].seen, ps[k].by) /\ ps[k].by \notin x.through
     BY <1>1, <1>3, <2>1, <3>1 DEF Covering, NotEnded, Closing
   <4>2. ps[k].by \in WriterIds
    <5>1. ps[k].by \in WriterIds \cup {<<"app", 0>>} BY <1>1, <3>1, NumbersOf
    <5> QED BY <2>1, <4>1, <5>1 DEF Hashing
   <4> QED BY <4>1, <4>2, MadeOverOther DEF qs
  <3>2. CASE k = n + 1
   <4>1. qs[k] = x /\ MadeOver(ps, x.seen, x.by) BY <1>1, <2>1, <3>2
   <4> QED BY <4>1, MadeOverOther DEF qs
  <3> QED BY <1>2, <3>1, <3>2
 <2> QED BY <1>1, <2>1 DEF Covering, Closing
<1>9. SecretsOnly(qs) BY <1>1, <1>2, <1>3 DEF SecretsOnly
<1>10. Old(qs, m) BY <1>1, <1>2, <1>3 DEF Old
<1>11. NotEnded(qs, L2) BY <1>1, <1>2, <1>3 DEF NotEnded, Closing
<1>12. EndKinds(qs, K2) BY <1>1, <1>2, <1>3 DEF EndKinds
<1>13. EndOnce(qs)
 <2>1. \A i \in 1 .. n : ~(ps[i].what = "end" /\ ps[i].by = e)
   BY <1>1, <1>3 DEF NotEnded, Closing
 <2> QED BY <1>1, <1>2, <1>3, <2>1 DEF EndOnce
<1>14. Shut(qs)
 <2>1. ASSUME NEW j \in 1 .. n + 1, NEW k \in 1 .. n + 1, j <= k, Closing(qs[j])
       PROVE  qs[j].by \notin qs[k].through
  <3>1. CASE j \in 1 .. n /\ k \in 1 .. n BY <1>1, <1>3, <2>1, <3>1 DEF Shut
  <3>2. CASE j \in 1 .. n /\ k = n + 1 BY <1>1, <1>3, <2>1, <3>2 DEF NotEnded
  <3>3. CASE j = n + 1
   <4>1. k = n + 1 BY <1>2, <2>1, <3>3
   <4> QED BY <1>1, <2>1, <3>3, <4>1 DEF Closing
  <3> QED BY <1>2, <3>1, <3>2, <3>3
 <2> QED BY <1>1, <2>1 DEF Shut
<1>15. Headed(qs) BY <1>1, <1>2, <1>3 DEF Headed
<1>16. TextOpen(qs, T2)
 <2>1. ASSUME NEW h \in 1 .. n + 1, NEW k \in 1 .. n + 1, qs[h].what = "header",
              qs[h].by \in T2, qs[h].by[1] = "dash", k > h
       PROVE  qs[h].by \in qs[k].through
  <3>1. h \in 1 .. n BY <1>1, <1>2, <2>1
  <3>2. CASE k \in 1 .. n BY <1>1, <1>3, <2>1, <3>1, <3>2 DEF TextOpen
  <3>3. CASE k = n + 1 BY <1>1, <2>1, <3>1, <3>3
  <3> QED BY <1>2, <3>2, <3>3
 <2> QED BY <1>1, <2>1 DEF TextOpen
<1>17. WillEnd(qs, L2)
 <2>1. ASSUME NEW k \in 1 .. n + 1, NEW id \in qs[k].through \cup {qs[k].by}, id[1] \in Finalised
       PROVE  id \in L2 \/ Ends(qs, id) # {}
  <3>1. CASE k \in 1 .. n
   <4>1. id \in L \/ Ends(ps, id) # {} BY <1>1, <1>3, <2>1, <3>1 DEF WillEnd
   <4> QED BY <1>4, <4>1
  <3>2. CASE k = n + 1
   <4>1. id \in L \/ id = e BY <1>1, <2>1, <3>2
   <4> QED BY <1>4, <4>1
  <3> QED BY <1>2, <3>1, <3>2
 <2> QED BY <1>1, <2>1 DEF WillEnd
<1>18. WillSign(qs, S)
 <2>1. \A id : Signs(ps, id) => Signs(qs, id) BY <1>1, <1>2 DEF Signs
 <2>2. ASSUME NEW k \in 1 .. n + 1, NEW id \in qs[k].through \cup {qs[k].by}, id[1] = "sign"
       PROVE  id \in S \/ Signs(qs, id)
  <3>1. CASE k \in 1 .. n
   <4>1. id \in S \/ Signs(ps, id) BY <1>1, <1>3, <2>2, <3>1 DEF WillSign
   <4> QED BY <2>1, <4>1
  <3>2. CASE k = n + 1
   <4>1. id \in x.through \cup {x.by} BY <1>1, <2>2, <3>2
   <4> QED BY <2>2, <4>1
  <3> QED BY <1>2, <3>1, <3>2
 <2> QED BY <1>1, <2>2 DEF WillSign
<1>19. Good(qs, m, L2, K2, T2, S)
  BY <1>7, <1>8, <1>9, <1>10, <1>11, <1>12, <1>13, <1>14, <1>15, <1>16, <1>17, <1>18 DEF Good
<1> QED BY <1>19 DEF qs

-----------------------------------------------------------------------------
(* Pieces of data, counted. *)

\* Numbers of one more piece.
LEMMA CountFacts ==
  ASSUME NEW ps \in Seq(PieceSet), NEW k \in Nat
  PROVE  /\ Count(ps, k) \in Nat /\ IsFiniteSet({j \in Numbers(ps) : j <= k})
         /\ \A j \in Nat : j <= k => Count(ps, j) <= Count(ps, k)
         /\ k > 0 => Count(ps, k) = Count(ps, k - 1) + IF k \in Numbers(ps) THEN 1 ELSE 0
         /\ k = 0 => Count(ps, k) = 0
<1>1. Numbers(ps) \subseteq 1 .. Len(ps) /\ Len(ps) \in Nat BY DEF Numbers
<1> DEFINE S(n) == {j \in Numbers(ps) : j <= n}
<1>2. \A n \in Nat : IsFiniteSet(S(n)) /\ Count(ps, n) = Cardinality(S(n)) /\ Count(ps, n) \in Nat
 <2>1. ASSUME NEW n \in Nat PROVE IsFiniteSet(S(n))
  <3>1. S(n) \subseteq 1 .. Len(ps) BY <1>1
  <3>2. IsFiniteSet(1 .. Len(ps)) BY <1>1, FS_Interval
  <3> HIDE DEF S
  <3> QED BY <3>1, <3>2, FS_Subset
 <2>2. ASSUME NEW n \in Nat PROVE Count(ps, n) = Cardinality(S(n)) BY DEF Count
 <2> HIDE DEF S
 <2> QED BY <2>1, <2>2, FS_CardinalityType
<1>3. ASSUME NEW j \in Nat, j <= k PROVE Count(ps, j) <= Count(ps, k)
 <2>1. S(j) \subseteq S(k)
  <3>1. ASSUME NEW i \in Numbers(ps), i <= j PROVE i <= k
   <4>1. i \in Nat BY <1>1
   <4> QED BY <1>3, <3>1, <4>1
  <3> QED BY <3>1
 <2> HIDE DEF S
 <2> QED BY <1>2, <2>1, FS_Subset
<1>4. ASSUME k > 0
      PROVE Count(ps, k) = Count(ps, k - 1) + IF k \in Numbers(ps) THEN 1 ELSE 0
 <2>1. k - 1 \in Nat /\ \A j \in Nat : (j <= k <=> j <= k - 1 \/ j = k) /\ ~(k <= k - 1) BY <1>4
 <2>2. \A j \in Numbers(ps) : j \in Nat BY <1>1
 <2>3. CASE k \in Numbers(ps)
  <3>1. S(k) = S(k - 1) \cup {k} /\ k \notin S(k - 1)
   <4>1. \A j \in Numbers(ps) : j <= k <=> j <= k - 1 \/ j = k BY <2>1, <2>2
   <4> QED BY <2>1, <2>3, <4>1
  <3>2. IsFiniteSet(S(k - 1)) /\ Count(ps, k - 1) = Cardinality(S(k - 1))
        /\ Count(ps, k) = Cardinality(S(k))
    BY <1>2, <2>1
  <3> HIDE DEF S
  <3>3. Cardinality(S(k - 1) \cup {k}) = Cardinality(S(k - 1)) + 1 BY <3>1, <3>2, FS_AddElement
  <3> QED BY <2>3, <3>1, <3>2, <3>3
 <2>4. CASE k \notin Numbers(ps)
  <3>1. S(k) = S(k - 1)
   <4>1. \A j \in Numbers(ps) : j <= k <=> j <= k - 1 BY <2>1, <2>2, <2>4
   <4> QED BY <4>1
  <3>2. Count(ps, k - 1) = Cardinality(S(k - 1)) /\ Count(ps, k) = Cardinality(S(k))
        /\ Count(ps, k - 1) \in Nat
    BY <1>2, <2>1
  <3> HIDE DEF S
  <3> QED BY <2>4, <3>1, <3>2
 <2> QED BY <2>3, <2>4
<1>5. ASSUME k = 0 PROVE Count(ps, k) = 0
 <2>1. S(k) = {}
  <3>1. \A j \in Numbers(ps) : ~(j <= 0) BY <1>1
  <3> QED BY <1>5, <3>1
 <2> HIDE DEF S
 <2> QED BY <1>2, <2>1, FS_EmptySet
<1>6. IsFiniteSet(S(k)) /\ Count(ps, k) \in Nat BY <1>2
<1> QED BY <1>3, <1>4, <1>5, <1>6

\* What comes later does not change the count of what has come.
LEMMA CountPrefix ==
  ASSUME NEW ps \in Seq(PieceSet), NEW qs \in Seq(PieceSet), Len(ps) <= Len(qs),
         \A k \in 1 .. Len(ps) : ps[k] = qs[k]
  PROVE  /\ \A k \in 1 .. Len(ps) : k \in Numbers(ps) <=> k \in Numbers(qs)
         /\ \A k \in 0 .. Len(ps) : Count(ps, k) = Count(qs, k)
<1> DEFINE n == Len(ps)
           m == Len(qs)
<1>1. /\ n \in Nat /\ m \in Nat /\ n <= m /\ DOMAIN ps = 1 .. n /\ DOMAIN qs = 1 .. m
      /\ \A k \in 1 .. n : ps[k] = qs[k]
  OBVIOUS
<1> HIDE DEF n, m
<1>2. 1 .. n \subseteq 1 .. m BY <1>1
<1>3. \A k \in 1 .. n : k \in Numbers(ps) <=> k \in Numbers(qs) BY <1>1, <1>2 DEF Numbers
<1>4. ASSUME NEW k \in 0 .. n PROVE Count(ps, k) = Count(qs, k)
 <2>1. {j \in Numbers(ps) : j <= k} = {j \in Numbers(qs) : j <= k}
  <3>1. \A j \in Numbers(ps) : j \in 1 .. n BY <1>1 DEF Numbers
  <3>2. \A j \in Numbers(qs) : j <= k => j \in 1 .. n BY <1>1 DEF Numbers
  <3> QED BY <1>3, <3>1, <3>2
 <2> QED BY <2>1 DEF Count
<1> QED BY <1>3, <1>4 DEF n

\* Other pieces are not counted, and the next piece of data has the next number.
LEMMA CountMore ==
  ASSUME NEW ps \in Seq(PieceSet), NEW x \in PieceSet, NEW a \in Nat, Counted(ps, a)
  PROVE  /\ x.what \notin {"data", "secret"} => Counted(ps \o <<x>>, a)
         /\ x.what \in {"data", "secret"} /\ x.n = a + 1 => Counted(ps \o <<x>>, a + 1)
<1> DEFINE n == Len(ps)
           qs == ps \o <<x>>
<1>1. /\ n \in Nat /\ DOMAIN ps = 1 .. n /\ qs \in Seq(PieceSet) /\ Len(qs) = n + 1
      /\ DOMAIN qs = 1 .. n + 1 /\ qs[n + 1] = x /\ \A i \in 1 .. n : qs[i] = ps[i]
  BY OneMore
<1>2. /\ \A k \in 1 .. n : k \in Numbers(ps) <=> k \in Numbers(qs)
      /\ \A k \in 0 .. n : Count(ps, k) = Count(qs, k)
 <2>1. Len(ps) <= Len(qs) /\ \A k \in 1 .. Len(ps) : ps[k] = qs[k] BY <1>1
 <2> HIDE DEF qs
 <2> QED BY <1>1, <2>1, CountPrefix
<1> HIDE DEF qs
<1>3. Count(qs, n + 1) = Count(qs, n) + IF n + 1 \in Numbers(qs) THEN 1 ELSE 0
 <2>1. n + 1 \in Nat /\ n + 1 > 0 /\ (n + 1) - 1 = n BY <1>1
 <2> HIDE DEF n
 <2> QED BY <1>1, <2>1, CountFacts
<1>4. Count(ps, n) = a /\ \A k \in Numbers(ps) : ps[k].n = Count(ps, k) BY DEF Counted
<1> HIDE DEF n
<1>5. n + 1 \in Numbers(qs) <=> x.what \in {"data", "secret"} BY <1>1 DEF Numbers
<1>6. Count(qs, n) = a BY <1>1, <1>2, <1>4
<1>7. ASSUME NEW k \in Numbers(qs), k \in 1 .. n PROVE qs[k].n = Count(qs, k)
 <2>1. k \in Numbers(ps) /\ k \in 0 .. n BY <1>1, <1>2, <1>7
 <2> QED BY <1>1, <1>2, <1>4, <1>7, <2>1
<1>8. \A k \in Numbers(qs) : k \in 1 .. n \/ k = n + 1 BY <1>1 DEF Numbers
<1>9. CASE x.what \notin {"data", "secret"}
 <2>1. Count(qs, n + 1) = a BY <1>3, <1>5, <1>6, <1>9
 <2>2. Counted(qs, a) BY <1>1, <1>5, <1>7, <1>8, <1>9, <2>1 DEF Counted
 <2> QED BY <1>9, <2>2 DEF qs
<1>10. CASE x.what \in {"data", "secret"} /\ x.n = a + 1
 <2>1. Count(qs, n + 1) = a + 1 BY <1>3, <1>5, <1>6, <1>10
 <2>2. Counted(qs, a + 1) BY <1>1, <1>7, <1>8, <1>10, <2>1 DEF Counted
 <2> QED BY <1>10, <2>2 DEF qs
<1> QED BY <1>9, <1>10 DEF qs

-----------------------------------------------------------------------------
(* Writers after a write. *)

\* The names of pieces are as many as the pieces, in their order.
LEMMA NamesFacts ==
  ASSUME NEW ps \in Seq(PieceSet)
  PROVE  /\ Names(ps) \in Seq(NameSet) /\ Len(Names(ps)) = Len(ps)
         /\ \A k \in 1 .. Len(ps) : Names(ps)[k] = Name(ps[k])
<1>1. Len(ps) \in Nat /\ DOMAIN ps = 1 .. Len(ps) /\ \A k \in 1 .. Len(ps) : ps[k] \in PieceSet
  OBVIOUS
<1>2. \A p \in PieceSet : Name(p) \in NameSet BY DEF PieceSet, NameSet, Name
<1> DEFINE A == Names(ps)
           m == Len(ps)
<1>3. A = [k \in 1 .. m |-> Name(ps[k])] BY <1>1 DEF Names
<1> HIDE DEF A, m
<1>4. A \in [1 .. m -> NameSet] BY <1>1, <1>2, <1>3 DEF m
<1>5. A \in Seq(NameSet) /\ Len(A) = m BY <1>1, <1>4 DEF m
<1> QED BY <1>3, <1>5 DEF A, m

\* What a hash is of stays names of pieces.
LEMMA HashedFacts ==
  ASSUME NEW w \in WriterSet, NEW ps \in Seq(PieceSet) PROVE Hashed(w, ps) \in Seq(NameSet)
<1>1. w.seen \in Seq(NameSet) /\ Names(ps) \in Seq(NameSet) BY NamesFacts DEF WriterSet
<1>2. w.seen \o Names(ps) \in Seq(NameSet) BY <1>1, ConcatProperties
<1> QED BY <1>1, <1>2 DEF Hashed

\* A writer that is written to stays the same writer, not finalised by it; it keeps
\* what it has and gets, or nothing, and hashes what it gets.
LEMMA ThroughFacts ==
  ASSUME NEW w \in WriterSet, NEW ps \in Seq(PieceSet), NEW keeps \in BOOLEAN
  PROVE  /\ Through(w, ps, keeps) \in WriterSet
         /\ Through(w, ps, keeps).id = w.id /\ Through(w, ps, keeps).pending = w.pending
         /\ Through(w, ps, keeps).held = (IF keeps THEN w.held \o ps ELSE <<>>)
         /\ Through(w, ps, keeps).seen = Hashed(w, ps)
<1> DEFINE A == WriterIds
           B == Seq(PieceSet)
           C == Seq(NameSet)
           h == IF keeps THEN w.held \o ps ELSE <<>>
           z == Hashed(w, ps)
           f == w.first \/ (Kind(w) = "partial" /\ ~keeps)
           t == [w EXCEPT !.held = h, !.seen = z, !.first = f]
<1>1. w \in [id : A, pending : BOOLEAN, first : BOOLEAN, held : B, seen : C] BY DEF WriterSet
<1>2. h \in B
 <2>1. w.held \in Seq(PieceSet) BY DEF WriterSet
 <2>2. w.held \o ps \in Seq(PieceSet) /\ <<>> \in Seq(PieceSet)
   BY <2>1, ConcatProperties, EmptySeq
 <2> QED BY <2>2
<1>3. z \in C BY HashedFacts
<1>4. f \in BOOLEAN OBVIOUS
<1>5. Through(w, ps, keeps) = t BY DEF Through
<1> HIDE DEF A, B, C, h, z, f
<1>6. /\ t \in [id : A, pending : BOOLEAN, first : BOOLEAN, held : B, seen : C]
      /\ t.id = w.id /\ t.pending = w.pending /\ t.held = h /\ t.seen = z
  BY <1>1, <1>2, <1>3, <1>4
<1> HIDE DEF t
<1>7. t \in WriterSet BY <1>6 DEF WriterSet, A, B, C
<1> QED BY <1>5, <1>6, <1>7 DEF h, z

\* After a write every writer is there that was, and has what it may have.
Like(s, t, top) ==
  /\ t \in Seq(WriterSet) /\ Len(t) = Len(s)
  /\ \A i \in 1 .. Len(s) :
       /\ t[i].id = s[i].id /\ t[i].pending = s[i].pending
       /\ t[i].held # <<>> => s[i].held # <<>> \/ (i <= top /\ Kind(s[i]) \in Buffering)

\* A write leaves the writers above it, and those nothing gets to, as they were; of
\* the others each keeps or passes on (the writers' own functions under stacked_write).
LEMMA PassDownFacts ==
  ASSUME NEW s \in Seq(WriterSet), NEW top \in 0 .. Len(s), NEW to,
         \A i \in 0 .. top : to[i] \in Seq(PieceSet),
         NEW keep \in SUBSET {i \in 1 .. top : Kind(s[i]) \in Buffering}
  PROVE  /\ Like(s, PassDown(s, to, top, keep), top)
         /\ \A i \in 1 .. Len(s) :
              /\ i > top \/ to[i] = <<>> => PassDown(s, to, top, keep)[i] = s[i]
              /\ i <= top /\ to[i] # <<>> =>
                   /\ PassDown(s, to, top, keep)[i].held =
                        (IF i \in keep THEN s[i].held \o Marked(s[i], to[i]) ELSE <<>>)
                   /\ PassDown(s, to, top, keep)[i].seen = Hashed(s[i], Marked(s[i], to[i]))
<1> DEFINE n == Len(s)
           t == PassDown(s, to, top, keep)
<1>1. n \in Nat /\ DOMAIN s = 1 .. n /\ (\A i \in 1 .. n : s[i] \in WriterSet) /\ top \in Nat
      /\ top <= n
  OBVIOUS
<1>2. t = [i \in 1 .. n |-> IF i > top \/ to[i] = <<>> THEN s[i]
                            ELSE Through(s[i], Marked(s[i], to[i]), i \in keep)]
  BY <1>1 DEF PassDown
<1> HIDE DEF n, t
<1>3. ASSUME NEW i \in 1 .. n
      PROVE  /\ i > top \/ to[i] = <<>> => t[i] = s[i]
             /\ i <= top /\ to[i] # <<>> =>
                  t[i] = Through(s[i], Marked(s[i], to[i]), i \in keep)
  BY <1>1, <1>2
<1>4. ASSUME NEW i \in 1 .. n, i <= top, to[i] # <<>>
      PROVE  /\ t[i] \in WriterSet /\ t[i].id = s[i].id /\ t[i].pending = s[i].pending
             /\ t[i].held = (IF i \in keep THEN s[i].held \o Marked(s[i], to[i]) ELSE <<>>)
             /\ t[i].seen = Hashed(s[i], Marked(s[i], to[i]))
 <2>1. s[i] \in WriterSet /\ to[i] \in Seq(PieceSet)
  <3>1. i \in 0 .. top BY <1>1, <1>4
  <3> QED BY <1>1, <3>1
 <2>2. Marked(s[i], to[i]) \in Seq(PieceSet) BY <2>1, MarkedFacts
 <2>3. (i \in keep) \in BOOLEAN OBVIOUS
 <2>4. t[i] = Through(s[i], Marked(s[i], to[i]), i \in keep) BY <1>3, <1>4
 <2> DEFINE w == s[i]
            ps == Marked(s[i], to[i])
            keeps == i \in keep
            r == t[i]
 <2>5. w \in WriterSet /\ ps \in Seq(PieceSet) /\ keeps \in BOOLEAN /\ r = Through(w, ps, keeps)
   BY <2>1, <2>2, <2>3, <2>4
 <2> HIDE DEF w, ps, keeps, r
 <2>6. /\ r \in WriterSet /\ r.id = w.id /\ r.pending = w.pending
       /\ r.held = (IF keeps THEN w.held \o ps ELSE <<>>) /\ r.seen = Hashed(w, ps)
   BY <2>5, ThroughFacts
 <2> QED BY <2>6 DEF w, ps, keeps, r
<1>5. ASSUME NEW i \in 1 .. n
      PROVE  /\ t[i] \in WriterSet /\ t[i].id = s[i].id /\ t[i].pending = s[i].pending
             /\ t[i].held # <<>> => s[i].held # <<>> \/ (i <= top /\ Kind(s[i]) \in Buffering)
 <2>1. CASE i > top \/ to[i] = <<>> BY <1>1, <1>3, <2>1
 <2>2. CASE i <= top /\ to[i] # <<>>
  <3>1. /\ t[i] \in WriterSet /\ t[i].id = s[i].id /\ t[i].pending = s[i].pending
        /\ t[i].held # <<>> => i \in keep
    BY <1>4, <2>2
  <3>2. i \in keep => Kind(s[i]) \in Buffering OBVIOUS
  <3> QED BY <2>2, <3>1, <3>2
 <2> QED BY <1>1, <2>1, <2>2
<1>6. t \in Seq(WriterSet) /\ Len(t) = n
 <2>1. t \in [1 .. n -> WriterSet] BY <1>2, <1>5
 <2> QED BY <1>1, <2>1
<1>7. Like(s, t, top) BY <1>5, <1>6 DEF Like, n
<1> QED BY <1>3, <1>4, <1>7 DEF n, t

\* Not to follow what writers hold changes nothing else about them.
LEMMA FollowedFacts ==
  ASSUME NEW s \in Seq(WriterSet), NEW fine \in BOOLEAN
  PROVE  Like(s, Followed(s, fine), 0) /\ (fine => Followed(s, fine) = s)
<1> DEFINE n == Len(s)
           t == [i \in DOMAIN s |-> [s[i] EXCEPT !.held = <<>>, !.seen = <<>>]]
<1>1. n \in Nat /\ DOMAIN s = 1 .. n /\ \A i \in 1 .. n : s[i] \in WriterSet OBVIOUS
<1>2. CASE fine BY <1>2 DEF Followed, Like
<1>3. CASE ~fine
 <2>1. Followed(s, fine) = t BY <1>3 DEF Followed
 <2>2. t = [i \in 1 .. n |-> [s[i] EXCEPT !.held = <<>>, !.seen = <<>>]] BY <1>1
 <2> HIDE DEF n, t
 <2>3. ASSUME NEW w \in WriterSet, NEW r, r = [w EXCEPT !.held = <<>>, !.seen = <<>>]
       PROVE  r \in WriterSet /\ r.id = w.id /\ r.pending = w.pending /\ r.held = <<>>
  <3> DEFINE A == WriterIds
             B == Seq(PieceSet)
             C == Seq(NameSet)
  <3>1. w \in [id : A, pending : BOOLEAN, first : BOOLEAN, held : B, seen : C] BY DEF WriterSet
  <3>2. <<>> \in B /\ <<>> \in C BY EmptySeq
  <3> HIDE DEF A, B, C
  <3>3. /\ r \in [id : A, pending : BOOLEAN, first : BOOLEAN, held : B, seen : C]
        /\ r.id = w.id /\ r.pending = w.pending /\ r.held = <<>>
    BY <2>3, <3>1, <3>2
  <3> QED BY <3>3 DEF WriterSet, A, B, C
 <2>4. ASSUME NEW i \in 1 .. n
       PROVE  t[i] \in WriterSet /\ t[i].id = s[i].id /\ t[i].pending = s[i].pending
              /\ t[i].held = <<>>
  <3>1. t[i] = [s[i] EXCEPT !.held = <<>>, !.seen = <<>>] /\ s[i] \in WriterSet BY <1>1, <2>2
  <3> QED BY <2>3, <3>1
 <2>5. t \in Seq(WriterSet) /\ Len(t) = n
  <3>1. t \in [1 .. n -> WriterSet] BY <2>2, <2>4
  <3> QED BY <1>1, <3>1
 <2>6. Like(s, t, 0) BY <2>4, <2>5 DEF Like, n
 <2> QED BY <1>3, <2>1, <2>6
<1> QED BY <1>2, <1>3

\* What may come of a write.
LEMMA OutcomeFacts ==
  ASSUME stack \in Seq(WriterSet), out \in Seq(PieceSet), intact \in BOOLEAN,
         NEW pieces \in Seq(PieceSet), NEW top \in 0 .. Len(stack),
         NEW o \in Outcomes(pieces, top)
  PROVE  /\ Like(stack, o.stack, top) /\ o.out \in Seq(PieceSet)
         /\ o.good \in BOOLEAN /\ o.fails \in BOOLEAN
         /\ \A s : [o EXCEPT !.stack = s].good = o.good /\ [o EXCEPT !.stack = s].stack = s
         /\ ~o.good => o.fails /\ ~Lost(top)
         /\ intact /\ ~o.fails =>
              \E keep \in SUBSET {i \in 1 .. top : Kind(stack[i]) \in Buffering} :
                LET to == Arriving(stack, pieces, top, keep)
                IN  o.stack = PassDown(stack, to, top, keep) /\ o.out = out \o to[0]
<1>1. PICK keep \in SUBSET {i \in 1 .. top : Kind(stack[i]) \in Buffering} :
        LET to == Arriving(stack, pieces, top, keep)
            passed == PassDown(stack, to, top, keep)
        IN  o \in {[stack |-> Followed(passed, intact), fails |-> FALSE, good |-> TRUE,
                    out |-> IF intact THEN out \o to[0] ELSE <<>>]}
                  \cup (IF to[0] = <<>> THEN {} ELSE
                          {[stack |-> Followed(passed, FALSE), fails |-> TRUE, good |-> g,
                            out |-> <<>>] : g \in Results(top)})
  BY DEF Outcomes
<1> DEFINE to == Arriving(stack, pieces, top, keep)
           passed == PassDown(stack, to, top, keep)
<1>2. \A i \in 0 .. top : to[i] \in Seq(PieceSet) BY ArrivingTypes
<1>3. to[0] \in Seq(PieceSet) BY <1>2
<1>4. out \o to[0] \in Seq(PieceSet) /\ <<>> \in Seq(PieceSet) BY <1>3, ConcatProperties, EmptySeq
<1>5. Like(stack, passed, top)
 <2> HIDE DEF to
 <2> QED BY <1>2, PassDownFacts
<1>6. ASSUME NEW fine \in BOOLEAN
      PROVE  Like(stack, Followed(passed, fine), top) /\ (fine => Followed(passed, fine) = passed)
 <2> HIDE DEF passed
 <2>1. passed \in Seq(WriterSet) BY <1>5 DEF Like
 <2> DEFINE q == Followed(passed, fine)
 <2>2. Like(passed, q, 0) /\ (fine => q = passed) BY <2>1, FollowedFacts
 <2> HIDE DEF q
 <2>3. Len(stack) \in Nat /\ \A i \in 1 .. Len(stack) : ~(i <= 0) OBVIOUS
 <2>4. Like(stack, q, top) BY <1>5, <2>2, <2>3 DEF Like
 <2> QED BY <2>2, <2>4 DEF q
<1> HIDE DEF to, passed
<1>7. CASE o = [stack |-> Followed(passed, intact), fails |-> FALSE, good |-> TRUE,
                out |-> IF intact THEN out \o to[0] ELSE <<>>]
 <2>1. /\ o.stack = Followed(passed, intact) /\ o.fails = FALSE /\ o.good = TRUE
       /\ o.out = IF intact THEN out \o to[0] ELSE <<>>
       /\ \A s : [o EXCEPT !.stack = s].good = o.good /\ [o EXCEPT !.stack = s].stack = s
   BY <1>7
 <2>2. Like(stack, o.stack, top) /\ (intact => o.stack = passed) BY <1>6, <2>1
 <2>3. o.out \in Seq(PieceSet) BY <1>4, <2>1
 <2> QED BY <2>1, <2>2, <2>3 DEF to, passed
<1>8. CASE \E g \in Results(top) :
             o = [stack |-> Followed(passed, FALSE), fails |-> TRUE, good |-> g, out |-> <<>>]
 <2>1. PICK g \in Results(top) :
         o = [stack |-> Followed(passed, FALSE), fails |-> TRUE, good |-> g, out |-> <<>>]
   BY <1>8
 <2>2. /\ o.stack = Followed(passed, FALSE) /\ o.fails = TRUE /\ o.good = g /\ o.out = <<>>
       /\ \A s : [o EXCEPT !.stack = s].good = o.good /\ [o EXCEPT !.stack = s].stack = s
   BY <2>1
 <2>3. g \in BOOLEAN /\ (~g => ~Drops(top)) BY DEF Results
 <2>4. Like(stack, o.stack, top) BY <1>6, <2>2
 <2> QED BY <1>4, <2>2, <2>3, <2>4 DEF Lost
<1> QED BY <1>1, <1>7, <1>8 DEF to, passed

-----------------------------------------------------------------------------
(* What has been written, after a write. *)

Joined(a, b) == a \o b
\* Joining runs of pieces is associative.
LEMMA ConcatPieces ==
  ASSUME NEW a \in Seq(PieceSet), NEW b \in Seq(PieceSet), NEW c \in Seq(PieceSet)
  PROVE  Joined(Joined(a, b), c) = Joined(a, Joined(b, c))
BY ConcatAssociative DEF Joined

\* What has gone through no writers is as it was.
LEMMA LiftedOfZero ==
  ASSUME NEW s \in Seq(WriterSet), NEW ps \in Seq(PieceSet) PROVE Lifted(s, 0, ps) = ps
<1> DEFINE B == Lifted(s, 0, ps)
<1>1. 0 \in 0 .. Len(s) /\ Len(s) \in Nat OBVIOUS
<1>2. Ids(s, 0) = {} BY <1>1, IdsFacts
<1>3. B \in Seq(PieceSet) /\ Len(B) = Len(ps) BY <1>1, LiftedFacts
<1>4. ASSUME NEW k \in 1 .. Len(ps) PROVE B[k] = ps[k]
 <2>1. /\ B[k] \in PieceSet /\ B[k].through = ps[k].through \cup Ids(s, 0)
       /\ B[k].what = ps[k].what /\ B[k].by = ps[k].by /\ B[k].n = ps[k].n
       /\ B[k].seen = ps[k].seen
   BY <1>1, LiftedFacts
 <2>2. ps[k] \in PieceSet OBVIOUS
 <2> HIDE DEF B
 <2>3. B[k].through = ps[k].through BY <1>2, <2>1
 <2> QED BY <2>1, <2>2, <2>3, PieceEqual
<1> HIDE DEF B
<1>5. B = ps BY <1>3, <1>4, SeqEqual
<1> QED BY <1>5 DEF B

SameIdsTo(s, t, n) == \A k \in 0 .. n : Ids(t, k) = Ids(s, k)
\* Writers that are the same up to n.
LEMMA SameIds ==
  ASSUME NEW s, NEW t, NEW n \in Nat, \A i \in 1 .. n : t[i].id = s[i].id
  PROVE  SameIdsTo(s, t, n)
<1>1. ASSUME NEW k \in 0 .. n PROVE Ids(t, k) = Ids(s, k)
 <2>1. \A j \in 1 .. k : j \in 1 .. n OBVIOUS
 <2> QED BY <2>1 DEF Ids
<1> QED BY <1>1 DEF SameIdsTo

\* Pieces behind what has been written to writer n.
Behind(v, s, n, ps) == v[n] \o Lifted(s, n, ps)

\* With writers s and o out, ps has been written to writer top.
Flows(s, top, o, ps) == \E u : Flow(s, top, o, u) /\ SeenAll(s, top, u) /\ u[top] = ps

\* Pieces that are written to writer top come behind all that has been written to it
\* before, whatever the writers below keep.
LEMMA FlowOfWrite ==
  ASSUME NEW s \in Seq(WriterSet), NEW top \in 0 .. Len(s), NEW pieces \in Seq(PieceSet),
         NEW keep \in SUBSET {i \in 1 .. top : Kind(s[i]) \in Buffering},
         NEW o \in Seq(PieceSet), NEW v, Flow(s, top, o, v), SeenAll(s, top, v),
         NEW A, A = Arriving(s, pieces, top, keep), NEW t, t = PassDown(s, A, top, keep)
  PROVE  Flows(t, top, o \o A[0], Behind(v, s, top, pieces))
<1>1. /\ top \in Nat /\ A[top] = pieces
      /\ \A i \in 0 .. top - 1 : A[i] = Passed(s, keep, A[i + 1], i)
  BY ArrivingFacts
<1>2. \A i \in 0 .. top : A[i] \in Seq(PieceSet) BY ArrivingTypes
<1>3. /\ Like(s, t, top)
      /\ \A i \in 1 .. Len(s) :
           /\ i > top \/ A[i] = <<>> => t[i] = s[i]
           /\ i <= top /\ A[i] # <<>> =>
                /\ t[i].held = (IF i \in keep THEN s[i].held \o Marked(s[i], A[i]) ELSE <<>>)
                /\ t[i].seen = Hashed(s[i], Marked(s[i], A[i]))
  BY <1>2, PassDownFacts
<1>4. /\ v \in [0 .. top -> Seq(PieceSet)] /\ v[0] = o
      /\ \A i \in 1 .. top : v[i] = v[i - 1] \o Lifted(s, i - 1, s[i].held)
  BY DEF Flow
<1> DEFINE L(i) == Lifted(s, i, A[i])
           u == [i \in 0 .. top |-> v[i] \o L(i)]
<1>5. /\ \A i \in 1 .. top : i \in 1 .. Len(s) /\ i \in 0 .. top /\ i - 1 \in 0 .. top /\ i \in 0 .. Len(s)
           /\ i - 1 \in 0 .. Len(s) /\ i - 1 \in 0 .. top - 1 /\ (i - 1) + 1 = i /\ ~(i > top)
           /\ i <= top /\ i > 0
      /\ \A i \in 0 .. top : i \in 0 .. Len(s)
      /\ 0 \in 0 .. top /\ top \in 0 .. top
  BY <1>1
<1>6. \A i \in 0 .. top : L(i) \in Seq(PieceSet) /\ v[i] \in Seq(PieceSet)
 <2>1. ASSUME NEW i \in 0 .. top PROVE L(i) \in Seq(PieceSet) BY <1>2, <1>5, LiftedFacts
 <2> HIDE DEF L
 <2> QED BY <1>4, <2>1
<1>7. u \in [0 .. top -> Seq(PieceSet)] /\ \A i \in 0 .. top : u[i] = v[i] \o L(i)
 <2> HIDE DEF L
 <2>1. \A i \in 0 .. top : v[i] \o L(i) \in Seq(PieceSet) BY <1>6, ConcatProperties
 <2> QED BY <2>1
<1>8. u[0] = o \o A[0]
 <2>1. L(0) = A[0] BY <1>2, <1>5, LiftedOfZero
 <2> HIDE DEF L, u
 <2> QED BY <1>4, <1>5, <1>7, <2>1
<1>9. u[top] = v[top] \o Lifted(s, top, pieces)
 <2>1. L(top) = Lifted(s, top, pieces) BY <1>1
 <2> HIDE DEF L, u
 <2> QED BY <1>5, <1>7, <2>1
<1>10. \A i \in 1 .. Len(s) : t[i].id = s[i].id BY <1>3 DEF Like
<1>11. \A k \in 0 .. Len(s) : \A ps : Lifted(t, k, ps) = Lifted(s, k, ps)
 <2> DEFINE n == Len(s)
 <2>1. n \in Nat /\ \A i \in 1 .. n : t[i].id = s[i].id BY <1>10
 <2> HIDE DEF n
 <2>2. SameIdsTo(s, t, n) BY <2>1, SameIds
 <2> QED BY <2>2 DEF n, Lifted, SameIdsTo
<1>12. ASSUME NEW i \in 1 .. top PROVE u[i] = u[i - 1] \o Lifted(t, i - 1, t[i].held)
 <2> DEFINE w == s[i]
            h == w.held
            a == A[i]
            M == Marked(w, a)
            H == Lifted(s, i - 1, h)
            x == v[i - 1]
 <2>1. w \in WriterSet BY <1>5
 <2>2. h \in Seq(PieceSet)
  <3> HIDE DEF w
  <3> QED BY <2>1 DEF WriterSet
 <2>3. a \in Seq(PieceSet) /\ x \in Seq(PieceSet) BY <1>2, <1>5, <1>6
 <2>4. M \in Seq(PieceSet)
  <3> HIDE DEF w, a
  <3> QED BY <2>1, <2>3, MarkedFacts
 <2>5. H \in Seq(PieceSet)
  <3> HIDE DEF h
  <3> QED BY <1>5, <2>2, LiftedFacts
 <2>6. Lifted(s, i - 1, M) = L(i)
  <3> HIDE DEF a
  <3>1. Lifted(s, i - 1, Marked(s[i], a)) = Lifted(s, i, a) BY <1>5, <2>3, LiftedOfMarked
  <3> QED BY <3>1 DEF a
 <2>7. v[i] = x \o H BY <1>4
 <2>8. L(i) \in Seq(PieceSet) /\ u[i] = v[i] \o L(i) /\ u[i - 1] = x \o L(i - 1)
       /\ A[i - 1] = Passed(s, keep, a, i - 1)
  <3> HIDE DEF L, u
  <3>1. A[i - 1] = Passed(s, keep, A[(i - 1) + 1], i - 1) BY <1>1, <1>5
  <3> QED BY <1>5, <1>6, <1>7, <3>1
 <2>9. Lifted(t, i - 1, t[i].held) = Lifted(s, i - 1, t[i].held) BY <1>5, <1>11
 <2>10. Lifted(s, i - 1, h \o M) = H \o L(i) /\ Lifted(s, i - 1, <<>>) = <<>>
  <3>1. Lifted(s, i - 1, h \o M) = H \o Lifted(s, i - 1, M)
   <4> HIDE DEF h, M
   <4> QED BY <1>5, <2>2, <2>4, LiftedOfConcat
  <3>2. Lifted(s, i - 1, <<>>) = <<>> BY <1>5, LiftedOfNone
  <3> QED BY <2>6, <3>1, <3>2
 <2>11. /\ (a = <<>> => t[i].held = h)
        /\ (a # <<>> => t[i].held = IF i \in keep THEN h \o M ELSE <<>>)
   BY <1>3, <1>5
 <2>12. A[i - 1] = IF a = <<>> \/ i \in keep THEN <<>> ELSE h \o M
  <3>1. s[(i - 1) + 1] = w /\ (i - 1) + 1 = i BY <1>5
  <3> HIDE DEF a
  <3> QED BY <2>8, <3>1 DEF Passed, Emitted
 <2>13. L(i - 1) = Lifted(s, i - 1, A[i - 1]) OBVIOUS
 <2>14. a = <<>> => L(i) = <<>> BY <1>5, LiftedOfNone
 <2> HIDE DEF L, u, w, h, a, M, H, x
 <2>18. (x \o H) \o L(i) = x \o (H \o L(i)) /\ u[i] = (x \o H) \o L(i)
  <3>1. (x \o H) \o L(i) = x \o (H \o L(i))
   <4>1. \A l \in Seq(PieceSet) : Joined(Joined(x, H), l) = Joined(x, Joined(H, l))
     BY <2>3, <2>5, ConcatPieces
   <4>2. \A l \in Seq(PieceSet) : (x \o H) \o l = x \o (H \o l) BY <4>1 DEF Joined
   <4> QED BY <2>8, <4>2
  <3>2. u[i] = (x \o H) \o L(i) BY <2>7, <2>8
  <3> QED BY <3>1, <3>2
 <2>15. CASE a = <<>>
  <3>1. L(i - 1) = <<>> /\ L(i) = <<>> /\ t[i].held = h
    BY <2>10, <2>11, <2>12, <2>13, <2>14, <2>15
  <3>2. u[i] = x \o H /\ u[i - 1] = x
   <4>1. x \o H \in Seq(PieceSet) BY <2>3, <2>5, ConcatProperties
   <4> QED BY <2>3, <2>7, <2>8, <3>1, <4>1, ConcatEmptySeq
  <3> QED BY <2>9, <3>1, <3>2 DEF H
 <2>16. CASE a # <<>> /\ i \in keep
  <3>1. L(i - 1) = <<>> /\ t[i].held = h \o M BY <2>10, <2>11, <2>12, <2>13, <2>16
  <3>2. u[i - 1] = x BY <2>3, <2>8, <3>1, ConcatEmptySeq
  <3>3. u[i] = x \o (H \o L(i)) BY <2>18
  <3>4. Lifted(t, i - 1, t[i].held) = H \o L(i) BY <2>9, <2>10, <3>1
  <3> QED BY <3>2, <3>3, <3>4
 <2>17. CASE a # <<>> /\ i \notin keep
  <3>1. L(i - 1) = H \o L(i) /\ t[i].held = <<>> BY <2>10, <2>11, <2>12, <2>13, <2>17
  <3>2. u[i] = u[i - 1] BY <2>8, <2>18, <3>1
  <3>3. u[i - 1] \in Seq(PieceSet) BY <1>5, <1>7
  <3>4. Lifted(t, i - 1, t[i].held) = <<>> BY <2>9, <2>10, <3>1
  <3>5. u[i - 1] \o <<>> = u[i - 1] BY <3>3, ConcatEmptySeq
  <3> QED BY <3>2, <3>4, <3>5
 <2> QED BY <2>15, <2>16, <2>17
<1>13. Flow(t, top, o \o A[0], u)
 <2> HIDE DEF u, L
 <2> QED BY <1>7, <1>8, <1>12 DEF Flow
<1>14. SeenAll(t, top, u)
 <2>1. ASSUME NEW i \in 1 .. top, Kind(t[i]) \in Hashing
       PROVE  MadeOver(u[i], t[i].seen, t[i].id)
  <3> DEFINE w == s[i]
             a == A[i]
             M == Marked(w, a)
             x == v[i]
             l == L(i)
  <3>1. w \in WriterSet /\ a \in Seq(PieceSet) /\ t[i].id = w.id /\ x \in Seq(PieceSet)
    BY <1>2, <1>5, <1>6, <1>10
  <3>2. Kind(w) \in Hashing /\ MadeOver(x, w.seen, w.id) BY <2>1, <3>1 DEF Kind, SeenAll
  <3>3. u[i] = x \o l /\ l \in Seq(PieceSet)
   <4> HIDE DEF L, u
   <4> QED BY <1>5, <1>6, <1>7
  <3>4. CASE a = <<>>
   <4>1. l = <<>> BY <1>5, <3>4, LiftedOfNone
   <4>2. t[i] = s[i] BY <1>3, <1>5, <3>4
   <4> HIDE DEF l, x, u
   <4>3. u[i] = x BY <3>1, <3>3, <4>1, ConcatEmptySeq
   <4> QED BY <3>2, <4>2, <4>3
  <3>5. CASE a # <<>>
   <4>1. t[i].seen = Hashed(w, M) BY <1>3, <1>5, <3>5
   <4>2. /\ M \in Seq(PieceSet) /\ Len(M) = Len(a)
         /\ \A k \in 1 .. Len(a) : Name(M[k]) = Name(a[k])
    <5> HIDE DEF w, a
    <5> QED BY <3>1, MarkedFacts
   <4>3. /\ Len(l) = Len(a)
         /\ \A k \in 1 .. Len(a) : l[k].through = a[k].through \cup Ids(s, i)
                                   /\ Name(l[k]) = Name(a[k])
    <5>1. i \in 0 .. Len(s) /\ l = Lifted(s, i, a) BY <1>5
    <5> HIDE DEF a, l
    <5> QED BY <3>1, <5>1, LiftedFacts
   <4>4. w.id \in Ids(s, i)
    <5>1. i \in 1 .. i OBVIOUS
    <5> QED BY <5>1 DEF Ids
   <4>5. w.id \in WriterIds /\ w.seen \in Seq(NameSet)
    <5> HIDE DEF w
    <5> QED BY <3>1 DEF WriterSet
   <4> HIDE DEF w, a, M, x, l, u
   <4> DEFINE N == Names(M)
   <4>6. N \in Seq(NameSet) /\ Len(N) = Len(l) /\ \A k \in 1 .. Len(l) : N[k] = Name(l[k])
     BY <4>2, <4>3, NamesFacts
   <4>7. Hashed(w, M) = w.seen \o N BY <3>2 DEF Hashed
   <4> HIDE DEF N
   <4>8. \A k \in 1 .. Len(l) : w.id \in l[k].through /\ N[k] = Name(l[k]) BY <4>3, <4>4, <4>6
   <4>9. MadeOver(x \o l, w.seen \o N, w.id)
     BY <3>1, <3>2, <3>3, <4>5, <4>6, <4>8, MadeOverMore
   <4> QED BY <3>1, <3>3, <4>1, <4>7, <4>9
  <3> QED BY <3>4, <3>5
 <2> HIDE DEF u
 <2> QED BY <2>1 DEF SeenAll
<1> HIDE DEF u
<1>15. u[top] = Behind(v, s, top, pieces) BY <1>7, <1>9 DEF Behind
<1> QED BY <1>13, <1>14, <1>15 DEF Flows

-----------------------------------------------------------------------------
(* What has been written, when writers are put on top or taken away. *)

\* The signed writers among s.
SignIds(s) == {s[j].id : j \in {i \in 1 .. Len(s) : Kind(s[i]) = "sign"}}

\* The writers up to k are the same.
SameTo(s, t, k) == \A i \in 1 .. k : t[i] = s[i]
\* What has been written to the writers up to k.
CutOff(t, k, o, ps) == \E u : Flow(t, k, o, u) /\ SeenAll(t, k, u) /\ u[k] = ps

\* The flow through writers up to a place does not depend on those above it.
LEMMA FlowCut ==
  ASSUME NEW s, NEW t, NEW n \in Nat, NEW k \in 0 .. n, NEW o, NEW v,
         Flow(s, n, o, v), SeenAll(s, n, v), SameTo(s, t, k)
  PROVE  CutOff(t, k, o, v[k])
<1>0. \A i \in 1 .. k : t[i] = s[i] BY DEF SameTo
<1> DEFINE u == [i \in 0 .. k |-> v[i]]
<1>1. /\ \A i \in 0 .. k : i \in 0 .. n
      /\ \A i \in 1 .. k : i \in 1 .. n /\ i \in 0 .. k /\ i - 1 \in 0 .. k
      /\ k \in Nat /\ k \in 0 .. k /\ 0 \in 0 .. k
  OBVIOUS
<1>2. /\ v \in [0 .. n -> Seq(PieceSet)] /\ v[0] = o
      /\ \A i \in 1 .. n : v[i] = v[i - 1] \o Lifted(s, i - 1, s[i].held)
      /\ \A i \in 1 .. n : Kind(s[i]) \in Hashing => MadeOver(v[i], s[i].seen, s[i].id)
  BY DEF Flow, SeenAll
<1>3. u \in [0 .. k -> Seq(PieceSet)] /\ \A i \in 0 .. k : u[i] = v[i] BY <1>1, <1>2
<1>4. \A i \in 0 .. k : Lifted(t, i, t[i + 1].held) = Lifted(s, i, t[i + 1].held)
 <2>1. \A i \in 1 .. k : t[i].id = s[i].id BY <1>0
 <2>2. SameIdsTo(s, t, k) BY <1>1, <2>1, SameIds
 <2> QED BY <2>2 DEF Lifted, SameIdsTo
<1> HIDE DEF u
<1>5. ASSUME NEW i \in 1 .. k PROVE u[i] = u[i - 1] \o Lifted(t, i - 1, t[i].held)
 <2>1. Lifted(t, i - 1, t[(i - 1) + 1].held) = Lifted(s, i - 1, t[(i - 1) + 1].held)
   BY <1>1, <1>4
 <2>2. (i - 1) + 1 = i OBVIOUS
 <2>3. Lifted(t, i - 1, t[i].held) = Lifted(s, i - 1, s[i].held) BY <1>0, <2>1, <2>2
 <2> QED BY <1>1, <1>2, <1>3, <2>3
<1>6. Flow(t, k, o, u) BY <1>1, <1>2, <1>3, <1>5 DEF Flow
<1>7. SeenAll(t, k, u)
 <2>1. ASSUME NEW i \in 1 .. k, Kind(t[i]) \in Hashing PROVE MadeOver(u[i], t[i].seen, t[i].id)
   BY <1>0, <1>1, <1>2, <1>3, <2>1
 <2> QED BY <2>1 DEF SeenAll
<1> QED BY <1>1, <1>3, <1>6, <1>7 DEF CutOff

\* Sequence t is s with w on top.
Plus(s, w, t) ==
  /\ t \in Seq(WriterSet) /\ Len(t) = Len(s) + 1
  /\ (\A i \in 1 .. Len(s) : t[i] = s[i]) /\ t[Len(s) + 1] = w

\* A writer at the end of a stack is on top of it.
LEMMA PlusOne ==
  ASSUME NEW s \in Seq(WriterSet), NEW w \in WriterSet PROVE Plus(s, w, s \o <<w>>)
<1> DEFINE n == Len(s)
           t == s \o <<w>>
<1>1. n \in Nat OBVIOUS
<1>2. <<w>> \in Seq(WriterSet) /\ Len(<<w>>) = 1 /\ <<w>>[1] = w OBVIOUS
<1>3. /\ t \in Seq(WriterSet) /\ Len(t) = n + 1
      /\ \A i \in 1 .. n + 1 : t[i] = IF i <= n THEN s[i] ELSE <<w>>[i - n]
  BY <1>2, ConcatProperties
<1> HIDE DEF n, t
<1>4. (\A i \in 1 .. n : t[i] = s[i]) /\ t[n + 1] = w BY <1>1, <1>2, <1>3
<1> QED BY <1>3, <1>4 DEF n, t, Plus

\* Two writers at the end of a stack are on top of it one after the other.
LEMMA PlusTwo ==
  ASSUME NEW s \in Seq(WriterSet), NEW w \in WriterSet, NEW x \in WriterSet
  PROVE  \E t : Plus(s, w, t) /\ Plus(t, x, s \o <<w, x>>)
<1> DEFINE n == Len(s)
           r == s \o <<w, x>>
           t == [i \in 1 .. n + 1 |-> r[i]]
<1>1. n \in Nat OBVIOUS
<1>2. <<w, x>> \in Seq(WriterSet) /\ Len(<<w, x>>) = 2 /\ <<w, x>>[1] = w /\ <<w, x>>[2] = x
  OBVIOUS
<1>3. /\ r \in Seq(WriterSet) /\ Len(r) = n + 2
      /\ \A i \in 1 .. n + 2 : r[i] = IF i <= n THEN s[i] ELSE <<w, x>>[i - n]
  BY <1>2, ConcatProperties
<1>4. \A i \in 1 .. n : s[i] \in WriterSet OBVIOUS
<1> HIDE DEF n, r
<1>5. (\A i \in 1 .. n : r[i] = s[i]) /\ r[n + 1] = w /\ r[n + 2] = x
 <2>1. /\ \A i \in 1 .. n : i \in 1 .. n + 2 /\ i <= n
       /\ n + 1 \in 1 .. n + 2 /\ ~(n + 1 <= n) /\ (n + 1) - n = 1
       /\ n + 2 \in 1 .. n + 2 /\ ~(n + 2 <= n) /\ (n + 2) - n = 2
   BY <1>1
 <2>2. r[n + 1] = <<w, x>>[(n + 1) - n] /\ r[n + 2] = <<w, x>>[(n + 2) - n] BY <1>1, <1>3, <2>1
 <2> QED BY <1>2, <1>3, <2>1, <2>2
<1>6. /\ t \in Seq(WriterSet) /\ Len(t) = n + 1 /\ (\A i \in 1 .. n : t[i] = s[i])
      /\ t[n + 1] = w /\ \A i \in 1 .. n + 1 : t[i] = r[i]
 <2>1. \A i \in 1 .. n + 1 : i \in 1 .. n \/ i = n + 1 BY <1>1
 <2>2. /\ \A i \in 1 .. n : i \in 1 .. n + 1
       /\ n + 1 \in 1 .. n + 1 /\ n + 1 \in Nat
   BY <1>1
 <2>3. \A i \in 1 .. n + 1 : t[i] = r[i] /\ r[i] \in WriterSet BY <1>4, <1>5, <2>1
 <2>4. t \in [1 .. n + 1 -> WriterSet] BY <2>3
 <2>5. t \in Seq(WriterSet) /\ Len(t) = n + 1
  <3> HIDE DEF t
  <3> QED BY <2>2, <2>4
 <2> HIDE DEF t
 <2> QED BY <1>5, <2>2, <2>3, <2>5
<1> HIDE DEF t
<1>7. (n + 1) + 1 = n + 2 BY <1>1
<1>8. Plus(s, w, t) /\ Plus(t, x, r) BY <1>3, <1>5, <1>6, <1>7 DEF Plus, n
<1> QED BY <1>8 DEF r

\* A writer on top adds its name to the names of the stack.
LEMMA PlusIds ==
  ASSUME NEW s \in Seq(WriterSet), NEW w, NEW t, Plus(s, w, t)
  PROVE  /\ Ids(t, Len(t)) = Ids(s, Len(s)) \cup {w.id}
         /\ SignIds(t) = SignIds(s) \cup IF Kind(w) = "sign" THEN {w.id} ELSE {}
<1> DEFINE n == Len(s)
<1>1. n \in Nat OBVIOUS
<1>3. t \in Seq(WriterSet) /\ Len(t) = n + 1 BY DEF Plus
<1>4. (\A i \in 1 .. n : t[i] = s[i]) /\ t[n + 1] = w BY DEF Plus
<1> HIDE DEF n
<1>5. /\ \A i \in 1 .. n : i \in 1 .. n + 1
      /\ \A i \in 1 .. n + 1 : i \in 1 .. n \/ i = n + 1
      /\ n + 1 \in 1 .. n + 1
  BY <1>1
<1>6. Ids(t, n + 1) = Ids(s, n) \cup {w.id} BY <1>4, <1>5 DEF Ids
<1>7. SignIds(t) = SignIds(s) \cup IF Kind(w) = "sign" THEN {w.id} ELSE {}
 <2>1. SignIds(t) = {t[j].id : j \in {i \in 1 .. n + 1 : Kind(t[i]) = "sign"}}
   BY <1>3 DEF SignIds
 <2>2. SignIds(s) = {s[j].id : j \in {i \in 1 .. n : Kind(s[i]) = "sign"}} BY DEF SignIds, n
 <2>3. CASE Kind(w) = "sign"
  <3>1. {i \in 1 .. n + 1 : Kind(t[i]) = "sign"} = {i \in 1 .. n : Kind(s[i]) = "sign"} \cup {n + 1}
    BY <1>4, <1>5, <2>3
  <3> QED BY <1>4, <2>1, <2>2, <2>3, <3>1
 <2>4. CASE Kind(w) # "sign"
  <3>1. {i \in 1 .. n + 1 : Kind(t[i]) = "sign"} = {i \in 1 .. n : Kind(s[i]) = "sign"}
    BY <1>4, <1>5, <2>4
  <3> QED BY <1>4, <2>1, <2>2, <2>4, <3>1
 <2> QED BY <2>3, <2>4
<1> QED BY <1>3, <1>6, <1>7 DEF n

\* A writer on top of all others, with what it holds at first.
LEMMA FlowPushOne ==
  ASSUME NEW s \in Seq(WriterSet), NEW w \in WriterSet, NEW o, NEW v, NEW t, Plus(s, w, t),
         Flow(s, Len(s), o, v), SeenAll(s, Len(s), v),
         Kind(w) \in Hashing => MadeOver(Behind(v, s, Len(s), w.held), w.seen, w.id)
  PROVE  \E u : /\ Flow(t, Len(t), o, u) /\ SeenAll(t, Len(t), u)
                /\ u[Len(t)] = Behind(v, s, Len(s), w.held)
<1> DEFINE n == Len(s)
           ps == v[n] \o Lifted(s, n, w.held)
           u == [i \in 0 .. n + 1 |-> IF i = n + 1 THEN ps ELSE v[i]]
<1>0. ps \in Seq(PieceSet)
 <2>1. n \in 0 .. n /\ w.held \in Seq(PieceSet) BY DEF WriterSet
 <2>2. v[n] \in Seq(PieceSet) /\ Lifted(s, n, w.held) \in Seq(PieceSet)
   BY <2>1, LiftedFacts DEF Flow
 <2> QED BY <2>2, ConcatProperties
<1>1. /\ n \in Nat /\ t \in Seq(WriterSet) /\ Len(t) = n + 1
      /\ (\A i \in 1 .. n : t[i] = s[i]) /\ t[n + 1] = w
  BY DEF Plus
<1>2. /\ v \in [0 .. n -> Seq(PieceSet)] /\ v[0] = o
      /\ \A i \in 1 .. n : v[i] = v[i - 1] \o Lifted(s, i - 1, s[i].held)
      /\ \A i \in 1 .. n : Kind(s[i]) \in Hashing => MadeOver(v[i], s[i].seen, s[i].id)
  BY DEF Flow, SeenAll
<1>3. \A k \in 0 .. n : \A qs : Lifted(t, k, qs) = Lifted(s, k, qs)
 <2>1. \A i \in 1 .. n : t[i].id = s[i].id BY <1>1
 <2>2. SameIdsTo(s, t, n) BY <1>1, <2>1, SameIds
 <2> QED BY <2>2 DEF Lifted, SameIdsTo
<1>4. ps = v[n] \o Lifted(t, n, w.held)
 <2>1. n \in 0 .. n BY <1>1
 <2> QED BY <1>3, <2>1
<1> HIDE DEF n, ps
<1>5. /\ \A i \in 1 .. n + 1 : i \in 1 .. n \/ i = n + 1
      /\ \A i \in 1 .. n : i \in 0 .. n /\ i - 1 \in 0 .. n /\ i \in 0 .. n + 1 /\ i - 1 \in 0 .. n + 1
      /\ \A i \in 0 .. n : i \in 0 .. n + 1 /\ i # n + 1
      /\ \A i \in 0 .. n + 1 : i \in 0 .. n \/ i = n + 1
      /\ n + 1 \in 0 .. n + 1 /\ n \in 0 .. n /\ 0 \in 0 .. n /\ (n + 1) - 1 = n
  BY <1>1
<1>6. /\ u \in [0 .. n + 1 -> Seq(PieceSet)] /\ u[n + 1] = ps
      /\ \A i \in 0 .. n : u[i] = v[i]
  BY <1>0, <1>2, <1>5
<1> HIDE DEF u
<1>7. ASSUME NEW i \in 1 .. n + 1 PROVE u[i] = u[i - 1] \o Lifted(t, i - 1, t[i].held)
 <2>1. CASE i \in 1 .. n
  <3>1. u[i] = v[i] /\ u[i - 1] = v[i - 1] /\ t[i] = s[i]
        /\ v[i] = v[i - 1] \o Lifted(s, i - 1, s[i].held)
    BY <1>1, <1>2, <1>5, <1>6, <2>1
  <3>2. Lifted(t, i - 1, s[i].held) = Lifted(s, i - 1, s[i].held) BY <1>3, <1>5, <2>1
  <3> QED BY <3>1, <3>2
 <2>2. CASE i = n + 1
  <3>1. u[i] = ps /\ i - 1 = n /\ u[n] = v[n] /\ t[i] = w BY <1>1, <1>5, <1>6, <2>2
  <3> QED BY <1>4, <3>1
 <2> QED BY <1>5, <2>1, <2>2
<1>8. Flow(t, n + 1, o, u) BY <1>2, <1>5, <1>6, <1>7 DEF Flow
<1>9. SeenAll(t, n + 1, u)
 <2>1. ASSUME NEW i \in 1 .. n + 1, Kind(t[i]) \in Hashing PROVE MadeOver(u[i], t[i].seen, t[i].id)
  <3>1. CASE i \in 1 .. n BY <1>1, <1>2, <1>5, <1>6, <2>1, <3>1
  <3>2. CASE i = n + 1 BY <1>1, <1>6, <2>1, <3>2 DEF n, ps, Behind
  <3> QED BY <1>5, <3>1, <3>2
 <2> QED BY <2>1 DEF SeenAll
<1> QED BY <1>1, <1>6, <1>8, <1>9 DEF n, ps, Behind

\* A writer that holds nothing.
Bare(w) == w.held = <<>>

\* Two of them, as most functions push them.
LEMMA FlowPushTwo ==
  ASSUME NEW s \in Seq(WriterSet), NEW w \in WriterSet, NEW x \in WriterSet, NEW o, NEW v,
         NEW t, Plus(s, w, t), NEW r, Plus(t, x, r),
         Flow(s, Len(s), o, v), SeenAll(s, Len(s), v),
         Bare(x), Kind(w) \notin Hashing,
         Kind(x) \in Hashing => MadeOver(Behind(v, s, Len(s), w.held), x.seen, x.id)
  PROVE  \E u : /\ Flow(r, Len(r), o, u) /\ SeenAll(r, Len(r), u)
                /\ u[Len(r)] = Behind(v, s, Len(s), w.held)
<1>1. Len(s) \in Nat /\ t \in Seq(WriterSet) /\ Len(t) \in Nat /\ Len(t) \in 0 .. Len(t)
  BY DEF Plus
<1>2. PICK u : /\ Flow(t, Len(t), o, u) /\ SeenAll(t, Len(t), u)
               /\ u[Len(t)] = Behind(v, s, Len(s), w.held)
  BY FlowPushOne
<1>3. Behind(u, t, Len(t), x.held) = u[Len(t)]
 <2>1. Lifted(t, Len(t), x.held) = <<>> BY <1>1, LiftedOfNone DEF Bare
 <2>2. u[Len(t)] \in Seq(PieceSet) BY <1>1, <1>2 DEF Flow
 <2> QED BY <2>1, <2>2, ConcatEmptySeq DEF Behind
<1>4. \E z : /\ Flow(r, Len(r), o, z) /\ SeenAll(r, Len(r), z)
             /\ z[Len(r)] = Behind(u, t, Len(t), x.held)
 <2>1. Kind(x) \in Hashing =>
         MadeOver(Behind(u, t, Len(t), x.held), x.seen, x.id)
   BY <1>2, <1>3
 <2>2. t \in Seq(WriterSet) BY <1>1
 <2> QED BY <1>2, <2>1, <2>2, FlowPushOne
<1> QED BY <1>2, <1>3, <1>4

-----------------------------------------------------------------------------
(* What is out is the first of all that has been written. *)

Starts(ps, qs) == Len(ps) <= Len(qs) /\ \A k \in 1 .. Len(ps) : ps[k] = qs[k]

\* What is the start of a run is the start of all that goes on from it.
LEMMA StartsConcat ==
  ASSUME NEW ps \in Seq(PieceSet), NEW qs \in Seq(PieceSet), NEW xs \in Seq(PieceSet),
         Starts(ps, qs)
  PROVE  Starts(ps, qs \o xs) /\ Starts(ps, ps)
<1> DEFINE r == qs \o xs
<1>1. /\ r \in Seq(PieceSet) /\ Len(r) = Len(qs) + Len(xs)
      /\ \A i \in 1 .. Len(qs) + Len(xs) : r[i] = IF i <= Len(qs) THEN qs[i] ELSE xs[i - Len(qs)]
  BY ConcatProperties
<1>2. Len(qs) \in Nat /\ Len(xs) \in Nat /\ Len(ps) \in Nat OBVIOUS
<1> HIDE DEF r
<1>3. Len(ps) <= Len(r) BY <1>1, <1>2 DEF Starts
<1>4. ASSUME NEW k \in 1 .. Len(ps) PROVE ps[k] = r[k]
 <2>1. k \in 1 .. Len(qs) + Len(xs) /\ k <= Len(qs) /\ ps[k] = qs[k] BY <1>2 DEF Starts
 <2> QED BY <1>1, <2>1
<1>5. Starts(ps, r) BY <1>3, <1>4 DEF Starts
<1>6. Starts(ps, ps) BY <1>2 DEF Starts
<1> QED BY <1>5, <1>6 DEF r

\* What is out is the start of what has been written.
LEMMA FlowStarts ==
  ASSUME NEW s \in Seq(WriterSet), NEW n \in 0 .. Len(s), NEW o \in Seq(PieceSet), NEW v,
         Flow(s, n, o, v)
  PROVE  \A i \in 0 .. n : Starts(o, v[i])
<1> DEFINE B == {i \in 0 .. n : ~Starts(o, v[i])}
<1>1. n \in Nat OBVIOUS
<1>2. SUFFICES ASSUME B # {} PROVE FALSE OBVIOUS
<1>3. PICK i \in B : \A m \in B : i <= m
 <2>1. B \subseteq Nat BY <1>1
 <2> HIDE DEF B
 <2> QED BY <1>2, <2>1, Least
<1>4. /\ v \in [0 .. n -> Seq(PieceSet)] /\ v[0] = o
      /\ \A k \in 1 .. n : v[k] = v[k - 1] \o Lifted(s, k - 1, s[k].held)
  BY DEF Flow
<1>5. i # 0
 <2>1. Starts(o, o) BY StartsConcat, EmptySeq DEF Starts
 <2> QED BY <1>3, <1>4, <2>1
<1>6. /\ i \in 0 .. n /\ i \in 1 .. n /\ i - 1 \in 0 .. n /\ i - 1 < i /\ ~Starts(o, v[i])
      /\ i - 1 \in 0 .. Len(s) /\ i \in 1 .. Len(s)
  BY <1>1, <1>3, <1>5
<1>7. Starts(o, v[i - 1])
 <2>1. i - 1 \notin B
  <3>1. ~(i <= i - 1) BY <1>6
  <3> HIDE DEF B
  <3> QED BY <1>3, <3>1
 <2> QED BY <1>6, <2>1
<1>8. s[i].held \in Seq(PieceSet)
 <2>1. s[i] \in WriterSet BY <1>6
 <2> QED BY <2>1 DEF WriterSet
<1> HIDE DEF B
<1>9. Lifted(s, i - 1, s[i].held) \in Seq(PieceSet) BY <1>6, <1>8, LiftedFacts
<1>10. Starts(o, v[i - 1] \o Lifted(s, i - 1, s[i].held))
 <2>1. v[i - 1] \in Seq(PieceSet) BY <1>4, <1>6
 <2> QED BY <1>7, <1>9, <2>1, StartsConcat
<1>11. v[i] = v[i - 1] \o Lifted(s, i - 1, s[i].held) BY <1>4, <1>6
<1> QED BY <1>6, <1>10, <1>11

\* Pieces that do not go through a writer are not counted.
LEMMA GoneStill ==
  ASSUME NEW qs, NEW id, NEW m \in Nat, NEW n \in 0 .. m,
         \A j \in n + 1 .. m : id \notin qs[j].through
  PROVE  Gone(qs, id, m) = Gone(qs, id, n)
<1>1. \A j \in 1 .. m : j \in 1 .. n \/ j \in n + 1 .. m OBVIOUS
<1>2. \A j \in 1 .. n : j \in 1 .. m OBVIOUS
<1>3. {j \in 1 .. m : id \in qs[j].through} = {j \in 1 .. n : id \in qs[j].through} BY <1>1, <1>2
<1> QED BY <1>3 DEF Gone

\* What is in order in all that has been written is in order in what is out of it.
LEMMA GoodStarts ==
  ASSUME NEW ps \in Seq(PieceSet), NEW qs \in Seq(PieceSet), Starts(ps, qs),
         Framed(qs), Covering(qs), SecretsOnly(qs), Shut(qs)
  PROVE  Framed(ps) /\ Covering(ps) /\ SecretsOnly(ps)
<1> DEFINE n == Len(ps)
           m == Len(qs)
<1>1. /\ n \in Nat /\ m \in Nat /\ n <= m /\ DOMAIN ps = 1 .. n /\ DOMAIN qs = 1 .. m
      /\ \A k \in 1 .. n : ps[k] = qs[k]
  BY DEF Starts
<1> HIDE DEF n, m
<1>2. /\ \A k \in 1 .. n : k \in 1 .. m
      /\ \A k \in 1 .. m : k \in 1 .. n \/ k \in n + 1 .. m
      /\ \A k \in n + 1 .. m : k \in 1 .. m /\ \A i \in 1 .. n : i < k
      /\ n \in 0 .. m
  BY <1>1
<1>3. \A id : Ends(ps, id) = Ends(qs, id) \cap (1 .. n) BY <1>1, <1>2 DEF Ends
<1>4. Framed(ps)
 <2>1. ASSUME NEW h \in 1 .. n, NEW i \in 1 .. n, ps[h].what = "header"
       PROVE  /\ ps[h].by \in ps[i].through => Between(ps, i, h, ps[h].by)
              /\ Between(ps, i, h, ps[h].by)
                   /\ (ps[h].by[1] # "dash" \/ Ends(ps, ps[h].by) # {}) =>
                   ps[h].by \in ps[i].through
  <3> DEFINE id == ps[h].by
  <3>1. Between(ps, i, h, id) <=> Between(qs, i, h, id)
   <4>1. \A e \in Ends(qs, id) : e \in Ends(ps, id) \/ i < e BY <1>1, <1>2, <1>3 DEF Ends
   <4>2. \A e \in Ends(ps, id) : e \in Ends(qs, id) BY <1>3
   <4> HIDE DEF id
   <4> QED BY <4>1, <4>2 DEF Between
  <3>2. Ends(ps, id) # {} => Ends(qs, id) # {} BY <1>3
  <3>3. qs[h] = ps[h] /\ qs[i] = ps[i] /\ h \in 1 .. m /\ i \in 1 .. m BY <1>1, <1>2
  <3>4. /\ id \in qs[i].through => Between(qs, i, h, id)
        /\ Between(qs, i, h, id) /\ (id[1] # "dash" \/ Ends(qs, id) # {}) => id \in qs[i].through
    BY <1>1, <2>1, <3>3 DEF Framed
  <3> QED BY <3>1, <3>2, <3>3, <3>4
 <2> QED BY <1>1, <2>1 DEF Framed
<1>5. Covering(ps)
 <2>1. ASSUME NEW k \in 1 .. n, Closing(ps[k]), ps[k].by[1] \in Hashing
       PROVE  MadeOver(ps, ps[k].seen, ps[k].by)
  <3> DEFINE id == ps[k].by
             seen == ps[k].seen
  <3>1. qs[k] = ps[k] /\ k \in 1 .. m BY <1>1, <1>2
  <3>2. MadeOver(qs, seen, id) BY <1>1, <2>1, <3>1 DEF Covering, Closing
  <3>3. \A j \in n + 1 .. m : id \notin qs[j].through
   <4>1. \A j \in n + 1 .. m : j \in 1 .. m /\ k <= j BY <1>1, <1>2
   <4> QED BY <1>1, <2>1, <3>1, <4>1 DEF Shut
  <3> HIDE DEF id, seen
  <3>4. Gone(qs, id, m) = Gone(qs, id, n) BY <1>1, <1>2, <3>3, GoneStill
  <3>5. \A j \in 0 .. n : Gone(ps, id, j) = Gone(qs, id, j)
   <4>1. ASSUME NEW j \in 0 .. n PROVE Gone(ps, id, j) = Gone(qs, id, j)
    <5>1. j \in Nat /\ \A i \in 1 .. j : i \in 1 .. n BY <1>1
    <5>2. \A i \in 1 .. j : ps[i].through = qs[i].through BY <1>1, <5>1
    <5> QED BY <5>1, <5>2, GonePrefix
   <4> QED BY <4>1
  <3>6. n \in 0 .. n /\ \A j \in 1 .. n : j \in 0 .. n BY <1>1
  <3>7. Len(seen) = Len(Before(id)) + Gone(ps, id, n) BY <3>2, <3>4, <3>5, <3>6 DEF MadeOver, m
  <3>8. \A j \in 1 .. n : id \in ps[j].through =>
          seen[Len(Before(id)) + Gone(ps, id, j)] = Name(ps[j])
    BY <1>1, <1>2, <3>2, <3>5, <3>6 DEF MadeOver
  <3>9. MadeOver(ps, seen, id) BY <1>1, <3>2, <3>7, <3>8 DEF MadeOver, n
  <3> QED BY <3>9 DEF id, seen
 <2> QED BY <1>1, <2>1 DEF Covering, Closing
<1>6. SecretsOnly(ps) BY <1>1, <1>2 DEF SecretsOnly
<1> QED BY <1>4, <1>5, <1>6

\* When no writer is left all have ended.
LEMMA AllEnded ==
  ASSUME NEW ps, WillEnd(ps, {}), WillSign(ps, {}), EndOnce(ps) PROVE Ended(ps)
<1>1. ASSUME NEW k \in DOMAIN ps, NEW id \in ps[k].through \cup {ps[k].by}, id[1] \in Finalised
      PROVE  Cardinality(Ends(ps, id)) = 1
 <2>1. Ends(ps, id) # {} BY <1>1 DEF WillEnd
 <2>2. PICK e : e \in Ends(ps, id) BY <2>1
 <2>3. \A f \in Ends(ps, id) : f = e BY <2>2 DEF EndOnce, Ends
 <2>4. Ends(ps, id) = {e} BY <2>2, <2>3
 <2> QED BY <2>4, FS_Singleton
<1>2. ASSUME NEW k \in DOMAIN ps, NEW id \in ps[k].through \cup {ps[k].by}, id[1] = "sign"
      PROVE  \E j \in DOMAIN ps : ps[j].what = "signature" /\ ps[j].by = id
  BY <1>2 DEF WillSign, Signs
<1> QED BY <1>1, <1>2 DEF Ended

-----------------------------------------------------------------------------
(* The stack of writers under what the functions do to it. *)

\* A stack stays well formed when writes change what is held and seen.
LEMMA StackedLike ==
  ASSUME NEW s, NEW m \in Nat, NEW live \in Nat, NEW top \in Nat, top <= live, NEW t,
         Stacked(s, m, live), Like(s, t, top)
  PROVE  Stacked(t, m, live)
<1> DEFINE n == Len(s)
<1>1. /\ s \in Seq(WriterSet) /\ n \in Nat /\ t \in Seq(WriterSet) /\ Len(t) = n
      /\ \A i \in 1 .. n :
           /\ t[i].id = s[i].id /\ t[i].pending = s[i].pending
           /\ t[i].held # <<>> => s[i].held # <<>> \/ (i <= top /\ Kind(s[i]) \in Buffering)
  BY DEF Stacked, Like
<1>2. n >= 1 /\ n <= m + 1 /\ Kind(s[1]) = "base" BY DEF Stacked
<1>3. \A i \in 1 .. n :
       /\ s[i].id[2] <= m
       /\ s[i].held # <<>> => Kind(s[i]) \in Buffering /\ s[i].pending
       /\ s[i].pending <=> i <= live /\ Kind(s[i]) \in Finalised
       /\ Kind(s[i]) = "sign" => i > 1 /\ s[i - 1].id = <<"partial", s[i].id[2] - 1>>
  BY DEF Stacked
<1>4. \A i, j \in 1 .. n : i < j => t[i].id[2] < t[j].id[2] BY <1>1 DEF Stacked
<1> HIDE DEF n
<1>5. \A i \in 1 .. n : Kind(t[i]) = Kind(s[i]) BY <1>1 DEF Kind
<1>6. ASSUME NEW i \in 1 .. n
      PROVE  /\ t[i].id[2] <= m
             /\ t[i].held # <<>> => Kind(t[i]) \in Buffering /\ t[i].pending
             /\ t[i].pending <=> i <= live /\ Kind(t[i]) \in Finalised
             /\ Kind(t[i]) = "sign" => i > 1 /\ t[i - 1].id = <<"partial", t[i].id[2] - 1>>
 <2>1. t[i].id[2] <= m /\ (t[i].pending <=> i <= live /\ Kind(t[i]) \in Finalised)
   BY <1>1, <1>3, <1>5
 <2>2. Kind(s[i]) \in Buffering => Kind(s[i]) \in Finalised BY DEF Buffering, Finalised
 <2>3. i <= top => i <= live BY <1>1
 <2>4. t[i].held # <<>> => Kind(t[i]) \in Buffering /\ t[i].pending
   BY <1>1, <1>3, <1>5, <2>2, <2>3
 <2>5. ASSUME Kind(t[i]) = "sign"
       PROVE  i > 1 /\ t[i - 1].id = <<"partial", t[i].id[2] - 1>>
  <3>1. i > 1 /\ s[i - 1].id = <<"partial", s[i].id[2] - 1>> BY <1>3, <1>5, <2>5
  <3>2. i - 1 \in 1 .. n BY <1>1, <3>1
  <3>3. t[i - 1].id = s[i - 1].id /\ t[i].id = s[i].id BY <1>1, <3>2
  <3> QED BY <3>1, <3>3
 <2> QED BY <2>1, <2>4, <2>5
<1>7. Kind(t[1]) = "base" BY <1>1, <1>2, <1>5
<1> QED BY <1>1, <1>2, <1>4, <1>6, <1>7 DEF Stacked, n

\* A stack stays well formed when the next writer is pushed.
LEMMA StackedPlus ==
  ASSUME NEW s, NEW m \in Nat, NEW w \in WriterSet, NEW t, Plus(s, w, t),
         Stacked(s, m, Len(s)), w.id[2] = m + 1, w.pending <=> Kind(w) \in Finalised,
         w.held # <<>> => Kind(w) \in Buffering,
         Kind(w) = "sign" => s[Len(s)].id = <<"partial", m>>
  PROVE  Stacked(t, m + 1, Len(t))
<1> DEFINE n == Len(s)
<1>1. /\ s \in Seq(WriterSet) /\ n \in Nat /\ t \in Seq(WriterSet) /\ Len(t) = n + 1
      /\ (\A i \in 1 .. n : t[i] = s[i]) /\ t[n + 1] = w
  BY DEF Stacked, Plus
<1>2. n >= 1 /\ n <= m + 1 /\ Kind(s[1]) = "base" BY DEF Stacked
<1>3. \A i \in 1 .. n :
       /\ s[i].id[2] <= m
       /\ s[i].held # <<>> => Kind(s[i]) \in Buffering /\ s[i].pending
       /\ s[i].pending <=> i <= n /\ Kind(s[i]) \in Finalised
       /\ Kind(s[i]) = "sign" => i > 1 /\ s[i - 1].id = <<"partial", s[i].id[2] - 1>>
  BY DEF Stacked
<1>4. \A i, j \in 1 .. n : i < j => s[i].id[2] < s[j].id[2] BY DEF Stacked
<1>5. \A i \in 1 .. n : s[i].id[2] \in Nat
 <2>1. \A i \in 1 .. n : s[i] \in WriterSet BY <1>1
 <2>2. \A i \in 1 .. n : s[i].id \in WriterIds BY <2>1 DEF WriterSet
 <2> QED BY <2>2, IdFacts
<1>6. Kind(w) = "sign" => s[n].id = <<"partial", m>> OBVIOUS
<1> HIDE DEF n
<1>7. /\ \A i \in 1 .. n + 1 : i \in 1 .. n \/ i = n + 1
      /\ \A i \in 1 .. n : i <= n /\ i <= n + 1 /\ ~(n + 1 < i)
      /\ 1 \in 1 .. n /\ (n + 1) - 1 = n /\ n + 1 > 1 /\ n + 1 <= n + 1 /\ ~(n + 1 < n + 1)
  BY <1>1, <1>2
<1>8. ASSUME NEW i \in 1 .. n + 1, NEW j \in 1 .. n + 1, i < j PROVE t[i].id[2] < t[j].id[2]
 <2>1. i \in 1 .. n BY <1>7, <1>8
 <2>2. CASE j \in 1 .. n BY <1>1, <1>4, <1>8, <2>1, <2>2
 <2>3. CASE j = n + 1
  <3>1. t[i] = s[i] /\ t[j] = w /\ s[i].id[2] <= m /\ s[i].id[2] \in Nat
    BY <1>1, <1>3, <1>5, <2>1, <2>3
  <3> QED BY <3>1
 <2> QED BY <1>7, <2>2, <2>3
<1>9. ASSUME NEW i \in 1 .. n + 1
      PROVE  /\ t[i].id[2] <= m + 1
             /\ t[i].held # <<>> => Kind(t[i]) \in Buffering /\ t[i].pending
             /\ t[i].pending <=> i <= n + 1 /\ Kind(t[i]) \in Finalised
             /\ Kind(t[i]) = "sign" => i > 1 /\ t[i - 1].id = <<"partial", t[i].id[2] - 1>>
 <2>1. CASE i \in 1 .. n
  <3>1. t[i] = s[i] BY <1>1, <2>1
  <3>2. t[i].id[2] <= m + 1 BY <1>3, <1>5, <2>1, <3>1
  <3>3. i > 1 => t[i - 1] = s[i - 1]
   <4>1. i > 1 => i - 1 \in 1 .. n BY <1>1, <2>1
   <4> QED BY <1>1, <4>1
  <3> QED BY <1>3, <1>7, <2>1, <3>1, <3>2, <3>3
 <2>2. CASE i = n + 1
  <3>1. t[i] = w BY <1>1, <2>2
  <3>2. w.held # <<>> => Kind(w) \in Buffering /\ w.pending BY DEF Buffering, Finalised
  <3>3. t[i].id[2] = m + 1 /\ m + 1 <= m + 1 /\ (m + 1) - 1 = m BY <3>1
  <3>4. Kind(w) = "sign" => t[i - 1].id = <<"partial", m>>
   <4>1. i - 1 = n /\ n \in 1 .. n BY <1>1, <1>2, <2>2
   <4>2. t[i - 1] = s[n] BY <1>1, <4>1
   <4> QED BY <1>6, <4>2
  <3> QED BY <1>7, <2>2, <3>1, <3>2, <3>3, <3>4
 <2> QED BY <1>7, <2>1, <2>2
<1>10. Len(t) >= 1 /\ Kind(t[1]) = "base" /\ Len(t) <= (m + 1) + 1 BY <1>1, <1>2, <1>7
<1> QED BY <1>1, <1>8, <1>9, <1>10 DEF Stacked

\* Taking the writer on top away.
LEMMA FrontFacts ==
  ASSUME NEW s \in Seq(WriterSet), Len(s) >= 1
  PROVE  /\ Front(s) \in Seq(WriterSet) /\ Len(Front(s)) = Len(s) - 1
         /\ \A i \in 1 .. Len(s) - 1 : Front(s)[i] = s[i]
<1> DEFINE n == Len(s) - 1
<1>1. n \in Nat /\ n <= Len(s) /\ 1 \in Int /\ \A i \in 1 .. n : s[i] \in WriterSet OBVIOUS
<1> HIDE DEF n
<1>2. /\ SubSeq(s, 1, n) \in Seq(WriterSet) /\ Len(SubSeq(s, 1, n)) = n
      /\ \A i \in 1 .. n : SubSeq(s, 1, n)[i] = s[i]
  BY <1>1
<1> QED BY <1>2 DEF Front, n

\* A stack stays well formed when the writer on top is taken away.
LEMMA StackedFront ==
  ASSUME NEW s, NEW m \in Nat, NEW live \in Nat, NEW now \in Nat, Stacked(s, m, live),
         Len(s) >= 2,
         \A i \in 1 .. Len(s) - 1 : Kind(s[i]) \in Finalised => (i <= live <=> i <= now)
  PROVE  Stacked(Front(s), m, now)
<1> DEFINE n == Len(s) - 1
           t == Front(s)
<1>1. /\ s \in Seq(WriterSet) /\ Len(s) = n + 1 /\ n \in Nat /\ n >= 1 /\ n <= m
      /\ Kind(s[1]) = "base"
  BY DEF Stacked
<1>2. \A i \in 1 .. Len(s) :
       /\ s[i].id[2] <= m
       /\ s[i].held # <<>> => Kind(s[i]) \in Buffering /\ s[i].pending
       /\ s[i].pending <=> i <= live /\ Kind(s[i]) \in Finalised
       /\ Kind(s[i]) = "sign" => i > 1 /\ s[i - 1].id = <<"partial", s[i].id[2] - 1>>
  BY DEF Stacked
<1>3. \A i, j \in 1 .. Len(s) : i < j => s[i].id[2] < s[j].id[2] BY DEF Stacked
<1>4. /\ t \in Seq(WriterSet) /\ Len(t) = n /\ \A i \in 1 .. n : t[i] = s[i]
 <2>1. s \in Seq(WriterSet) /\ Len(s) >= 1 BY <1>1
 <2> QED BY <2>1, FrontFacts
<1>5. \A i \in 1 .. n : Kind(s[i]) \in Finalised => (i <= live <=> i <= now) OBVIOUS
<1> HIDE DEF n, t
<1>6. (\A i \in 1 .. n : i \in 1 .. Len(s)) /\ 1 \in 1 .. n /\ n <= m + 1 BY <1>1
<1>7. ASSUME NEW i \in 1 .. n
      PROVE  /\ t[i].id[2] <= m
             /\ t[i].held # <<>> => Kind(t[i]) \in Buffering /\ t[i].pending
             /\ t[i].pending <=> i <= now /\ Kind(t[i]) \in Finalised
             /\ Kind(t[i]) = "sign" => i > 1 /\ t[i - 1].id = <<"partial", t[i].id[2] - 1>>
 <2>1. i > 1 => t[i - 1] = s[i - 1]
  <3>1. i > 1 => i - 1 \in 1 .. n BY <1>1
  <3> QED BY <1>4, <3>1
 <2> QED BY <1>2, <1>4, <1>5, <1>6, <2>1
<1>8. \A i, j \in 1 .. n : i < j => t[i].id[2] < t[j].id[2] BY <1>3, <1>4, <1>6
<1>9. Kind(t[1]) = "base" BY <1>1, <1>4, <1>6
<1>10. Stacked(t, m, now) BY <1>1, <1>4, <1>6, <1>7, <1>8, <1>9 DEF Stacked
<1> QED BY <1>10 DEF t

\* A writer when its finaliser has been called.
Done(s, k) == [s EXCEPT ![k].pending = FALSE, ![k].held = <<>>]
\* A writer that is finalised holds nothing and is not pending; the others are left.
LEMMA DoneFacts ==
  ASSUME NEW s \in Seq(WriterSet), NEW k \in 1 .. Len(s)
  PROVE  /\ Done(s, k) \in Seq(WriterSet) /\ Len(Done(s, k)) = Len(s)
         /\ \A i \in 1 .. Len(s) : i # k => Done(s, k)[i] = s[i]
         /\ Done(s, k)[k].id = s[k].id /\ Done(s, k)[k].seen = s[k].seen
         /\ ~Done(s, k)[k].pending /\ Bare(Done(s, k)[k])
<1> DEFINE w == [s[k] EXCEPT !.pending = FALSE, !.held = <<>>]
<1>1. s[k] \in WriterSet OBVIOUS
<1>2. <<>> \in Seq(PieceSet) OBVIOUS
<1>3. w \in WriterSet BY <1>1, <1>2 DEF WriterSet
<1>4. w.id = s[k].id /\ w.seen = s[k].seen /\ w.pending = FALSE /\ w.held = <<>>
  BY <1>1 DEF WriterSet
<1>5. Done(s, k) = [s EXCEPT ![k] = w] BY <1>1 DEF Done, WriterSet
<1> HIDE DEF w
<1>6. /\ Done(s, k) \in Seq(WriterSet) /\ Len(Done(s, k)) = Len(s)
      /\ \A i \in 1 .. Len(s) : i # k => Done(s, k)[i] = s[i]
      /\ Done(s, k)[k] = w
  BY <1>3, <1>5
<1> QED BY <1>4, <1>6 DEF Bare

\* A stack stays well formed when the topmost live writer is finalised.
LEMMA StackedDone ==
  ASSUME NEW s, NEW m \in Nat, NEW k \in 1 .. Len(s), Stacked(s, m, k)
  PROVE  Stacked(Done(s, k), m, k - 1)
<1> DEFINE n == Len(s)
           t == Done(s, k)
<1>1. s \in Seq(WriterSet) /\ n \in Nat /\ n >= 1 /\ n <= m + 1 /\ Kind(s[1]) = "base"
  BY DEF Stacked
<1>2. \A i \in 1 .. n :
       /\ s[i].id[2] <= m
       /\ s[i].held # <<>> => Kind(s[i]) \in Buffering /\ s[i].pending
       /\ s[i].pending <=> i <= k /\ Kind(s[i]) \in Finalised
       /\ Kind(s[i]) = "sign" => i > 1 /\ s[i - 1].id = <<"partial", s[i].id[2] - 1>>
  BY DEF Stacked
<1>3. \A i, j \in 1 .. n : i < j => s[i].id[2] < s[j].id[2] BY DEF Stacked
<1>4. /\ t \in Seq(WriterSet) /\ Len(t) = n
      /\ \A i \in 1 .. n : i # k => t[i] = s[i]
      /\ t[k].id = s[k].id /\ ~t[k].pending /\ Bare(t[k])
  BY <1>1, DoneFacts
<1>5. k \in 1 .. n /\ 1 \in 1 .. n BY <1>1
<1> HIDE DEF n, t
<1>6. \A i \in 1 .. n : t[i].id = s[i].id /\ Kind(t[i]) = Kind(s[i]) BY <1>4 DEF Kind
<1>7. ASSUME NEW i \in 1 .. n
      PROVE  /\ t[i].id[2] <= m
             /\ t[i].held # <<>> => Kind(t[i]) \in Buffering /\ t[i].pending
             /\ t[i].pending <=> i <= k - 1 /\ Kind(t[i]) \in Finalised
             /\ Kind(t[i]) = "sign" => i > 1 /\ t[i - 1].id = <<"partial", t[i].id[2] - 1>>
 <2>1. i > 1 => t[i - 1].id = s[i - 1].id
  <3>1. i > 1 => i - 1 \in 1 .. n BY <1>1
  <3> QED BY <1>6, <3>1
 <2>2. CASE i = k
  <3>1. t[i].held = <<>> /\ ~t[i].pending BY <1>4, <2>2 DEF Bare
  <3>2. ~(i <= k - 1) BY <1>5, <2>2
  <3> QED BY <1>2, <1>6, <2>1, <3>1, <3>2
 <2>3. CASE i # k
  <3>1. i <= k <=> i <= k - 1 BY <1>1, <1>5, <2>3
  <3>2. t[i] = s[i] BY <1>4, <2>3
  <3> QED BY <1>2, <1>6, <2>1, <3>1, <3>2
 <2> QED BY <2>2, <2>3
<1>8. \A i, j \in 1 .. n : i < j => t[i].id[2] < t[j].id[2] BY <1>3, <1>6
<1>9. Kind(t[1]) = "base" BY <1>1, <1>5, <1>6
<1>10. Stacked(t, m, k - 1) BY <1>1, <1>4, <1>7, <1>8, <1>9 DEF Stacked
<1> QED BY <1>10 DEF t

\* A writer that has no finaliser, or whose kind has none.
LEMMA StackedNext ==
  ASSUME NEW s, NEW m \in Nat, NEW k \in 1 .. Len(s), Stacked(s, m, k), ~s[k].pending
  PROVE  Stacked(s, m, k - 1) /\ Kind(s[k]) \notin Finalised
<1>1. s \in Seq(WriterSet) /\ k \in Nat /\ Len(s) >= 1 /\ Kind(s[1]) = "base" /\ Len(s) <= m + 1
  BY DEF Stacked
<1>2. \A i \in 1 .. Len(s) :
       /\ s[i].id[2] <= m
       /\ s[i].held # <<>> => Kind(s[i]) \in Buffering /\ s[i].pending
       /\ s[i].pending <=> i <= k /\ Kind(s[i]) \in Finalised
       /\ Kind(s[i]) = "sign" => i > 1 /\ s[i - 1].id = <<"partial", s[i].id[2] - 1>>
  BY DEF Stacked
<1>3. \A i, j \in 1 .. Len(s) : i < j => s[i].id[2] < s[j].id[2] BY DEF Stacked
<1>4. Kind(s[k]) \notin Finalised
 <2>1. k <= k BY <1>1
 <2> QED BY <1>2, <2>1
<1>5. \A i \in 1 .. Len(s) : s[i].pending <=> i <= k - 1 /\ Kind(s[i]) \in Finalised
 <2> TAKE i \in 1 .. Len(s)
 <2>1. i = k \/ (i <= k <=> i <= k - 1) BY <1>1
 <2>2. i = k => ~(i <= k - 1) BY <1>1
 <2> QED BY <1>2, <1>4, <2>1, <2>2
<1> QED BY <1>1, <1>2, <1>3, <1>4, <1>5 DEF Stacked

-----------------------------------------------------------------------------
(* New pieces and new writers. *)

\* A new piece is one, with what it was made of.
LEMMA PieceTypes ==
  ASSUME NEW what \in Whats, NEW by \in WriterIds \cup {<<"app", 0>>}, NEW n \in 0 .. MaxData,
         NEW seen \in Seq(NameSet)
  PROVE  /\ Piece(what, by, n, seen) \in PieceSet
         /\ Piece(what, by, n, seen).what = what /\ Piece(what, by, n, seen).by = by
         /\ Piece(what, by, n, seen).n = n /\ Piece(what, by, n, seen).seen = seen
         /\ Piece(what, by, n, seen).through = {}
<1>1. {} \in SUBSET WriterIds OBVIOUS
<1> DEFINE A == WriterIds \cup {<<"app", 0>>}
           B == Seq(NameSet)
           C == SUBSET WriterIds
           D == 0 .. MaxData
<1>2. by \in A /\ n \in D /\ seen \in B /\ {} \in C BY <1>1
<1>3. PieceSet = [what : Whats, by : A, n : D, through : C, seen : B] BY DEF PieceSet, NameSet
<1> HIDE DEF A, B, C, D
<1> QED BY <1>2, <1>3 DEF Piece

\* A new writer is one, pending when its kind has a finaliser.
LEMMA WriterTypes ==
  ASSUME NEW kind \in Kinds, NEW n \in 0 .. MaxWriters
  PROVE  /\ Writer(kind, n) \in WriterSet
         /\ Writer(kind, n).id = <<kind, n>> /\ Kind(Writer(kind, n)) = kind
         /\ Writer(kind, n).id[2] = n /\ Writer(kind, n).id[1] = kind
         /\ Writer(kind, n).id \in WriterIds
         /\ Writer(kind, n).pending = (kind \in Finalised)
         /\ Bare(Writer(kind, n)) /\ Writer(kind, n).seen = <<>>
<1>1. <<kind, n>> \in WriterIds /\ <<kind, n>>[1] = kind /\ <<kind, n>>[2] = n BY DEF WriterIds
<1>2. <<>> \in Seq(PieceSet) /\ <<>> \in Seq(NameSet) /\ (kind \in Finalised) \in BOOLEAN OBVIOUS
<1> DEFINE A == Seq(PieceSet)
           B == Seq(NameSet)
           p == kind \in Finalised
<1>3. WriterSet = [id : WriterIds, pending : BOOLEAN, first : BOOLEAN, held : A, seen : B]
  BY DEF WriterSet
<1>4. Writer(kind, n) = [id |-> <<kind, n>>, pending |-> p, first |-> FALSE,
                         held |-> <<>>, seen |-> <<>>]
  BY DEF Writer
<1>5. <<>> \in A /\ <<>> \in B /\ p \in BOOLEAN BY <1>2
<1> HIDE DEF A, B, p
<1>6. Writer(kind, n) \in WriterSet BY <1>1, <1>3, <1>4, <1>5
<1>7. Writer(kind, n).pending = p BY <1>4
<1> QED BY <1>1, <1>4, <1>6, <1>7 DEF Kind, Bare, p

\* The pieces that writers are announced by and end with.
LEMMA OwnPieces ==
  ASSUME NEW w \in WriterSet
  PROVE  /\ Header(w) \in PieceSet /\ Header(w).what = "header" /\ Header(w).by = w.id
         /\ Header(w).through = {}
         /\ End(w) \in PieceSet /\ End(w).what = "end" /\ End(w).by = w.id
         /\ End(w).through = {} /\ End(w).seen = w.seen
         /\ Signature(w) \in PieceSet /\ Signature(w).what = "signature"
         /\ Signature(w).by = w.id /\ Signature(w).through = {} /\ Signature(w).seen = w.seen
<1>1. w.id \in WriterIds \cup {<<"app", 0>>} /\ w.seen \in Seq(NameSet) BY DEF WriterSet
<1>2. 0 \in 0 .. MaxData /\ <<>> \in Seq(NameSet) BY DEF WriterStackAssumption
<1>3. "header" \in Whats /\ "end" \in Whats /\ "signature" \in Whats BY DEF Whats
<1>4. /\ Header(w) \in PieceSet /\ Header(w).what = "header" /\ Header(w).by = w.id
      /\ Header(w).through = {}
 <2> DEFINE e == <<>>
 <2> DEFINE p == Piece("header", w.id, 0, e)
 <2>0. e \in Seq(NameSet) BY <1>2
 <2> HIDE DEF e
 <2>1. p \in PieceSet /\ p.what = "header" /\ p.by = w.id /\ p.through = {}
   BY <1>1, <1>2, <1>3, <2>0, PieceTypes
 <2> QED BY <2>1 DEF Header, e
<1>5. /\ End(w) \in PieceSet /\ End(w).what = "end" /\ End(w).by = w.id
      /\ End(w).through = {} /\ End(w).seen = w.seen
  BY <1>1, <1>2, <1>3, PieceTypes DEF End
<1>6. /\ Signature(w) \in PieceSet /\ Signature(w).what = "signature"
      /\ Signature(w).by = w.id /\ Signature(w).through = {} /\ Signature(w).seen = w.seen
  BY <1>1, <1>2, <1>3, PieceTypes DEF Signature
<1> QED BY <1>4, <1>5, <1>6

\* And the pieces of data.
LEMMA DataPieces ==
  ASSUME NEW n \in 0 .. MaxData
  PROVE  /\ Data(n) \in PieceSet /\ Data(n).what = "data" /\ Data(n).by = <<"app", 0>>
         /\ Data(n).n = n /\ Data(n).through = {}
         /\ Secret(n) \in PieceSet /\ Secret(n).what = "secret" /\ Secret(n).by = <<"app", 0>>
         /\ Secret(n).n = n /\ Secret(n).through = {}
<1>1. <<>> \in Seq(NameSet) OBVIOUS
<1>2. "data" \in Whats /\ "secret" \in Whats /\ <<"app", 0>> \in WriterIds \cup {<<"app", 0>>}
  BY DEF Whats
<1>3. /\ Data(n) \in PieceSet /\ Data(n).what = "data" /\ Data(n).by = <<"app", 0>>
      /\ Data(n).n = n /\ Data(n).through = {}
 <2> DEFINE e == <<>>
 <2> DEFINE p == Piece("data", <<"app", 0>>, n, e)
 <2>0. e \in Seq(NameSet) BY <1>1
 <2> HIDE DEF e
 <2>1. /\ p \in PieceSet /\ p.what = "data" /\ p.by = <<"app", 0>> /\ p.n = n
       /\ p.through = {}
   BY <1>2, <2>0, PieceTypes
 <2> QED BY <2>1 DEF Data, e
<1>4. /\ Secret(n) \in PieceSet /\ Secret(n).what = "secret" /\ Secret(n).by = <<"app", 0>>
      /\ Secret(n).n = n /\ Secret(n).through = {}
 <2> DEFINE e == <<>>
 <2> DEFINE p == Piece("secret", <<"app", 0>>, n, e)
 <2>0. e \in Seq(NameSet) BY <1>1
 <2> HIDE DEF e
 <2>1. /\ p \in PieceSet /\ p.what = "secret" /\ p.by = <<"app", 0>> /\ p.n = n
       /\ p.through = {}
   BY <1>2, <2>0, PieceTypes
 <2> QED BY <2>1 DEF Secret, e
<1> QED BY <1>3, <1>4

\* A partial writer with the header of its packet.
LEMMA WithHeaderFacts ==
  ASSUME NEW n \in 0 .. MaxWriters, NEW w, w = WithHeader(Writer("partial", n))
  PROVE  /\ w \in WriterSet /\ w.id = <<"partial", n>> /\ Kind(w) = "partial" /\ w.id[2] = n
         /\ w.id \in WriterIds /\ w.pending /\ w.seen = <<>>
         /\ w.held = <<Header(Writer("partial", n))>>
         /\ Header(w) = Header(Writer("partial", n))
<1> DEFINE x == Writer("partial", n)
<1>1. "partial" \in Kinds /\ "partial" \in Finalised BY DEF Kinds, Finalised
<1>2. /\ x \in WriterSet /\ x.id = <<"partial", n>> /\ x.id \in WriterIds /\ x.pending
      /\ x.seen = <<>> /\ x.id[1] = "partial" /\ x.id[2] = n
 <2>1. /\ x \in WriterSet /\ x.id = <<"partial", n>> /\ Kind(x) = "partial"
       /\ x.id[2] = n /\ x.id[1] = "partial" /\ x.id \in WriterIds
       /\ x.pending = ("partial" \in Finalised) /\ Bare(x) /\ x.seen = <<>>
   BY <1>1, WriterTypes
 <2> HIDE DEF x
 <2> QED BY <1>1, <2>1
<1>3. Header(x) \in PieceSet BY <1>2, OwnPieces
<1>4. w = [x EXCEPT !.held = <<Header(x)>>] BY DEF WithHeader
<1>5. <<Header(x)>> \in Seq(PieceSet) BY <1>3
<1> HIDE DEF x
<1> DEFINE A == Seq(PieceSet)
           B == Seq(NameSet)
           h == <<Header(x)>>
<1>6. WriterSet = [id : WriterIds, pending : BOOLEAN, first : BOOLEAN, held : A, seen : B]
  BY DEF WriterSet
<1>7. h \in A /\ w = [x EXCEPT !.held = h] BY <1>4, <1>5
<1> HIDE DEF A, B, h
<1>8. /\ w \in WriterSet /\ w.id = x.id /\ w.held = h /\ w.seen = x.seen
      /\ w.pending = x.pending
  BY <1>2, <1>6, <1>7
<1>9. Header(w) = Header(x) BY <1>8 DEF Header
<1> QED BY <1>2, <1>8, <1>9 DEF x, h, Kind

-----------------------------------------------------------------------------
(* Single pieces. *)

Lift(x, I) == [x EXCEPT !.through = @ \cup I]
Added(ps, x) == ps \o <<x>>
Single(xs, x) == xs = <<x>>

\* A run of one piece.
LEMMA SingleFacts ==
  ASSUME NEW x \in PieceSet, NEW xs, Single(xs, x)
  PROVE  xs \in Seq(PieceSet) /\ Len(xs) = 1 /\ xs[1] = x
BY DEF Single

\* A piece that goes through more writers is otherwise as it was.
LEMMA LiftFacts ==
  ASSUME NEW x \in PieceSet, NEW I \in SUBSET WriterIds
  PROVE  /\ Lift(x, I) \in PieceSet /\ Lift(x, I).through = x.through \cup I
         /\ Lift(x, I).what = x.what /\ Lift(x, I).by = x.by
         /\ Lift(x, I).n = x.n /\ Lift(x, I).seen = x.seen
BY PieceFacts DEF Lift

\* One piece written to a writer comes out last of what was written to it.
LEMMA BehindOne ==
  ASSUME NEW s \in Seq(WriterSet), NEW n \in 0 .. Len(s), NEW v, NEW x \in PieceSet,
         NEW xs \in Seq(PieceSet), Len(xs) = 1, xs[1] = x
  PROVE  /\ Behind(v, s, n, xs) = Added(v[n], Lift(x, Ids(s, n)))
         /\ Lift(x, Ids(s, n)) \in PieceSet
<1> DEFINE I == Ids(s, n)
           y == Lift(x, I)
           L == Lifted(s, n, xs)
<1>1. /\ L \in Seq(PieceSet) /\ Len(L) = 1 /\ L[1] \in PieceSet
      /\ L[1].through = x.through \cup I
      /\ L[1].what = x.what /\ L[1].by = x.by /\ L[1].n = x.n /\ L[1].seen = x.seen
  BY LiftedFacts
<1>2. I \in SUBSET WriterIds BY IdsFacts
<1> HIDE DEF L, I
<1>3. /\ y \in PieceSet /\ y.through = x.through \cup I
      /\ y.what = x.what /\ y.by = x.by /\ y.n = x.n /\ y.seen = x.seen
  BY <1>2, LiftFacts
<1> HIDE DEF y
<1>4. L[1] = y BY <1>1, <1>3, PieceEqual
<1>5. L = <<y>> BY <1>1, <1>4
<1>6. Behind(v, s, n, xs) = Added(v[n], y) BY <1>5 DEF Behind, Added, L
<1> QED BY <1>3, <1>6 DEF y, I

\* Writing nothing adds nothing.
LEMMA BehindNone ==
  ASSUME NEW s \in Seq(WriterSet), NEW n \in 0 .. Len(s), NEW v, v[n] \in Seq(PieceSet),
         NEW xs \in Seq(PieceSet), Len(xs) = 0
  PROVE  Behind(v, s, n, xs) = v[n]
<1> DEFINE L == Lifted(s, n, xs)
<1>1. L \in Seq(PieceSet) /\ Len(L) = 0 BY LiftedFacts
<1> HIDE DEF L
<1>2. L = <<>> BY <1>1
<1>3. v[n] \o L = v[n] BY <1>2
<1> QED BY <1>3 DEF Behind, L

\* A run of at most one piece has none or one.
LEMMA AtMostOne ==
  ASSUME NEW xs \in Seq(PieceSet), Len(xs) <= 1 PROVE Len(xs) = 0 \/ Len(xs) = 1
OBVIOUS

\* Two runs that are written one after the other come out so.
LEMMA BehindConcat ==
  ASSUME NEW s \in Seq(WriterSet), NEW n \in 0 .. Len(s), NEW v, v[n] \in Seq(PieceSet),
         NEW xs \in Seq(PieceSet), NEW ys \in Seq(PieceSet), NEW u,
         u[n] = Behind(v, s, n, xs)
  PROVE  Behind(v, s, n, xs \o ys) = Behind(u, s, n, ys)
<1>1. Lifted(s, n, xs \o ys) = Lifted(s, n, xs) \o Lifted(s, n, ys) BY LiftedOfConcat
<1>2. Lifted(s, n, xs) \in Seq(PieceSet) /\ Lifted(s, n, ys) \in Seq(PieceSet) BY LiftedFacts
<1> DEFINE a == v[n]
           b == Lifted(s, n, xs)
           c == Lifted(s, n, ys)
<1>3. a \in Seq(PieceSet) /\ b \in Seq(PieceSet) /\ c \in Seq(PieceSet) BY <1>2
<1>4. u[n] = Joined(a, b) BY DEF Behind, Joined
<1>5. Behind(v, s, n, xs \o ys) = Joined(a, Joined(b, c)) BY <1>1 DEF Behind, Joined
<1>6. Behind(u, s, n, ys) = Joined(u[n], c) BY DEF Behind, Joined
<1> HIDE DEF a, b, c
<1>7. Joined(Joined(a, b), c) = Joined(a, Joined(b, c)) BY <1>3, ConcatPieces
<1> QED BY <1>4, <1>5, <1>6, <1>7

\* Nothing has gone through the writers in N, and they have not been announced.
Untouched(ps, N) == \A k \in DOMAIN ps : \A id \in ps[k].through : id \notin N
Fresh(ps, N) == Untouched(ps, N) /\ \A k \in DOMAIN ps : ps[k].what = "header" => ps[k].by \notin N
\* What one of them, which is pushed, is announced by.
Opening(x, N) ==
  /\ x \in PieceSet /\ x.through = {} /\ x.by \in N /\ x.by \in WriterIds
  /\ x.what \in {"header", "session_key", "one_pass"}
  /\ x.what = "header" => x.by[1] \in Finalised \cup {"dash"}

\* No piece is by or through a writer that has not been made yet.
LEMMA OldFresh ==
  ASSUME NEW ps \in Seq(PieceSet), NEW m \in Nat, Old(ps, m), NEW N,
         \A id \in N : id[2] \in Nat /\ id[2] > m
  PROVE  Fresh(ps, N)
<1>1. ASSUME NEW k \in DOMAIN ps
      PROVE  ps[k].by \notin N /\ \A id \in ps[k].through : id \notin N
 <2>1. ps[k].by[2] \in Nat /\ \A id \in ps[k].through : id[2] \in Nat BY NumbersOf
 <2>2. ps[k].by[2] <= m /\ \A id \in ps[k].through : id[2] <= m BY DEF Old
 <2> QED BY <2>1, <2>2
<1> QED BY <1>1 DEF Fresh, Untouched

\* A piece that opens a writer or stands alone, written to all that is open, keeps
\* everything written in order: nothing that has ended gets it, and its own writer, when
\* it is a header, is still without pieces.
LEMMA OpeningGood ==
  ASSUME NEW ps \in Seq(PieceSet), NEW m \in Nat, NEW J \in SUBSET WriterIds, NEW N, NEW S,
         NEW L, \A id : id \in L <=> id \in J \/ id \in N,
         Good(ps, m, L, L, L, S), Fresh(ps, N), NEW x, Opening(x, N),
         \A id \in J : id \notin N /\ id[1] # "encrypt" /\ id[2] <= m,
         x.by[2] <= m, \A id \in L : id[1] = "sign" => id \in S
  PROVE  /\ Added(ps, Lift(x, J)) \in Seq(PieceSet)
         /\ Good(Added(ps, Lift(x, J)), m, L, L, L, S)
         /\ Untouched(Added(ps, Lift(x, J)), N)
         /\ x.what # "header" => Fresh(Added(ps, Lift(x, J)), N)
         /\ \A a \in Nat : Counted(ps, a) => Counted(Added(ps, Lift(x, J)), a)
<1> DEFINE y == Lift(x, J)
<1>1. /\ x \in PieceSet /\ x.through = {} /\ x.by \in N /\ x.by \in WriterIds
      /\ x.what \in {"header", "session_key", "one_pass"}
      /\ x.what = "header" => x.by[1] \in Finalised \cup {"dash"}
  BY DEF Opening
<1>2. /\ y \in PieceSet /\ y.through = x.through \cup J /\ y.what = x.what /\ y.by = x.by
  BY <1>1, PieceFacts DEF Lift
<1>3. y.through = J BY <1>1, <1>2
<1> HIDE DEF y
<1>4. \A k \in DOMAIN ps : /\ ps[k].what = "header" => ps[k].by \notin N
                           /\ \A id \in ps[k].through : id \notin N
  BY DEF Fresh, Untouched
<1>5. Good(ps \o <<y>>, m, L, L, L, S)
 <2>1. y.what # "end" /\ y.what # "signature" /\ y.what # "secret" BY <1>1, <1>2
 <2>2. \A id \in y.through : id \in L /\ id[2] <= m BY <1>3
 <2>3. \A h \in DOMAIN ps :
         ps[h].what = "header" /\ (ps[h].by \in L \/ (ps[h].by \in L /\ ps[h].by[1] = "dash"))
           => ps[h].by \in y.through
   BY <1>3, <1>4
 <2>4. y.what = "header" =>
         /\ y.by \in L /\ y.by[1] \in Finalised \cup {"dash"} /\ y.by \notin y.through
         /\ \A k \in DOMAIN ps : y.by \notin ps[k].through
   BY <1>1, <1>2, <1>3, <1>4
 <2>5. y.what = "secret" <=> \E id \in y.through : id[1] = "encrypt" BY <1>3, <2>1
 <2>6. y.by[1] \in Finalised => y.by \in L BY <1>1, <1>2
 <2>7. \A id \in y.through \cup {y.by} :
         id[1] = "sign" => id \in S \/ (y.what = "signature" /\ id = y.by)
   BY <1>1, <1>2, <1>3
 <2>8. y.by[2] <= m BY <1>2
 <2>9. \A id \in S : id \in S \/ (y.what = "signature" /\ id = y.by) OBVIOUS
 <2> QED BY <1>2, <2>1, <2>2, <2>3, <2>4, <2>5, <2>6, <2>7, <2>8, <2>9, AppendGood
<1>6. /\ ps \o <<y>> \in Seq(PieceSet) /\ DOMAIN (ps \o <<y>>) = 1 .. Len(ps) + 1
      /\ (ps \o <<y>>)[Len(ps) + 1] = y /\ DOMAIN ps = 1 .. Len(ps)
      /\ \A i \in 1 .. Len(ps) : (ps \o <<y>>)[i] = ps[i]
      /\ Len(ps) \in Nat
  BY <1>2, OneMore
<1> DEFINE q == ps \o <<y>>
<1>7. \A k \in DOMAIN q : k \in DOMAIN ps \/ k = Len(ps) + 1 BY <1>6
<1> HIDE DEF q
<1>8. Untouched(q, N)
 <2>1. ASSUME NEW k \in DOMAIN q PROVE \A id \in q[k].through : id \notin N
  <3>1. CASE k \in DOMAIN ps BY <1>4, <1>6, <3>1 DEF q
  <3>2. CASE k = Len(ps) + 1 BY <1>3, <1>6, <3>2 DEF q
  <3> QED BY <1>7, <3>1, <3>2
 <2> QED BY <2>1 DEF Untouched
<1>9. ASSUME x.what # "header" PROVE Fresh(q, N)
 <2>1. ASSUME NEW k \in DOMAIN q, q[k].what = "header" PROVE q[k].by \notin N
  <3>1. CASE k \in DOMAIN ps BY <1>4, <1>6, <2>1, <3>1 DEF q
  <3>2. CASE k = Len(ps) + 1 BY <1>2, <1>6, <1>9, <2>1, <3>2 DEF q
  <3> QED BY <1>7, <3>1, <3>2
 <2> QED BY <1>8, <2>1 DEF Fresh
<1>10. ASSUME NEW a \in Nat, Counted(ps, a) PROVE Counted(ps \o <<y>>, a)
 <2>1. y.what \notin {"data", "secret"} BY <1>1, <1>2
 <2> QED BY <1>2, <1>10, <2>1, CountMore
<1> QED BY <1>5, <1>6, <1>8, <1>9, <1>10 DEF Added, y, q

\* There is room for writers N on top of those with J, the writers that sign among S.
Room(J, m, N, S) ==
  /\ \A id \in J :
       id \notin N /\ id[1] # "encrypt" /\ id[2] <= m /\ (id[1] = "sign" => id \in S)
  /\ \A id \in N : id[2] <= m /\ id \in WriterIds /\ (id[1] = "sign" => id \in S)

\* At most one such piece.
Few(xs, N) == xs \in Seq(PieceSet) /\ Len(xs) <= 1 /\ (Len(xs) = 1 => Opening(xs[1], N))
NoHeader(xs) == \A k \in 1 .. Len(xs) : xs[k].what # "header"

\* The same of at most one such piece.
LEMMA FewGood ==
  ASSUME NEW s \in Seq(WriterSet), NEW n \in 0 .. Len(s), NEW v, v[n] \in Seq(PieceSet),
         NEW m \in Nat, NEW N, NEW S, NEW J, J = Ids(s, n), Room(J, m, N, S),
         Good(v[n], m, J \cup N, J \cup N, J \cup N, S), Fresh(v[n], N),
         NEW a \in Nat, Counted(v[n], a), NEW xs, Few(xs, N)
  PROVE  /\ Behind(v, s, n, xs) \in Seq(PieceSet)
         /\ Good(Behind(v, s, n, xs), m, J \cup N, J \cup N, J \cup N, S)
         /\ Untouched(Behind(v, s, n, xs), N) /\ Counted(Behind(v, s, n, xs), a)
         /\ NoHeader(xs) => Fresh(Behind(v, s, n, xs), N)
<1> DEFINE q == Behind(v, s, n, xs)
           L == J \cup N
           ps == v[n]
           G == /\ q \in Seq(PieceSet) /\ Good(q, m, L, L, L, S) /\ Untouched(q, N)
                /\ Counted(q, a) /\ (NoHeader(xs) => Fresh(q, N))
<1>0. xs \in Seq(PieceSet) /\ Len(xs) <= 1 /\ (Len(xs) = 1 => Opening(xs[1], N)) BY DEF Few
<1>6. ps \in Seq(PieceSet) /\ Good(ps, m, L, L, L, S) /\ Fresh(ps, N) /\ Counted(ps, a) OBVIOUS
<1>7. /\ \A id : id \in L <=> id \in J \/ id \in N
      /\ \A id \in J : id \notin N /\ id[1] # "encrypt" /\ id[2] <= m
      /\ \A id \in L : id[1] = "sign" => id \in S
      /\ \A id \in N : id[2] <= m
  BY DEF Room
<1>3. J \in SUBSET WriterIds BY IdsFacts
<1> HIDE DEF L
<1>1. ASSUME Len(xs) = 0 PROVE G
 <2>1. q = ps BY <1>0, <1>1, BehindNone
 <2> HIDE DEF ps, q
 <2> QED BY <1>6, <2>1 DEF Fresh
<1>2. ASSUME Len(xs) = 1 PROVE G
 <2> DEFINE x == xs[1]
 <2>1. Opening(x, N) /\ x \in PieceSet
  <3>1. Opening(xs[1], N) BY <1>0, <1>2
  <3> QED BY <3>1 DEF Opening
 <2>2. q = Added(ps, Lift(x, J)) BY <1>0, <1>2, <2>1, BehindOne
 <2>4. x.by[2] <= m BY <1>7, <2>1 DEF Opening
 <2>5. NoHeader(xs) => x.what # "header" BY <1>2 DEF NoHeader
 <2> HIDE DEF x, ps, q
 <2> DEFINE r == Added(ps, Lift(x, J))
 <2>8. /\ r \in Seq(PieceSet) /\ Good(r, m, L, L, L, S) /\ Untouched(r, N)
       /\ x.what # "header" => Fresh(r, N)
       /\ \A b \in Nat : Counted(ps, b) => Counted(r, b)
   BY <1>3, <1>6, <1>7, <2>1, <2>4, OpeningGood
 <2>9. Counted(r, a) BY <1>6, <2>8
 <2> QED BY <2>2, <2>5, <2>8, <2>9
<1>4. Len(xs) = 0 \/ Len(xs) = 1 BY <1>0, AtMostOne
<1> HIDE DEF G
<1>5. G BY <1>1, <1>2, <1>4
<1> QED BY <1>5 DEF G, q, L

-----------------------------------------------------------------------------
(* Writing to the writer on top, and pushing others onto it. *)

OpenData(s, o, m, a, v) ==
  /\ Flow(s, Len(s), o, v) /\ SeenAll(s, Len(s), v)
  /\ Good(v[Len(s)], m, Ids(s, Len(s)), Ids(s, Len(s)), Ids(s, Len(s)), SignIds(s))
  /\ Counted(v[Len(s)], a)

NoneEncrypts(s) == \A i \in 1 .. Len(s) : Kind(s[i]) # "encrypt"

\* They have been announced or will be, but are not there yet.
Mid(s, o, m, a, N, S, v) ==
  /\ Room(Ids(s, Len(s)), m, N, S)
  /\ Flow(s, Len(s), o, v) /\ SeenAll(s, Len(s), v)
  /\ Good(v[Len(s)], m, Ids(s, Len(s)) \cup N, Ids(s, Len(s)) \cup N, Ids(s, Len(s)) \cup N, S)
  /\ Untouched(v[Len(s)], N) /\ Counted(v[Len(s)], a)

\* A flow is runs of pieces at each writer.
LEMMA FlowTypes ==
  ASSUME NEW s, NEW n \in Nat, NEW o, NEW v, Flow(s, n, o, v), NEW i \in 0 .. n
  PROVE  v[i] \in Seq(PieceSet)
BY DEF Flow

\* Writes do not change which writers are stacked.
LEMMA LikeIds ==
  ASSUME NEW s \in Seq(WriterSet), NEW t, NEW top, Like(s, t, top)
  PROVE  /\ t \in Seq(WriterSet) /\ Len(t) = Len(s)
         /\ \A k \in 0 .. Len(s) : Ids(t, k) = Ids(s, k)
         /\ SignIds(t) = SignIds(s) /\ (NoneEncrypts(s) => NoneEncrypts(t))
         /\ \A k \in 1 .. Len(s) : t[k].id = s[k].id
<1> DEFINE n == Len(s)
<1>1. t \in Seq(WriterSet) /\ Len(t) = n /\ n \in Nat /\ \A i \in 1 .. n : t[i].id = s[i].id
  BY DEF Like
<1> HIDE DEF n
<1>2. \A k \in 0 .. n : Ids(t, k) = Ids(s, k)
 <2>1. SameIdsTo(s, t, n) BY <1>1, SameIds
 <2> QED BY <2>1 DEF SameIdsTo
<1>3. \A i \in 1 .. n : Kind(t[i]) = Kind(s[i]) BY <1>1 DEF Kind
<1>4. SignIds(t) = SignIds(s) BY <1>1, <1>3 DEF SignIds, n
<1>5. NoneEncrypts(s) => NoneEncrypts(t) BY <1>1, <1>3 DEF NoneEncrypts, n
<1> QED BY <1>1, <1>2, <1>4, <1>5 DEF n

\* The numbers of writers on top of each other.
LEMMA StackedIds ==
  ASSUME NEW s, NEW m \in Nat, NEW live, Stacked(s, m, live), NEW k \in 0 .. Len(s),
         NEW id \in Ids(s, k)
  PROVE  /\ id \in WriterIds /\ id[2] \in Nat /\ id[2] <= m
         /\ \E i \in 1 .. k : id = s[i].id /\ id[1] = Kind(s[i])
<1>1. PICK i \in 1 .. k : id = s[i].id BY DEF Ids
<1>2. s \in Seq(WriterSet) /\ i \in 1 .. Len(s) BY DEF Stacked
<1>3. s[i] \in WriterSet /\ s[i].id[2] <= m BY <1>2 DEF Stacked
<1>4. s[i].id \in WriterIds BY <1>3 DEF WriterSet
<1> QED BY <1>1, <1>3, <1>4, IdFacts DEF Kind

\* Writers that will be pushed are without pieces before anything is written for them.
LEMMA MidStart ==
  ASSUME NEW s, NEW m \in Nat, NEW m2 \in Nat, m <= m2, NEW o, NEW a, NEW v, NEW N, NEW S,
         Stacked(s, m, Len(s)), NoneEncrypts(s), OpenData(s, o, m, a, v),
         \A id \in N : id \in WriterIds /\ id[2] > m /\ id[2] <= m2 /\ (id[1] = "sign" => id \in S),
         SignIds(s) \subseteq S
  PROVE  Mid(s, o, m2, a, N, S, v) /\ Fresh(v[Len(s)], N)
<1> DEFINE n == Len(s)
           J == Ids(s, n)
           ps == v[n]
<1>1. s \in Seq(WriterSet) /\ n \in Nat /\ n \in 0 .. Len(s) BY DEF Stacked
<1>2. Flow(s, n, o, v) /\ SeenAll(s, n, v) /\ Good(ps, m, J, J, J, SignIds(s)) /\ Counted(ps, a)
  BY DEF OpenData
<1>3. ps \in Seq(PieceSet) BY <1>1, <1>2, FlowTypes
<1>4. \A id \in N : id[2] \in Nat /\ id[2] > m BY IdFacts
<1>5. Fresh(ps, N)
 <2>1. Old(ps, m) BY <1>2 DEF Good
 <2> HIDE DEF ps
 <2> QED BY <1>3, <1>4, <2>1, OldFresh
<1>6. Good(ps, m2, J \cup N, J \cup N, J \cup N, S)
 <2> HIDE DEF ps, J
 <2> QED BY <1>2, <1>3, <1>4, GrowGood
<1>7. ASSUME NEW id \in J
      PROVE  id \notin N /\ id[1] # "encrypt" /\ id[2] <= m2 /\ (id[1] = "sign" => id \in S)
 <2>1. PICK i \in 1 .. n : id = s[i].id /\ id[1] = Kind(s[i]) BY <1>1, StackedIds
 <2>2. id[2] \in Nat /\ id[2] <= m BY <1>1, StackedIds
 <2>3. id[1] # "encrypt" BY <2>1 DEF NoneEncrypts
 <2>4. id[1] = "sign" => id \in SignIds(s) BY <2>1 DEF SignIds
 <2>5. id \notin N /\ id[2] <= m2 BY <1>4, <2>2
 <2> QED BY <2>3, <2>4, <2>5
<1>8. Room(Ids(s, Len(s)), m2, N, S) BY <1>7 DEF Room
<1> QED BY <1>2, <1>5, <1>6, <1>8 DEF Mid, Fresh

\* A write that does not fail, up to writer top.
LEMMA WriteFlow ==
  ASSUME stack \in Seq(WriterSet), out \in Seq(PieceSet), intact \in BOOLEAN,
         NEW xs \in Seq(PieceSet), NEW top \in 0 .. Len(stack),
         NEW v, Flow(stack, top, out, v), SeenAll(stack, top, v),
         NEW o \in Outcomes(xs, top), intact, ~o.fails
  PROVE  /\ \E u : /\ Flow(o.stack, top, o.out, u) /\ SeenAll(o.stack, top, u)
                   /\ u[top] = Behind(v, stack, top, xs)
         /\ \A i \in 1 .. Len(stack) : i > top => o.stack[i] = stack[i]
<1>1. PICK keep \in SUBSET {i \in 1 .. top : Kind(stack[i]) \in Buffering} :
        LET to == Arriving(stack, xs, top, keep)
        IN  o.stack = PassDown(stack, to, top, keep) /\ o.out = out \o to[0]
  BY OutcomeFacts
<1> DEFINE A == Arriving(stack, xs, top, keep)
           t == PassDown(stack, A, top, keep)
<1>2. o.stack = t /\ o.out = out \o A[0] BY <1>1
<1>3. \E u : /\ Flow(t, top, out \o A[0], u) /\ SeenAll(t, top, u)
             /\ u[top] = Behind(v, stack, top, xs)
 <2>1. Flows(t, top, out \o A[0], Behind(v, stack, top, xs)) BY FlowOfWrite
 <2> QED BY <2>1 DEF Flows
<1>4. \A i \in 0 .. top : A[i] \in Seq(PieceSet) BY ArrivingTypes
<1>5. \A i \in 1 .. Len(stack) : i > top => t[i] = stack[i]
 <2>1. DOMAIN stack = 1 .. Len(stack) OBVIOUS
 <2> HIDE DEF A
 <2> QED BY <2>1 DEF PassDown
<1> QED BY <1>2, <1>3, <1>5

\* A piece written for a writer that will be pushed keeps what is written in order.
LEMMA MidWrite ==
  ASSUME stack \in Seq(WriterSet), out \in Seq(PieceSet), intact \in BOOLEAN,
         NEW xs, NEW N, Few(xs, N), NEW m \in Nat, NEW a \in Nat, NEW S, NEW v,
         Mid(stack, out, m, a, N, S, v), Fresh(v[Len(stack)], N),
         NEW o \in Outcomes(xs, Len(stack)), intact, ~o.fails
  PROVE  \E u : /\ Mid(o.stack, o.out, m, a, N, S, u)
                /\ NoHeader(xs) => Fresh(u[Len(o.stack)], N)
<1> DEFINE n == Len(stack)
           J == Ids(stack, n)
           q == Behind(v, stack, n, xs)
<1>1. n \in Nat /\ n \in 0 .. Len(stack) OBVIOUS
<1>2. /\ Room(J, m, N, S) /\ Flow(stack, n, out, v) /\ SeenAll(stack, n, v)
      /\ Good(v[n], m, J \cup N, J \cup N, J \cup N, S) /\ Counted(v[n], a)
  BY DEF Mid
<1>3. v[n] \in Seq(PieceSet) /\ Fresh(v[n], N) /\ xs \in Seq(PieceSet)
  BY <1>1, <1>2, FlowTypes DEF Few
<1>4. PICK u : Flow(o.stack, n, o.out, u) /\ SeenAll(o.stack, n, u) /\ u[n] = q
  BY <1>1, <1>2, <1>3, WriteFlow
<1>5. Like(stack, o.stack, n) BY <1>1, <1>3, OutcomeFacts
<1>6. Len(o.stack) = n /\ Ids(o.stack, n) = J BY <1>1, <1>5, LikeIds
<1>7. J = Ids(stack, n) /\ q = Behind(v, stack, n, xs) OBVIOUS
<1> HIDE DEF q, n, J
<1>8. /\ Good(q, m, J \cup N, J \cup N, J \cup N, S) /\ Untouched(q, N)
      /\ NoHeader(xs) => Fresh(q, N)
      /\ Counted(q, a)
  BY <1>1, <1>2, <1>3, <1>7, FewGood
<1>10. Mid(o.stack, o.out, m, a, N, S, u) BY <1>2, <1>4, <1>6, <1>8 DEF Mid
<1> QED BY <1>4, <1>6, <1>8, <1>10

\* The writers are pushed, the first with what announces it.
LEMMA MidPush ==
  ASSUME NEW s \in Seq(WriterSet), NEW w \in WriterSet, NEW t, Plus(s, w, t),
         NEW m \in Nat, NEW a \in Nat, NEW o, NEW S, NEW v,
         Mid(s, o, m, a, {w.id}, S, v), Few(w.held, {w.id}),
         Fresh(v[Len(s)], {w.id}) \/ Bare(w), S = SignIds(t), w.seen = Before(w.id)
  PROVE  \E u : OpenData(t, o, m, a, u)
<1> DEFINE n == Len(s)
           N == {w.id}
           J == Ids(s, n)
           q == Behind(v, s, n, w.held)
<1>1. n \in Nat /\ n \in 0 .. Len(s) /\ w.id \in WriterIds /\ w.held \in Seq(PieceSet)
  BY DEF WriterSet
<1>2. /\ Room(J, m, N, S) /\ Flow(s, n, o, v) /\ SeenAll(s, n, v)
      /\ Good(v[n], m, J \cup N, J \cup N, J \cup N, S) /\ Counted(v[n], a) /\ Untouched(v[n], N)
  BY DEF Mid
<1>3. v[n] \in Seq(PieceSet) BY <1>1, <1>2, FlowTypes
<1>4. Len(t) = n + 1 /\ t \in Seq(WriterSet) /\ Ids(t, Len(t)) = J \cup N BY PlusIds DEF Plus
<1>5. J = Ids(s, n) /\ q = Behind(v, s, n, w.held) OBVIOUS
<1>6. Bare(w) => q = v[n]
 <2>1. Bare(w) => Len(w.held) = 0 BY DEF Bare
 <2> QED BY <1>1, <1>3, <2>1, BehindNone
<1>7. Fresh(v[n], N) \/ Bare(w) OBVIOUS
<1>8. /\ Good(q, m, J \cup N, J \cup N, J \cup N, S) /\ Untouched(q, N) /\ Counted(q, a)
      /\ q \in Seq(PieceSet)
 <2> HIDE DEF q, n, J, N
 <2>1. CASE Bare(w) BY <1>2, <1>3, <1>6, <2>1
 <2>2. CASE Fresh(v[n], N)
  <3>1. Few(w.held, N) BY DEF N
  <3> QED BY <1>1, <1>2, <1>3, <1>5, <2>2, <3>1, FewGood
 <2> QED BY <1>7, <2>1, <2>2
<1>9. MadeOver(q, w.seen, w.id)
 <2>1. \A k \in DOMAIN q : w.id \notin q[k].through
  <3> HIDE DEF q
  <3> QED BY <1>8 DEF Untouched
 <2>2. w.seen = Before(w.id) OBVIOUS
 <2> HIDE DEF q
 <2>3. \A k \in 1 .. Len(q) : w.id \notin q[k].through BY <1>8, <2>1
 <2> QED BY <1>1, <1>8, <2>2, <2>3, MadeOverNone
<1>10. PICK u : Flow(t, Len(t), o, u) /\ SeenAll(t, Len(t), u) /\ u[Len(t)] = q
  BY <1>2, <1>9, FlowPushOne
<1> HIDE DEF q, n, J, N
<1>11. OpenData(t, o, m, a, u) BY <1>4, <1>8, <1>10 DEF OpenData
<1> QED BY <1>11

\* Two writers that are pushed after what was written for them join the flow.
LEMMA MidPushTwo ==
  ASSUME NEW s \in Seq(WriterSet), NEW w \in WriterSet, NEW x \in WriterSet,
         NEW t, Plus(s, w, t), NEW r, Plus(t, x, r), NEW N, N = {w.id, x.id},
         NEW m \in Nat, NEW a \in Nat, NEW o, NEW S, NEW v,
         Mid(s, o, m, a, N, S, v), Few(w.held, N), Bare(x), Kind(w) \notin Hashing,
         Fresh(v[Len(s)], N) \/ Bare(w), S = SignIds(r),
         \/ x.seen = Before(x.id)
         \/ Kind(x) \notin Hashing
  PROVE  \E u : OpenData(r, o, m, a, u)
<1> DEFINE n == Len(s)
           J == Ids(s, n)
           q == Behind(v, s, n, w.held)
<1>1. /\ n \in Nat /\ n \in 0 .. Len(s) /\ w.id \in WriterIds /\ w.held \in Seq(PieceSet)
      /\ x.id \in WriterIds
  BY DEF WriterSet
<1>2. /\ Room(J, m, N, S) /\ Flow(s, n, o, v) /\ SeenAll(s, n, v)
      /\ Good(v[n], m, J \cup N, J \cup N, J \cup N, S) /\ Counted(v[n], a) /\ Untouched(v[n], N)
  BY DEF Mid
<1>3. v[n] \in Seq(PieceSet) BY <1>1, <1>2, FlowTypes
<1>4. Ids(r, Len(r)) = J \cup N
 <2>1. t \in Seq(WriterSet) /\ Ids(t, Len(t)) = J \cup {w.id} BY PlusIds DEF Plus
 <2>2. Ids(r, Len(r)) = Ids(t, Len(t)) \cup {x.id} BY <2>1, PlusIds
 <2> QED BY <2>1, <2>2
<1>5. J = Ids(s, n) /\ q = Behind(v, s, n, w.held) OBVIOUS
<1>6. Bare(w) => q = v[n]
 <2>1. Bare(w) => Len(w.held) = 0 BY DEF Bare
 <2> QED BY <1>1, <1>3, <2>1, BehindNone
<1>7. Fresh(v[n], N) \/ Bare(w) OBVIOUS
<1>8. /\ Good(q, m, J \cup N, J \cup N, J \cup N, S) /\ Untouched(q, N) /\ Counted(q, a)
      /\ q \in Seq(PieceSet)
 <2> HIDE DEF q, n, J
 <2>1. CASE Bare(w) BY <1>2, <1>3, <1>6, <2>1
 <2>2. CASE Fresh(v[n], N) BY <1>1, <1>2, <1>3, <1>5, <2>2, FewGood
 <2> QED BY <1>7, <2>1, <2>2
<1>9. Kind(x) \in Hashing => MadeOver(q, x.seen, x.id)
 <2>1. \A k \in DOMAIN q : x.id \notin q[k].through
  <3> HIDE DEF q
  <3> QED BY <1>8 DEF Untouched
 <2>2. Kind(x) \in Hashing => x.seen = Before(x.id) OBVIOUS
 <2> HIDE DEF q
 <2>3. \A k \in 1 .. Len(q) : x.id \notin q[k].through BY <1>8, <2>1
 <2> QED BY <1>1, <1>8, <2>2, <2>3, MadeOverNone
<1>10. PICK u : Flow(r, Len(r), o, u) /\ SeenAll(r, Len(r), u) /\ u[Len(r)] = q
  BY <1>2, <1>9, FlowPushTwo
<1> HIDE DEF q, n, J
<1>11. OpenData(r, o, m, a, u) BY <1>4, <1>8, <1>10 DEF OpenData
<1> QED BY <1>11

\* Data is written.
LEMMA OpenWrite ==
  ASSUME stack \in Seq(WriterSet), out \in Seq(PieceSet), intact \in BOOLEAN,
         NEW x \in PieceSet, x.through = {}, x.by = <<"app", 0>>,
         NEW xs \in Seq(PieceSet), Single(xs, x),
         NEW m \in Nat, NEW a \in Nat, NEW live, Stacked(stack, m, live), NEW v,
         OpenData(stack, out, m, a, v), x.n = a + 1, x.what \in {"data", "secret"},
         x.what = "secret" <=> ~NoneEncrypts(stack),
         NEW o \in Outcomes(xs, Len(stack)), intact, ~o.fails
  PROVE  \E u : OpenData(o.stack, o.out, m, a + 1, u)
<1> DEFINE n == Len(stack)
           J == Ids(stack, n)
           S == SignIds(stack)
           y == Lift(x, J)
<1>1. n \in Nat /\ n \in 0 .. Len(stack) /\ Len(xs) = 1 /\ xs[1] = x BY SingleFacts
<1>2. /\ Flow(stack, n, out, v) /\ SeenAll(stack, n, v)
      /\ Good(v[n], m, J, J, J, S) /\ Counted(v[n], a)
  BY DEF OpenData
<1>3. v[n] \in Seq(PieceSet) /\ J \in SUBSET WriterIds BY <1>1, <1>2, FlowTypes, IdsFacts
<1>4. PICK u : /\ Flow(o.stack, n, o.out, u) /\ SeenAll(o.stack, n, u)
               /\ u[n] = Behind(v, stack, n, xs)
  BY <1>1, <1>2, WriteFlow
<1>5. Like(stack, o.stack, n) BY <1>1, OutcomeFacts
<1>6. Len(o.stack) = n /\ Ids(o.stack, n) = J /\ SignIds(o.stack) = S BY <1>1, <1>5, LikeIds
<1>7. Behind(v, stack, n, xs) = Added(v[n], y) BY <1>1, BehindOne
<1>8. /\ y \in PieceSet /\ y.through = J /\ y.what = x.what /\ y.by = x.by /\ y.n = x.n
 <2>1. /\ y \in PieceSet /\ y.through = x.through \cup J /\ y.what = x.what /\ y.by = x.by
       /\ y.n = x.n
  <3> HIDE DEF J
  <3> QED BY <1>3, LiftFacts
 <2> QED BY <2>1
<1>9. \A id \in J : /\ id \in WriterIds /\ id[2] <= m
                    /\ \E i \in 1 .. n : id = stack[i].id /\ id[1] = Kind(stack[i])
 <2>1. ASSUME NEW id \in J
       PROVE  /\ id \in WriterIds /\ id[2] <= m
              /\ \E i \in 1 .. n : id = stack[i].id /\ id[1] = Kind(stack[i])
  <3>1. id \in Ids(stack, n) OBVIOUS
  <3> HIDE DEF n, J
  <3> QED BY <1>1, <3>1, StackedIds
 <2> QED BY <2>1
<1>10. \A id \in J : id[1] = "sign" => id \in S BY <1>9 DEF SignIds
<1>11. x.what = "secret" <=> \E id \in J : id[1] = "encrypt"
 <2>1. ASSUME x.what = "secret" PROVE \E id \in J : id[1] = "encrypt"
  <3>1. PICK i \in 1 .. n : Kind(stack[i]) = "encrypt" BY <2>1 DEF NoneEncrypts
  <3>2. stack[i].id \in J /\ stack[i].id[1] = "encrypt" BY <3>1 DEF Ids, Kind
  <3> QED BY <3>2
 <2>2. ASSUME NEW id \in J, id[1] = "encrypt" PROVE x.what = "secret"
  <3>1. PICK i \in 1 .. n : id[1] = Kind(stack[i]) BY <1>9
  <3>2. ~NoneEncrypts(stack) BY <2>2, <3>1 DEF NoneEncrypts
  <3> QED BY <3>2
 <2> QED BY <2>1, <2>2
<1> DEFINE ps == v[n]
<1>12. ps \in Seq(PieceSet) /\ Good(ps, m, J, J, J, S) /\ Counted(ps, a) BY <1>2, <1>3
<1> HIDE DEF J, S, y, n, ps
<1>13. Good(ps \o <<y>>, m, J, J, J, S)
 <2>1. y.what # "end" /\ y.what # "header" /\ y.what # "signature" BY <1>8
 <2>2. y.by[2] <= m /\ y.by[1] \notin Finalised /\ y.by[1] # "sign" BY <1>8 DEF Finalised
 <2>3. \A id \in y.through : id \in J /\ id[2] <= m BY <1>8, <1>9
 <2>4. \A h \in DOMAIN ps :
         ps[h].what = "header" /\ (ps[h].by \in J \/ (ps[h].by \in J /\ ps[h].by[1] = "dash"))
           => ps[h].by \in y.through
   BY <1>8
 <2>5. y.what = "secret" <=> \E id \in y.through : id[1] = "encrypt" BY <1>8, <1>11
 <2>6. \A id \in y.through \cup {y.by} :
         id[1] = "sign" => id \in S \/ (y.what = "signature" /\ id = y.by)
   BY <1>8, <1>10, <2>2
 <2>7. \A id \in S : id \in S \/ (y.what = "signature" /\ id = y.by) OBVIOUS
 <2> QED BY <1>8, <1>12, <2>1, <2>2, <2>3, <2>4, <2>5, <2>6, <2>7, AppendGood
<1>14. Counted(ps \o <<y>>, a + 1) BY <1>8, <1>12, CountMore
<1>15. u[n] = ps \o <<y>> BY <1>4, <1>7 DEF Added, ps
<1>16. OpenData(o.stack, o.out, m, a + 1, u) BY <1>4, <1>6, <1>13, <1>14, <1>15 DEF OpenData
<1> QED BY <1>16

-----------------------------------------------------------------------------
(* Types, and the assertions. *)

TypeInv ==
  /\ out \in Seq(PieceSet) /\ accepted \in 0 .. MaxData /\ intact \in BOOLEAN
  /\ StackInv /\ KeyInv

\* What the state says of a stack that is not closed.
LEMMA StackFacts ==
  ASSUME TypeInv, phase # "closed"
  PROVE  /\ stack \in Seq(WriterSet) /\ Top \in Nat /\ Top >= 1 /\ Top <= made + 1
         /\ Top = Len(stack) /\ Stacked(stack, made, Live) /\ Live \in 0 .. Top
         /\ made \in Nat /\ MaxWriters \in Nat /\ MaxData \in Nat /\ made <= MaxWriters
         /\ accepted \in Nat /\ Kind(stack[1]) = "base"
         /\ phase = "open" => Live = Top /\ Stacked(stack, made, Len(stack))
<1>1. Stacked(stack, made, Live) BY DEF TypeInv, StackInv
<1>2. stack \in Seq(WriterSet) /\ Len(stack) >= 1 /\ Len(stack) <= made + 1 /\ Kind(stack[1]) = "base"
  BY <1>1 DEF Stacked
<1>3. made \in 0 .. MaxWriters /\ at \in 0 .. MaxWriters + 1 /\ (phase = "finalising" => at <= Top)
  BY DEF TypeInv, StackInv
<1>4. MaxWriters \in Nat /\ MaxData \in Nat BY DEF WriterStackAssumption
<1>5. Top = Len(stack) /\ Top \in Nat BY <1>2 DEF Top
<1>6. accepted \in Nat BY <1>4 DEF TypeInv
<1>7. Live \in 0 .. Top /\ (phase = "open" => Live = Top) BY <1>3, <1>4, <1>5 DEF Live
<1> HIDE DEF Live
<1> QED BY <1>1, <1>2, <1>3, <1>4, <1>5, <1>6, <1>7

\* What the state says of a key that is being written.
LEMMA KeyFacts ==
  ASSUME TypeInv
  PROVE  /\ job \in JobSet /\ (job.at = "none" => ~job.armoured)
         /\ phase = "finalising" => job = Idle \/ job = [at |-> "packets", armoured |-> TRUE]
         /\ job.at = "encrypted_part" => Top >= 2 /\ Kind(stack[Top]) = "encrypt"
         /\ job.armoured /\ job.at # "failed" =>
              KeyAt(stack, IF job.at = "encrypted_part" THEN Top - 1 ELSE Top)
BY DEF TypeInv, KeyInv

\* Which writer is the armour of a key depends on the writers up to it only.
LEMMA KeyAtLike ==
  ASSUME NEW s \in Seq(WriterSet), NEW t, NEW k \in Nat, KeyAt(s, k),
         t \in Seq(WriterSet), k <= Len(t), \A i \in 1 .. k : t[i].id = s[i].id
  PROVE  KeyAt(t, k)
<1>1. \A i \in 1 .. k : Kind(t[i]) = Kind(s[i]) BY DEF Kind
<1>2. k >= 2 /\ k \in 1 .. k /\ Kind(s[k]) = "base64" /\ \A i \in 1 .. k - 1 : i \in 1 .. k
  BY DEF KeyAt
<1>3. \A i \in 1 .. k - 1 : Kind(s[i]) \notin Finalised BY DEF KeyAt
<1> QED BY <1>1, <1>2, <1>3 DEF KeyAt

\* A write leaves behind it what it should.
LEMMA WriteTypes ==
  ASSUME TypeInv, phase # "closed", NEW xs \in Seq(PieceSet),
         NEW top \in 0 .. Live, NEW o \in Outcomes(xs, top), NEW report, Written(o, top, report)
  PROVE  /\ out' \in Seq(PieceSet) /\ intact' \in BOOLEAN /\ out' = o.out
         /\ Like(stack, o.stack, top) /\ Stacked(o.stack, made, Live)
         /\ o.good \in BOOLEAN /\ (~o.good => ~intact')
         /\ intact' => intact /\ ~o.fails
<1>1. /\ stack \in Seq(WriterSet) /\ Top \in Nat /\ Top = Len(stack)
      /\ Stacked(stack, made, Live) /\ Live \in 0 .. Top /\ made \in Nat
  BY StackFacts
<1>2. out \in Seq(PieceSet) /\ intact \in BOOLEAN BY DEF TypeInv
<1> HIDE DEF Live, Top
<1>3. top \in 0 .. Len(stack) /\ top \in Nat /\ Live \in Nat /\ top <= Live BY <1>1
<1>4. /\ Like(stack, o.stack, top) /\ o.out \in Seq(PieceSet)
      /\ o.good \in BOOLEAN /\ o.fails \in BOOLEAN /\ (~o.good => o.fails)
  BY <1>1, <1>2, <1>3, OutcomeFacts
<1>5. Stacked(o.stack, made, Live) BY <1>1, <1>3, <1>4, StackedLike
<1>6. out' = o.out /\ intact' = (intact /\ ~o.fails) BY DEF Written
<1> QED BY <1>2, <1>4, <1>5, <1>6

\* Writers that are pushed.
LEMMA PushOneTypes ==
  ASSUME made \in 0 .. MaxWriters, NEW s, Stacked(s, made, Len(s)),
         NEW w \in WriterSet, w.id[2] = made + 1, w.pending <=> Kind(w) \in Finalised,
         w.held # <<>> => Kind(w) \in Buffering, Kind(w) # "sign", Push(s, <<w>>)
  PROVE  /\ made' \in 0 .. MaxWriters /\ made' = made + 1 /\ Plus(s, w, stack')
         /\ Stacked(stack', made', Len(stack'))
<1>1. Len(<<w>>) = 1 OBVIOUS
<1>2. made + 1 <= MaxWriters /\ made' = made + 1 /\ stack' = s \o <<w>> BY <1>1 DEF Push, Fits
<1>3. made \in Nat /\ MaxWriters \in Nat /\ s \in Seq(WriterSet)
  BY DEF WriterStackAssumption, Stacked
<1>4. Plus(s, w, stack') BY <1>2, <1>3, PlusOne
<1>5. made' \in 0 .. MaxWriters BY <1>2, <1>3
<1> DEFINE t == stack'
<1>6. Plus(s, w, t) BY <1>4
<1> HIDE DEF t
<1>7. Stacked(t, made + 1, Len(t)) BY <1>3, <1>6, StackedPlus
<1> QED BY <1>2, <1>4, <1>5, <1>7 DEF t

\* A stack stays well formed when two writers are pushed together.
LEMMA PushTwoTypes ==
  ASSUME made \in 0 .. MaxWriters, NEW s, Stacked(s, made, Len(s)),
         NEW w \in WriterSet, w.id[2] = made + 1, w.pending <=> Kind(w) \in Finalised,
         w.held # <<>> => Kind(w) \in Buffering, Kind(w) # "sign",
         NEW x \in WriterSet, x.id[2] = made + 2, x.pending <=> Kind(x) \in Finalised,
         Bare(x), Kind(x) = "sign" => w.id = <<"partial", made + 1>>, Push(s, <<w, x>>)
  PROVE  /\ made' \in 0 .. MaxWriters /\ made' = made + 2
         /\ Stacked(stack', made', Len(stack'))
         /\ \E t : Plus(s, w, t) /\ Plus(t, x, stack')
<1>1. Len(<<w, x>>) = 2 OBVIOUS
<1>2. made + 2 <= MaxWriters /\ made' = made + 2 /\ stack' = s \o <<w, x>> BY <1>1 DEF Push, Fits
<1>3. made \in Nat /\ MaxWriters \in Nat /\ s \in Seq(WriterSet)
  BY DEF WriterStackAssumption, Stacked
<1>4. PICK t : Plus(s, w, t) /\ Plus(t, x, stack') BY <1>2, <1>3, PlusTwo
<1>5. made' \in 0 .. MaxWriters BY <1>2, <1>3
<1> DEFINE m == made + 1
           r == stack'
<1>6. Stacked(t, m, Len(t)) BY <1>3, <1>4, StackedPlus
<1>7. t[Len(t)] = w BY <1>4 DEF Plus
<1>8. m \in Nat /\ m + 1 = made + 2 BY <1>3
<1>9. Plus(t, x, r) BY <1>4
<1>10. Kind(x) = "sign" => t[Len(t)].id = <<"partial", m>> BY <1>7
<1>11. x.held # <<>> => Kind(x) \in Buffering BY DEF Bare
<1>12. x.id[2] = m + 1 BY <1>8
<1> HIDE DEF r, m
<1>13. Stacked(r, m + 1, Len(r)) BY <1>6, <1>8, <1>9, <1>10, <1>11, <1>12, StackedPlus
<1> QED BY <1>2, <1>4, <1>5, <1>8, <1>13 DEF r

-----------------------------------------------------------------------------
(* Pushing, in a state. *)

\* While the stack is open what is written has gone through all of it.
LEMMA OpenNow ==
  ASSUME TypeInv, phase = "open", NEW v, DataInv(v)
  PROVE  OpenData(stack, out, made, accepted, v) /\ Encrypts
<1>1. Live = Len(stack) /\ Top = Len(stack) /\ Len(stack) \in Nat BY StackFacts DEF Live, Top
<1>2. Text = Ids(stack, Len(stack)) BY <1>1 DEF Text
<1>3. Signing = SignIds(stack)
 <2>1. \A i \in 1 .. Top : i <= Live + 1 BY <1>1
 <2>2. {i \in 1 .. Top : Kind(stack[i]) = "sign" /\ i <= Live + 1} =
         {i \in 1 .. Len(stack) : Kind(stack[i]) = "sign"}
   BY <1>1, <2>1
 <2> QED BY <2>2 DEF Signing, SignIds
<1> QED BY <1>1, <1>2, <1>3 DEF DataInv, OpenData

\* And that is all that has to be shown of a step after which it is open.
LEMMA OpenNext ==
  ASSUME phase' = "open", Len(stack') \in Nat, Encrypts', NEW v,
         OpenData(stack', out', made', accepted', v)
  PROVE  WrittenInv'
<1>1. Live' = Len(stack') /\ Top' = Len(stack') BY DEF Live, Top
<1>2. Text' = Ids(stack', Len(stack')) BY <1>1 DEF Text
<1>3. Signing' = SignIds(stack')
 <2>1. \A i \in 1 .. Top' : i <= Live' + 1 BY <1>1
 <2>2. {i \in 1 .. Top' : Kind(stack'[i]) = "sign" /\ i <= Live' + 1} =
         {i \in 1 .. Len(stack') : Kind(stack'[i]) = "sign"}
   BY <1>1, <2>1
 <2> QED BY <2>2 DEF Signing, SignIds
<1>4. SignSeen(v)'
 <2>1. ~(Live' < Top') BY <1>1
 <2> QED BY <2>1 DEF SignSeen
<1>5. DataInv(v)' BY <1>1, <1>2, <1>3, <1>4 DEF DataInv, OpenData
<1> QED BY <1>5 DEF WrittenInv

\* No writer encrypts outside of the secret part of a key.
LEMMA NoneEncryptsNow ==
  ASSUME Encrypts, job.at # "encrypted_part" PROVE NoneEncrypts(stack)
BY DEF Encrypts, NoneEncrypts, Top

\* A stack on which no writer encrypts needs no more to be said about it.
LEMMA NoneEncryptsNext ==
  ASSUME job'.at # "failed", NoneEncrypts(stack') PROVE Encrypts'
BY DEF Encrypts, NoneEncrypts, Top

\* Pushing another kind of writer leaves no writer encrypting.
LEMMA NoneEncryptsPlus ==
  ASSUME NEW s \in Seq(WriterSet), NEW w, NEW t, Plus(s, w, t), NoneEncrypts(s), Kind(w) # "encrypt"
  PROVE  NoneEncrypts(t)
<1>1. /\ Len(t) = Len(s) + 1 /\ Len(s) \in Nat
      /\ (\A i \in 1 .. Len(s) : t[i] = s[i]) /\ t[Len(s) + 1] = w
  BY DEF Plus
<1>2. \A i \in 1 .. Len(t) : i \in 1 .. Len(s) \/ i = Len(s) + 1 BY <1>1
<1> QED BY <1>1, <1>2 DEF NoneEncrypts

\* No key is being written.
LEMMA IdleKey ==
  ASSUME job' = Idle PROVE KeyInv'
<1>1. /\ job' = [at |-> "none", armoured |-> FALSE] /\ job'.at = "none"
      /\ job'.armoured = FALSE /\ job' \in JobSet
  BY DEF Idle, JobSet
<1> QED BY <1>1 DEF KeyInv

\* What has been written before the writers N are pushed on top of s.
Ahead(s, o, m, a, N, S, fresh) ==
  NoneEncrypts(s) /\ \E u : Mid(s, o, m, a, N, S, u) /\ (fresh => Fresh(u[Len(s)], N))

\* Before a push nothing has been written for the writers that are pushed.
LEMMA AheadOfNone ==
  ASSUME TypeInv, WrittenInv, phase = "open", intact,
         job.at # "encrypted_part", NEW m \in Nat, made <= m, NEW N, NEW S,
         \A id \in N : id \in WriterIds /\ id[2] > made /\ id[2] <= m /\ (id[1] = "sign" => id \in S),
         SignIds(stack) \subseteq S
  PROVE  Ahead(stack, out, m, accepted, N, S, TRUE)
<1>1. PICK v : DataInv(v) BY DEF WrittenInv
<1>2. OpenData(stack, out, made, accepted, v) /\ NoneEncrypts(stack)
  BY <1>1, OpenNow, NoneEncryptsNow
<1>3. Stacked(stack, made, Len(stack)) /\ made \in Nat BY StackFacts
<1>4. Mid(stack, out, m, accepted, N, S, v) /\ Fresh(v[Len(stack)], N) BY <1>2, <1>3, MidStart
<1> QED BY <1>2, <1>4 DEF Ahead

SameSigns(s, t) == SignIds(t) = SignIds(s)
\* After the write of a push, unless it failed, what has been written is in order and
\* is ahead of the writers that are pushed; a result of ops_false means it failed.
LEMMA AheadOfWrite ==
  ASSUME TypeInv, WrittenInv, phase = "open",
         job.at # "encrypted_part", NEW m \in Nat, made <= m, NEW N, NEW S,
         \A id \in N : id \in WriterIds /\ id[2] > made /\ id[2] <= m /\ (id[1] = "sign" => id \in S),
         SignIds(stack) \subseteq S, NEW xs, Few(xs, N),
         NEW o \in Outcomes(xs, Top), NEW report, Written(o, Top, report), NEW fresh \in BOOLEAN,
         fresh => NoHeader(xs)
  PROVE  /\ Stacked(o.stack, made, Len(o.stack)) /\ SameSigns(stack, o.stack)
         /\ Like(stack, o.stack, Top) /\ Len(o.stack) = Top
         /\ out' \in Seq(PieceSet) /\ intact' \in BOOLEAN
         /\ o.good \in BOOLEAN /\ (~o.good => ~intact')
         /\ intact' => Ahead(o.stack, out', m, accepted, N, S, fresh)
<1>1. /\ stack \in Seq(WriterSet) /\ Top = Len(stack) /\ Live = Top /\ Top \in Nat
      /\ accepted \in Nat /\ made \in Nat /\ Top \in 0 .. Live
  BY StackFacts
<1>2. xs \in Seq(PieceSet) BY DEF Few
<1>3. /\ out' \in Seq(PieceSet) /\ intact' \in BOOLEAN /\ out' = o.out
      /\ Like(stack, o.stack, Top) /\ Stacked(o.stack, made, Live)
      /\ o.good \in BOOLEAN /\ (~o.good => ~intact')
      /\ intact' => intact /\ ~o.fails
  BY <1>1, <1>2, WriteTypes
<1>4. /\ Len(o.stack) = Len(stack) /\ SameSigns(stack, o.stack)
      /\ NoneEncrypts(stack) => NoneEncrypts(o.stack)
  BY <1>1, <1>3, LikeIds DEF SameSigns
<1>5. ASSUME intact' PROVE Ahead(o.stack, out', m, accepted, N, S, fresh)
 <2>1. intact /\ ~o.fails BY <1>3, <1>5
 <2>2. Ahead(stack, out, m, accepted, N, S, TRUE) BY <2>1, AheadOfNone
 <2>3. PICK v : Mid(stack, out, m, accepted, N, S, v) /\ Fresh(v[Len(stack)], N)
   BY <2>2 DEF Ahead
 <2>4. out \in Seq(PieceSet) /\ intact \in BOOLEAN /\ o \in Outcomes(xs, Len(stack))
   BY <1>1 DEF TypeInv
 <2>5. \E u : /\ Mid(o.stack, o.out, m, accepted, N, S, u)
              /\ NoHeader(xs) => Fresh(u[Len(o.stack)], N)
  <3>1. /\ Mid(stack, out, m, accepted, N, S, v) /\ Fresh(v[Len(stack)], N)
        /\ stack \in Seq(WriterSet) /\ accepted \in Nat /\ m \in Nat /\ Few(xs, N)
    BY <1>1, <2>3
  <3> QED BY <2>1, <2>4, <3>1, MidWrite
 <2>6. NoneEncrypts(o.stack) BY <1>4, <2>2 DEF Ahead
 <2> QED BY <1>3, <2>5, <2>6 DEF Ahead
<1> QED BY <1>1, <1>3, <1>4, <1>5

\* Pushing one writer after what was written for it keeps the invariant.
LEMMA PushedOne ==
  ASSUME TypeInv, phase = "open",
         NEW s, Stacked(s, made, Len(s)), NEW w \in WriterSet, w.id[2] = made + 1,
         w.pending <=> Kind(w) \in Finalised, w.held # <<>> => Kind(w) \in Buffering,
         Kind(w) \notin {"sign", "encrypt"}, Few(w.held, {w.id}), w.seen = Before(w.id),
         Push(s, <<w>>), NEW fresh \in BOOLEAN, fresh \/ Bare(w),
         intact' => Ahead(s, out', made + 1, accepted, {w.id}, SignIds(s), fresh),
         accepted' = accepted, phase' = phase, at' = at, job'.at # "failed"
  PROVE  StackInv' /\ WrittenInv'
<1>1. made \in 0 .. MaxWriters /\ made \in Nat /\ accepted \in Nat BY StackFacts
<1>2. /\ made' \in 0 .. MaxWriters /\ made' = made + 1 /\ Plus(s, w, stack')
      /\ Stacked(stack', made', Len(stack'))
  BY <1>1, PushOneTypes
<1>3. StackInv'
 <2>1. Live' = Len(stack') /\ phase' = "open" /\ at' \in 0 .. MaxWriters + 1
   BY DEF Live, Top, TypeInv, StackInv
 <2> QED BY <1>2, <2>1 DEF StackInv
<1>4. s \in Seq(WriterSet) /\ stack' \in Seq(WriterSet) /\ Len(stack') \in Nat BY <1>2 DEF Stacked
<1>5. ASSUME intact' PROVE WrittenInv'
 <2>1. NoneEncrypts(s) BY <1>5 DEF Ahead
 <2>2. PICK u : /\ Mid(s, out', made + 1, accepted, {w.id}, SignIds(s), u)
                /\ fresh => Fresh(u[Len(s)], {w.id})
   BY <1>5 DEF Ahead
 <2>3. SignIds(stack') = SignIds(s)
  <3>1. SignIds(stack') = SignIds(s) \cup IF Kind(w) = "sign" THEN {w.id} ELSE {}
    BY <1>2, <1>4, PlusIds
  <3> QED BY <3>1
 <2>4. made + 1 \in Nat BY <1>1
 <2>5. Fresh(u[Len(s)], {w.id}) \/ Bare(w) BY <2>2
 <2>6. \E q : OpenData(stack', out', made + 1, accepted, q)
   BY <1>1, <1>2, <1>4, <2>2, <2>3, <2>4, <2>5, MidPush
 <2>7. PICK q : OpenData(stack', out', made', accepted', q) BY <1>2, <2>6
 <2>8. Encrypts' BY <1>2, <1>4, <2>1, NoneEncryptsPlus, NoneEncryptsNext
 <2> QED BY <1>4, <2>7, <2>8, OpenNext
<1> QED BY <1>3, <1>5 DEF WrittenInv

\* Pushing two writers after what was written for them keeps the invariant.
LEMMA PushedTwo ==
  ASSUME TypeInv, phase = "open",
         NEW s, Stacked(s, made, Len(s)), NEW w \in WriterSet, w.id[2] = made + 1,
         w.pending <=> Kind(w) \in Finalised, w.held # <<>> => Kind(w) \in Buffering,
         Kind(w) \notin Hashing \cup {"encrypt"},
         NEW x \in WriterSet, x.id[2] = made + 2, x.pending <=> Kind(x) \in Finalised,
         Bare(x), Kind(x) = "sign" => w.id = <<"partial", made + 1>>, Kind(x) # "encrypt",
         Kind(x) \notin Hashing \/ x.seen = Before(x.id),
         NEW N, N = {w.id, x.id}, Few(w.held, N), Push(s, <<w, x>>),
         NEW S, S = SignIds(s) \cup IF Kind(x) = "sign" THEN {x.id} ELSE {},
         NEW fresh \in BOOLEAN, fresh \/ Bare(w),
         intact' => Ahead(s, out', made + 2, accepted, N, S, fresh),
         accepted' = accepted, phase' = phase, at' = at, job'.at # "failed"
  PROVE  StackInv' /\ WrittenInv'
<1>1. made \in 0 .. MaxWriters /\ made \in Nat /\ accepted \in Nat BY StackFacts
<1>0. Kind(w) # "sign" BY DEF Hashing
<1>2. /\ made' \in 0 .. MaxWriters /\ made' = made + 2
      /\ Stacked(stack', made', Len(stack'))
      /\ \E t : Plus(s, w, t) /\ Plus(t, x, stack')
  BY <1>0, <1>1, PushTwoTypes
<1>3. StackInv'
 <2>1. Live' = Len(stack') /\ phase' = "open" /\ at' \in 0 .. MaxWriters + 1
   BY DEF Live, Top, TypeInv, StackInv
 <2> QED BY <1>2, <2>1 DEF StackInv
<1>6. PICK t : Plus(s, w, t) /\ Plus(t, x, stack') BY <1>2
<1>4. /\ s \in Seq(WriterSet) /\ stack' \in Seq(WriterSet) /\ Len(stack') \in Nat
      /\ t \in Seq(WriterSet)
  BY <1>2, <1>6 DEF Stacked, Plus
<1>5. ASSUME intact' PROVE WrittenInv'
 <2>1. NoneEncrypts(s) BY <1>5 DEF Ahead
 <2>2. PICK u : /\ Mid(s, out', made + 2, accepted, N, S, u)
                /\ fresh => Fresh(u[Len(s)], N)
   BY <1>5 DEF Ahead
 <2>3. S = SignIds(stack')
  <3>3. SignIds(t) = SignIds(s) \cup IF Kind(w) = "sign" THEN {w.id} ELSE {}
    BY <1>4, <1>6, PlusIds
  <3>1. SignIds(t) = SignIds(s) BY <1>0, <3>3
  <3>2. SignIds(stack') = SignIds(t) \cup IF Kind(x) = "sign" THEN {x.id} ELSE {}
    BY <1>4, <1>6, PlusIds
  <3> QED BY <3>1, <3>2
 <2>4. made + 2 \in Nat BY <1>1
 <2>5. Fresh(u[Len(s)], N) \/ Bare(w) BY <2>2
 <2>10. Kind(w) \notin Hashing OBVIOUS
 <2> DEFINE r == stack'
            p == out'
            m == made + 2
 <2>11. /\ Plus(t, x, r) /\ S = SignIds(r) /\ Mid(s, p, m, accepted, N, S, u)
        /\ w \in WriterSet /\ x \in WriterSet /\ N = {w.id, x.id} /\ Few(w.held, N)
        /\ Bare(x) /\ (Kind(x) \notin Hashing \/ x.seen = Before(x.id))
   BY <1>6, <2>2, <2>3
 <2> HIDE DEF r, p, m
 <2>12. m \in Nat BY <2>4 DEF m
 <2>13. \E q : OpenData(r, p, m, accepted, q)
   BY ONLY <1>1, <1>4, <1>6, <2>5, <2>10, <2>11, <2>12, MidPushTwo
 <2>6. \E q : OpenData(stack', out', made + 2, accepted, q) BY <2>13 DEF r, p, m
 <2>7. PICK q : OpenData(stack', out', made', accepted', q) BY <1>2, <2>6
 <2>8. NoneEncrypts(stack')
  <3>1. NoneEncrypts(t) BY <1>4, <1>6, <2>1, NoneEncryptsPlus
  <3> QED BY <1>4, <1>6, <3>1, NoneEncryptsPlus
 <2>9. Encrypts' BY <2>8, NoneEncryptsNext
 <2> QED BY <1>4, <2>7, <2>9, OpenNext
<1> QED BY <1>3, <1>5 DEF WrittenInv

-----------------------------------------------------------------------------
(* Pushing, function by function. *)

\* The next writers have the next numbers.
LEMMA NewWriter ==
  ASSUME made \in Nat, NEW k \in 1 .. 2, made + k <= MaxWriters,
         NEW kind \in Kinds, NEW w, w = New(kind, k)
  PROVE  /\ w \in WriterSet /\ w.id = <<kind, made + k>> /\ Kind(w) = kind
         /\ w.id[1] = kind /\ w.id[2] = made + k /\ w.id \in WriterIds
         /\ w.pending <=> Kind(w) \in Finalised
         /\ Bare(w) /\ (kind # "stream_encrypt" => w.seen = Before(w.id))
         /\ \A N : Few(w.held, N)
<1> DEFINE n == made + k
<1>1. n \in 0 .. MaxWriters BY DEF WriterStackAssumption
<1>2. w = Writer(kind, n) BY DEF New
<1> HIDE DEF n
<1>3. /\ w \in WriterSet /\ w.id = <<kind, n>> /\ Kind(w) = kind
      /\ w.id[2] = n /\ w.id[1] = kind /\ w.id \in WriterIds
      /\ w.pending = (kind \in Finalised) /\ Bare(w) /\ w.seen = <<>>
  BY <1>1, <1>2, WriterTypes
<1>4. kind # "stream_encrypt" => w.seen = Before(w.id) BY <1>3 DEF Before
<1>5. \A N : Few(w.held, N)
 <2>1. w.held = <<>> BY <1>3 DEF Bare
 <2> QED BY <2>1 DEF Few
<1> QED BY <1>3, <1>4, <1>5 DEF n

\* A piece that opens is at most one.
LEMMA FewOne ==
  ASSUME NEW x, NEW N, Opening(x, N), NEW xs, Single(xs, x)
  PROVE  Few(xs, N) /\ xs \in Seq(PieceSet) /\ Len(xs) = 1 /\ xs[1] = x
<1>1. x \in PieceSet BY DEF Opening
<1>2. xs \in Seq(PieceSet) /\ Len(xs) = 1 /\ xs[1] = x BY <1>1, SingleFacts
<1> QED BY <1>2 DEF Few

\* A partial writer is pushed with the header of its packet in what it holds.
LEMMA NewPartial ==
  ASSUME made \in Nat, made + 1 <= MaxWriters,
         NEW w, w = WithHeader(New("partial", 1))
  PROVE  /\ w \in WriterSet /\ w.id = <<"partial", made + 1>> /\ Kind(w) = "partial"
         /\ w.id[2] = made + 1 /\ w.id[1] = "partial" /\ w.id \in WriterIds
         /\ w.pending <=> Kind(w) \in Finalised
         /\ Kind(w) \in Buffering /\ Kind(w) \notin Hashing
         /\ w.seen = Before(w.id)
         /\ \A N : w.id \in N => Few(w.held, N)
<1> DEFINE n == made + 1
           x == Writer("partial", n)
<1>1. n \in 0 .. MaxWriters BY DEF WriterStackAssumption
<1>2. w = WithHeader(x) BY DEF New
<1> HIDE DEF n
<1>3. /\ w \in WriterSet /\ w.id = <<"partial", n>> /\ Kind(w) = "partial" /\ w.id[2] = n
      /\ w.id \in WriterIds /\ w.pending /\ w.seen = <<>>
      /\ w.held = <<Header(x)>> /\ Header(w) = Header(x)
  BY <1>1, <1>2, WithHeaderFacts
<1>4. w.seen = Before(w.id) /\ w.id[1] = "partial" BY <1>3 DEF Before
<1>5. /\ Header(w) \in PieceSet /\ Header(w).what = "header" /\ Header(w).by = w.id
      /\ Header(w).through = {}
  BY <1>3, OwnPieces
<1>6. "partial" \in Finalised /\ "partial" \in Buffering /\ "partial" \notin Hashing
  BY DEF Finalised, Buffering, Hashing
<1>7. ASSUME NEW N, w.id \in N PROVE Few(w.held, N)
 <2> DEFINE h == Header(w)
 <2>1. h \in PieceSet /\ h.what = "header" /\ h.by = w.id /\ h.through = {} BY <1>5
 <2>2. Single(w.held, h) BY <1>3 DEF Single
 <2> HIDE DEF h
 <2>3. Opening(h, N) BY <1>3, <1>4, <1>6, <1>7, <2>1 DEF Opening
 <2> QED BY <2>2, <2>3, FewOne
<1> QED BY <1>3, <1>4, <1>6, <1>7 DEF n

\* What announces a writer before it is pushed.
LEMMA FewHeader ==
  ASSUME NEW w \in WriterSet, w.id[1] \in Finalised \cup {"dash"},
         NEW N, w.id \in N, NEW xs, Single(xs, Header(w))
  PROVE  Few(xs, N)
<1> DEFINE h == Header(w)
<1>1. h \in PieceSet /\ h.what = "header" /\ h.by = w.id /\ h.through = {} BY OwnPieces
<1>2. w.id \in WriterIds /\ Single(xs, h) BY DEF WriterSet
<1> HIDE DEF h
<1>3. Opening(h, N) BY <1>1, <1>2 DEF Opening
<1> QED BY <1>2, <1>3, FewOne

\* A session key or a one-pass signature is a piece that is no header.
LEMMA FewPiece ==
  ASSUME NEW id \in WriterIds, NEW N, id \in N,
         NEW what \in {"session_key", "one_pass"}, NEW xs, Single(xs, Piece(what, id, 0, <<>>))
  PROVE  Few(xs, N) /\ NoHeader(xs)
<1> DEFINE e == <<>>
           x == Piece(what, id, 0, e)
<1>1. e \in Seq(NameSet) /\ 0 \in 0 .. MaxData BY DEF WriterStackAssumption
<1>2. what \in Whats /\ id \in WriterIds \cup {<<"app", 0>>} BY DEF Whats
<1>3. Single(xs, x) OBVIOUS
<1> HIDE DEF e
<1>4. x \in PieceSet /\ x.what = what /\ x.by = id /\ x.through = {} BY <1>1, <1>2, PieceTypes
<1> HIDE DEF x
<1>5. Opening(x, N) BY <1>4 DEF Opening
<1>6. xs \in Seq(PieceSet) /\ Len(xs) = 1 /\ xs[1] = x /\ Few(xs, N) BY <1>3, <1>5, FewOne
<1>8. NoHeader(xs) BY <1>4, <1>6 DEF NoHeader
<1> QED BY <1>6, <1>8

\* When no key is being written nothing of one has failed.
LEMMA IdleFacts ==
  ASSUME job = Idle PROVE job.at = "none" /\ job.at # "encrypted_part" /\ job.at # "failed"
BY DEF Idle

\* Where the writers are not pushed the write has failed.
LEMMA NotPushed ==
  ASSUME TypeInv, phase = "open", NEW s, Stacked(s, made, Len(s)),
         stack' = s, made' = made, phase' = phase, at' = at, ~intact'
  PROVE  StackInv' /\ WrittenInv'
<1>1. Live' = Len(stack') /\ phase' = "open" /\ at' \in 0 .. MaxWriters + 1 /\ made \in 0 .. MaxWriters
  BY DEF Live, Top, TypeInv, StackInv
<1>2. StackInv' BY <1>1 DEF StackInv
<1> QED BY <1>2 DEF WrittenInv

\* PushArmouredMessage keeps the invariant: the armour header is the last thing written
\* outside of it.
LEMMA PushArmouredMessageStep ==
  ASSUME TypeInv, WrittenInv, PushArmouredMessage PROVE TypeInv' /\ WrittenInv'
<1> DEFINE w == New("base64", 1)
           xs == <<Header(w)>>
           N == {w.id}
           S == SignIds(stack)
           m == made + 1
<1>1. /\ phase = "open" /\ job = Idle
      /\ accepted' = accepted /\ job' = job /\ phase' = phase /\ at' = at
  BY DEF PushArmouredMessage, ReadyFor, Ready, Unmoved
<1>2. PICK o \in Outcomes(xs, Top) : Written(o, Top, FALSE) /\ Push(o.stack, <<w>>)
  BY DEF PushArmouredMessage
<1>3. made + 1 <= MaxWriters /\ made \in Nat
 <2>1. Len(<<w>>) = 1 OBVIOUS
 <2> QED BY <1>1, <1>2, <2>1, StackFacts DEF Push, Fits
<1>4. "base64" \in Kinds /\ "base64" \in Finalised /\ 1 \in 1 .. 2 /\ w = New("base64", 1)
  BY DEF Kinds, Finalised
<1> HIDE DEF w
<1>5. /\ w \in WriterSet /\ w.id = <<"base64", made + 1>> /\ Kind(w) = "base64"
      /\ w.id[1] = "base64" /\ w.id[2] = made + 1 /\ w.id \in WriterIds
      /\ w.pending <=> Kind(w) \in Finalised
      /\ Bare(w) /\ w.seen = Before(w.id) /\ Few(w.held, N)
  BY <1>3, <1>4, NewWriter
<1>6. Single(xs, Header(w)) BY DEF Single
<1> HIDE DEF xs
<1>7. Few(xs, N) BY <1>4, <1>5, <1>6, FewHeader
<1>8. \A id \in N : id \in WriterIds /\ id[2] > made /\ id[2] <= m /\ (id[1] = "sign" => id \in S)
  BY <1>3, <1>5
<1>9. m \in Nat /\ made <= m /\ job.at # "encrypted_part" /\ job'.at # "failed"
      /\ SignIds(stack) \subseteq S
  BY <1>1, <1>3, IdleFacts
<1> HIDE DEF N, m, S
<1>10. /\ Stacked(o.stack, made, Len(o.stack)) /\ SameSigns(stack, o.stack)
       /\ out' \in Seq(PieceSet) /\ intact' \in BOOLEAN
       /\ intact' => Ahead(o.stack, out', m, accepted, N, S, FALSE)
  BY <1>1, <1>2, <1>7, <1>8, <1>9, AheadOfWrite
<1>11. StackInv' /\ WrittenInv'
 <2>1. Kind(w) \notin {"sign", "encrypt"} /\ (w.held # <<>> => Kind(w) \in Buffering)
   BY <1>5 DEF Bare
 <2>2. intact' => Ahead(o.stack, out', made + 1, accepted, {w.id}, SignIds(o.stack), FALSE)
   BY <1>10 DEF N, m, S, SameSigns
 <2> QED BY <1>1, <1>2, <1>5, <1>9, <1>10, <2>1, <2>2, PushedOne DEF N
<1>12. KeyInv' BY <1>1, IdleKey
<1> QED BY <1>1, <1>10, <1>11, <1>12 DEF TypeInv

\* PushStreamEncrypt keeps the invariant: the session key goes before the packet, whose
\* header the MDC begins with.
LEMMA PushStreamEncryptStep ==
  ASSUME TypeInv, WrittenInv, PushStreamEncrypt PROVE TypeInv' /\ WrittenInv'
<1> DEFINE w == WithHeader(New("partial", 1))
           e == New("stream_encrypt", 2)
           x == [e EXCEPT !.seen = Preamble(Header(New("partial", 1)))]
           xs == <<Piece("session_key", e.id, 0, <<>>)>>
           N == {w.id, x.id}
           S == SignIds(stack)
           m == made + 2
<1>1. /\ phase = "open" /\ job = Idle
      /\ accepted' = accepted /\ job' = job /\ phase' = phase /\ at' = at
  BY DEF PushStreamEncrypt, ReadyFor, Ready, Unmoved
<1>2. PICK o \in Outcomes(xs, Top) : Written(o, Top, FALSE) /\ Push(o.stack, <<w, x>>)
  BY DEF PushStreamEncrypt
<1>3. made + 2 <= MaxWriters /\ made + 1 <= MaxWriters /\ made \in Nat
 <2>1. Len(<<w, x>>) = 2 OBVIOUS
 <2>2. made \in Nat /\ MaxWriters \in Nat BY <1>1, StackFacts
 <2>3. made + 2 <= MaxWriters BY <1>2, <2>1 DEF Push, Fits
 <2> QED BY <2>2, <2>3
<1>4. /\ "stream_encrypt" \in Kinds /\ "stream_encrypt" \in Finalised /\ 2 \in 1 .. 2
      /\ w = WithHeader(New("partial", 1)) /\ e = New("stream_encrypt", 2)
  BY DEF Kinds, Finalised
<1>13. Preamble(Header(New("partial", 1))) =
         <<[what |-> "header", by |-> <<"partial", made + 1>>, n |-> 0]>>
  BY DEF Preamble, Name, Header, Piece, New, Writer
<1> DEFINE h == Preamble(Header(New("partial", 1)))
<1>14. x = [e EXCEPT !.seen = h] OBVIOUS
<1> HIDE DEF w, e, x, h
<1>5. /\ w \in WriterSet /\ w.id = <<"partial", made + 1>> /\ Kind(w) = "partial"
      /\ w.id[1] = "partial" /\ w.id[2] = made + 1 /\ w.id \in WriterIds
      /\ w.pending <=> Kind(w) \in Finalised
      /\ Kind(w) \in Buffering /\ Kind(w) \notin Hashing /\ Few(w.held, N)
  BY <1>3, <1>4, NewPartial
<1>15. /\ e \in WriterSet /\ e.id = <<"stream_encrypt", made + 2>> /\ Kind(e) = "stream_encrypt"
       /\ e.id[1] = "stream_encrypt" /\ e.id[2] = made + 2 /\ e.id \in WriterIds
       /\ e.pending <=> Kind(e) \in Finalised
       /\ Bare(e)
  BY <1>3, <1>4, NewWriter
<1>16. /\ x.id = e.id /\ x.pending = e.pending /\ Kind(x) = Kind(e) /\ x.seen = h
       /\ Bare(x)
  BY <1>14, <1>15 DEF WriterSet, Kind, Bare
<1>17. x \in WriterSet
 <2> DEFINE A == Seq(PieceSet)
            B == Seq(NameSet)
 <2>1. WriterSet = [id : WriterIds, pending : BOOLEAN, first : BOOLEAN, held : A, seen : B]
   BY DEF WriterSet
 <2>2. h \in B
  <3> DEFINE z == [what |-> "header", by |-> <<"partial", made + 1>>, n |-> 0]
  <3>1. z \in NameSet
   <4>1. <<"partial", made + 1>> \in WriterIds /\ "header" \in Whats /\ 0 \in 0 .. MaxData
     BY <1>5 DEF Whats, WriterStackAssumption
   <4> QED BY <4>1 DEF NameSet
  <3>2. h = <<z>> BY <1>13 DEF h
  <3> HIDE DEF z
  <3> QED BY <3>1, <3>2
 <2> HIDE DEF A, B
 <2> QED BY <1>14, <1>15, <2>1, <2>2
<1>18. x.seen = Before(x.id)
 <2>1. x.id[1] = "stream_encrypt" /\ x.id[2] - 1 = made + 1 BY <1>3, <1>15, <1>16
 <2> QED BY <1>13, <1>16, <2>1 DEF Before, h
<1>6. Single(xs, Piece("session_key", e.id, 0, <<>>)) /\ e.id \in N BY <1>16 DEF Single
<1> HIDE DEF xs
<1>8. \A id \in N : id \in WriterIds /\ id[2] > made /\ id[2] <= m /\ (id[1] = "sign" => id \in S)
  BY <1>3, <1>5, <1>15, <1>16
<1>9. m \in Nat /\ made <= m /\ job.at # "encrypted_part" /\ job'.at # "failed"
      /\ SignIds(stack) \subseteq S /\ N = {w.id, x.id}
  BY <1>1, <1>3, IdleFacts
<1> HIDE DEF N, m, S
<1>7. Few(xs, N) /\ NoHeader(xs) BY <1>6, <1>15, FewPiece
<1>10. /\ Stacked(o.stack, made, Len(o.stack)) /\ SameSigns(stack, o.stack)
       /\ out' \in Seq(PieceSet) /\ intact' \in BOOLEAN
       /\ intact' => Ahead(o.stack, out', m, accepted, N, S, TRUE)
  BY <1>1, <1>2, <1>7, <1>8, <1>9, AheadOfWrite
<1>11. StackInv' /\ WrittenInv'
 <2>1. /\ Kind(w) \notin Hashing \cup {"encrypt"} /\ Kind(x) # "encrypt" /\ Kind(x) # "sign"
       /\ (x.pending <=> Kind(x) \in Finalised) /\ x.id[2] = made + 2
   BY <1>5, <1>15, <1>16
 <2>2. S = SignIds(o.stack) \cup IF Kind(x) = "sign" THEN {x.id} ELSE {}
   BY <1>10, <2>1 DEF S, SameSigns
 <2>3. intact' => Ahead(o.stack, out', made + 2, accepted, N, S, TRUE) BY <1>10 DEF m
 <2> QED BY <1>1, <1>2, <1>5, <1>9, <1>10, <1>16, <1>17, <1>18, <2>1, <2>2, <2>3, PushedTwo
<1>12. KeyInv' BY <1>1, IdleKey
<1> QED BY <1>1, <1>10, <1>11, <1>12 DEF TypeInv

\* PushCompressed keeps the invariant: the packet begins in what the partial writer
\* holds.
LEMMA PushCompressedStep ==
  ASSUME TypeInv, WrittenInv, PushCompressed PROVE TypeInv' /\ WrittenInv'
<1> DEFINE w == WithHeader(New("partial", 1))
           x == New("compress", 2)
           N == {w.id, x.id}
           S == SignIds(stack)
           m == made + 2
<1>1. /\ phase = "open" /\ job = Idle
      /\ accepted' = accepted /\ job' = job /\ phase' = phase /\ at' = at
      /\ out' = out /\ intact' = intact
  BY DEF PushCompressed, ReadyFor, Ready, Unmoved
<1>2. Push(stack, <<w, x>>) BY DEF PushCompressed
<1>3. made + 2 <= MaxWriters /\ made + 1 <= MaxWriters /\ made \in Nat
 <2>1. Len(<<w, x>>) = 2 OBVIOUS
 <2>2. made \in Nat /\ MaxWriters \in Nat BY <1>1, StackFacts
 <2>3. made + 2 <= MaxWriters BY <1>2, <2>1 DEF Push, Fits
 <2> QED BY <2>2, <2>3
<1>4. /\ "compress" \in Kinds /\ 2 \in 1 .. 2
      /\ w = WithHeader(New("partial", 1)) /\ x = New("compress", 2)
  BY DEF Kinds, Finalised
<1> HIDE DEF w, x
<1>5. /\ w \in WriterSet /\ w.id = <<"partial", made + 1>> /\ Kind(w) = "partial"
      /\ w.id[1] = "partial" /\ w.id[2] = made + 1 /\ w.id \in WriterIds
      /\ w.pending <=> Kind(w) \in Finalised
      /\ Kind(w) \in Buffering /\ Kind(w) \notin Hashing /\ Few(w.held, N)
  BY <1>3, <1>4, NewPartial
<1>6. /\ x \in WriterSet /\ Kind(x) = "compress" /\ x.id[1] = "compress" /\ x.id[2] = made + 2
      /\ x.id \in WriterIds /\ (x.pending <=> Kind(x) \in Finalised) /\ Bare(x)
      /\ x.seen = Before(x.id)
  BY <1>3, <1>4, NewWriter
<1>8. \A id \in N : id \in WriterIds /\ id[2] > made /\ id[2] <= m /\ (id[1] = "sign" => id \in S)
  BY <1>3, <1>5, <1>6
<1>9. m \in Nat /\ made <= m /\ job.at # "encrypted_part" /\ job'.at # "failed"
      /\ SignIds(stack) \subseteq S /\ N = {w.id, x.id}
  BY <1>1, <1>3, IdleFacts
<1> HIDE DEF N, m, S
<1>10. intact => Ahead(stack, out, m, accepted, N, S, TRUE) BY <1>1, <1>8, <1>9, AheadOfNone
<1>11. StackInv' /\ WrittenInv'
 <2>1. Kind(w) \notin Hashing \cup {"encrypt"} /\ Kind(x) # "encrypt" /\ Kind(x) # "sign"
   BY <1>5, <1>6
 <2>2. S = SignIds(stack) \cup IF Kind(x) = "sign" THEN {x.id} ELSE {} BY <2>1 DEF S
 <2>3. intact' => Ahead(stack, out', made + 2, accepted, N, S, TRUE) BY <1>1, <1>10 DEF m
 <2>4. Stacked(stack, made, Len(stack)) BY <1>1, StackFacts
 <2> QED BY <1>1, <1>2, <1>5, <1>6, <1>9, <2>1, <2>2, <2>3, <2>4, PushedTwo
<1>12. KeyInv' BY <1>1, IdleKey
<1>13. out' \in Seq(PieceSet) /\ intact' \in BOOLEAN BY <1>1 DEF TypeInv
<1> QED BY <1>1, <1>11, <1>12, <1>13 DEF TypeInv

\* PushLiteral keeps the invariant: the packet begins in what the partial writer holds.
LEMMA PushLiteralStep ==
  ASSUME TypeInv, WrittenInv, PushLiteral PROVE TypeInv' /\ WrittenInv'
<1> DEFINE w == WithHeader(New("partial", 1))
           N == {w.id}
           S == SignIds(stack)
           m == made + 1
<1>1. /\ phase = "open" /\ job = Idle
      /\ accepted' = accepted /\ job' = job /\ phase' = phase /\ at' = at
      /\ out' = out /\ intact' = intact
  BY DEF PushLiteral, ReadyFor, Ready, Unmoved
<1>2. Push(stack, <<w>>) BY DEF PushLiteral
<1>3. made + 1 <= MaxWriters /\ made \in Nat
 <2>1. Len(<<w>>) = 1 OBVIOUS
 <2> QED BY <1>1, <1>2, <2>1, StackFacts DEF Push, Fits
<1>4. w = WithHeader(New("partial", 1)) OBVIOUS
<1> HIDE DEF w
<1>5. /\ w \in WriterSet /\ w.id = <<"partial", made + 1>> /\ Kind(w) = "partial"
      /\ w.id[1] = "partial" /\ w.id[2] = made + 1 /\ w.id \in WriterIds
      /\ w.pending <=> Kind(w) \in Finalised
      /\ Kind(w) \in Buffering /\ Kind(w) \notin Hashing /\ Few(w.held, N)
      /\ w.seen = Before(w.id)
  BY <1>3, <1>4, NewPartial
<1>8. \A id \in N : id \in WriterIds /\ id[2] > made /\ id[2] <= m /\ (id[1] = "sign" => id \in S)
  BY <1>3, <1>5
<1>9. m \in Nat /\ made <= m /\ job.at # "encrypted_part" /\ job'.at # "failed"
      /\ SignIds(stack) \subseteq S
  BY <1>1, <1>3, IdleFacts
<1> HIDE DEF N, m, S
<1>10. intact => Ahead(stack, out, m, accepted, N, S, TRUE) BY <1>1, <1>8, <1>9, AheadOfNone
<1>11. StackInv' /\ WrittenInv'
 <2>1. Kind(w) \notin {"sign", "encrypt"} /\ (w.held # <<>> => Kind(w) \in Buffering) BY <1>5
 <2>2. intact' => Ahead(stack, out', made + 1, accepted, {w.id}, SignIds(stack), TRUE)
   BY <1>1, <1>10 DEF N, m, S
 <2>3. Stacked(stack, made, Len(stack)) BY <1>1, StackFacts
 <2> QED BY <1>1, <1>2, <1>5, <1>9, <2>1, <2>2, <2>3, PushedOne DEF N
<1>12. KeyInv' BY <1>1, IdleKey
<1>13. out' \in Seq(PieceSet) /\ intact' \in BOOLEAN BY <1>1 DEF TypeInv
<1> QED BY <1>1, <1>11, <1>12, <1>13 DEF TypeInv

\* PushSigned keeps the invariant: the one-pass signature goes before the packet it
\* announces.
LEMMA PushSignedStep ==
  ASSUME TypeInv, WrittenInv, PushSigned PROVE TypeInv' /\ WrittenInv'
<1> DEFINE w == WithHeader(New("partial", 1))
           x == New("sign", 2)
           xs == <<Piece("one_pass", x.id, 0, <<>>)>>
           N == {w.id, x.id}
           S == SignIds(stack) \cup {x.id}
           m == made + 2
<1>1. /\ phase = "open" /\ job = Idle
      /\ accepted' = accepted /\ job' = job /\ phase' = phase /\ at' = at
  BY DEF PushSigned, ReadyFor, Ready, Unmoved
<1>2. PICK o \in Outcomes(xs, Top) : Written(o, Top, FALSE) /\ PushIf(o, <<w, x>>)
  BY DEF PushSigned
<1>3. made + 2 <= MaxWriters /\ made + 1 <= MaxWriters /\ made \in Nat
 <2>1. Len(<<w, x>>) = 2 OBVIOUS
 <2>2. made \in Nat /\ MaxWriters \in Nat BY <1>1, StackFacts
 <2>3. made + 2 <= MaxWriters BY <1>2, <2>1 DEF PushIf, Fits
 <2> QED BY <2>2, <2>3
<1>4. /\ "sign" \in Kinds /\ 2 \in 1 .. 2
      /\ w = WithHeader(New("partial", 1)) /\ x = New("sign", 2)
  BY DEF Kinds
<1> HIDE DEF w, x
<1>5. /\ w \in WriterSet /\ w.id = <<"partial", made + 1>> /\ Kind(w) = "partial"
      /\ w.id[1] = "partial" /\ w.id[2] = made + 1 /\ w.id \in WriterIds
      /\ w.pending <=> Kind(w) \in Finalised
      /\ Kind(w) \in Buffering /\ Kind(w) \notin Hashing /\ Few(w.held, N)
  BY <1>3, <1>4, NewPartial
<1>15. /\ x \in WriterSet /\ Kind(x) = "sign" /\ x.id[1] = "sign" /\ x.id[2] = made + 2
       /\ x.id \in WriterIds /\ (x.pending <=> Kind(x) \in Finalised) /\ Bare(x)
       /\ x.seen = Before(x.id)
  BY <1>3, <1>4, NewWriter
<1>6. Single(xs, Piece("one_pass", x.id, 0, <<>>)) /\ x.id \in N BY DEF Single
<1> HIDE DEF xs
<1>8. \A id \in N : id \in WriterIds /\ id[2] > made /\ id[2] <= m /\ (id[1] = "sign" => id \in S)
  BY <1>3, <1>5, <1>15
<1>9. m \in Nat /\ made <= m /\ job.at # "encrypted_part" /\ job'.at # "failed"
      /\ SignIds(stack) \subseteq S /\ N = {w.id, x.id}
  BY <1>1, <1>3, IdleFacts
<1> HIDE DEF N, m, S
<1>7. Few(xs, N) /\ NoHeader(xs) BY <1>6, <1>15, FewPiece
<1>10. /\ Stacked(o.stack, made, Len(o.stack)) /\ SameSigns(stack, o.stack)
       /\ out' \in Seq(PieceSet) /\ intact' \in BOOLEAN
       /\ o.good \in BOOLEAN /\ (~o.good => ~intact')
       /\ intact' => Ahead(o.stack, out', m, accepted, N, S, TRUE)
  BY <1>1, <1>2, <1>7, <1>8, <1>9, AheadOfWrite
<1>11. ASSUME o.good PROVE StackInv' /\ WrittenInv'
 <2>1. Kind(w) \notin Hashing \cup {"encrypt"} /\ Kind(x) # "encrypt" BY <1>5, <1>15
 <2>2. S = SignIds(o.stack) \cup IF Kind(x) = "sign" THEN {x.id} ELSE {}
   BY <1>10, <1>15 DEF S, SameSigns
 <2>3. intact' => Ahead(o.stack, out', made + 2, accepted, N, S, TRUE) BY <1>10 DEF m
 <2>4. Push(o.stack, <<w, x>>) BY <1>2, <1>11 DEF PushIf
 <2> QED BY <1>1, <1>5, <1>9, <1>10, <1>15, <2>1, <2>2, <2>3, <2>4, PushedTwo
<1>14. ASSUME ~o.good PROVE StackInv' /\ WrittenInv'
 <2>1. stack' = o.stack /\ made' = made BY <1>2, <1>14 DEF PushIf
 <2> QED BY <1>1, <1>10, <1>14, <2>1, NotPushed
<1>12. KeyInv' BY <1>1, IdleKey
<1> QED BY <1>1, <1>10, <1>11, <1>12, <1>14 DEF TypeInv

\* PushClearsigned keeps the invariant: the line with the hash begins the text.
LEMMA PushClearsignedStep ==
  ASSUME TypeInv, WrittenInv, PushClearsigned PROVE TypeInv' /\ WrittenInv'
<1> DEFINE w == New("dash", 1)
           xs == <<Header(w)>>
           N == {w.id}
           S == SignIds(stack)
           m == made + 1
<1>1. /\ phase = "open" /\ job = Idle
      /\ accepted' = accepted /\ job' = job /\ phase' = phase /\ at' = at
  BY DEF PushClearsigned, ReadyFor, Ready, Unmoved
<1>2. PICK o \in Outcomes(xs, Top) : Written(o, Top, ~o.good) /\ PushIf(o, <<w>>)
  BY DEF PushClearsigned
<1>3. made + 1 <= MaxWriters /\ made \in Nat
 <2>1. Len(<<w>>) = 1 OBVIOUS
 <2> QED BY <1>1, <1>2, <2>1, StackFacts DEF PushIf, Fits
<1>4. "dash" \in Kinds /\ "dash" \notin Finalised /\ 1 \in 1 .. 2 /\ w = New("dash", 1)
  BY DEF Kinds, Finalised
<1> HIDE DEF w
<1>5. /\ w \in WriterSet /\ w.id = <<"dash", made + 1>> /\ Kind(w) = "dash"
      /\ w.id[1] = "dash" /\ w.id[2] = made + 1 /\ w.id \in WriterIds
      /\ w.pending <=> Kind(w) \in Finalised
      /\ Bare(w) /\ w.seen = Before(w.id) /\ Few(w.held, N)
  BY <1>3, <1>4, NewWriter
<1>6. Single(xs, Header(w)) BY DEF Single
<1> HIDE DEF xs
<1>7. Few(xs, N) BY <1>4, <1>5, <1>6, FewHeader
<1>8. \A id \in N : id \in WriterIds /\ id[2] > made /\ id[2] <= m /\ (id[1] = "sign" => id \in S)
  BY <1>3, <1>5
<1>9. m \in Nat /\ made <= m /\ job.at # "encrypted_part" /\ job'.at # "failed"
      /\ SignIds(stack) \subseteq S
  BY <1>1, <1>3, IdleFacts
<1> HIDE DEF N, m, S
<1> DEFINE report == ~o.good
<1>16. Written(o, Top, report) BY <1>2
<1> HIDE DEF report
<1>10. /\ Stacked(o.stack, made, Len(o.stack)) /\ SameSigns(stack, o.stack)
       /\ out' \in Seq(PieceSet) /\ intact' \in BOOLEAN
       /\ o.good \in BOOLEAN /\ (~o.good => ~intact')
       /\ intact' => Ahead(o.stack, out', m, accepted, N, S, FALSE)
  BY <1>1, <1>7, <1>8, <1>9, <1>16, AheadOfWrite
<1>11. ASSUME o.good PROVE StackInv' /\ WrittenInv'
 <2>1. Kind(w) \notin {"sign", "encrypt"} /\ (w.held # <<>> => Kind(w) \in Buffering)
   BY <1>5 DEF Bare
 <2>2. intact' => Ahead(o.stack, out', made + 1, accepted, {w.id}, SignIds(o.stack), FALSE)
   BY <1>10 DEF N, m, S, SameSigns
 <2>3. Push(o.stack, <<w>>) BY <1>2, <1>11 DEF PushIf
 <2> QED BY <1>1, <1>5, <1>9, <1>10, <2>1, <2>2, <2>3, PushedOne DEF N
<1>14. ASSUME ~o.good PROVE StackInv' /\ WrittenInv'
 <2>1. stack' = o.stack /\ made' = made BY <1>2, <1>14 DEF PushIf
 <2> QED BY <1>1, <1>10, <1>14, <2>1, NotPushed
<1>12. KeyInv' BY <1>1, IdleKey
<1> QED BY <1>1, <1>10, <1>11, <1>12, <1>14 DEF TypeInv

\* The stack without the writer on top.
LEMMA FrontPlus ==
  ASSUME NEW s \in Seq(WriterSet), Len(s) >= 1 PROVE Plus(Front(s), s[Len(s)], s)
<1> DEFINE n == Len(s) - 1
           t == Front(s)
<1>1. t \in Seq(WriterSet) /\ Len(t) = n /\ \A i \in 1 .. n : t[i] = s[i] BY FrontFacts
<1>2. n \in Nat /\ Len(s) = n + 1 OBVIOUS
<1> HIDE DEF n, t
<1> QED BY <1>1, <1>2 DEF Plus, t

\* What has been written is what it was, whatever becomes of the key.
LEMMA SameOpen ==
  ASSUME TypeInv, WrittenInv, phase = "open", job.at # "encrypted_part",
         stack' = stack, out' = out, made' = made, accepted' = accepted, intact' = intact,
         phase' = phase, at' = at, job'.at # "failed", KeyInv'
  PROVE  TypeInv' /\ WrittenInv'
<1>1. Live' = Len(stack') /\ phase' = "open" BY DEF Live, Top
<1>2. Stacked(stack, made, Len(stack)) /\ Len(stack) \in Nat BY StackFacts DEF Stacked
<1>3. StackInv'
 <2>1. made \in 0 .. MaxWriters /\ at \in 0 .. MaxWriters + 1 BY DEF TypeInv, StackInv
 <2> QED BY <1>1, <1>2, <2>1 DEF StackInv
<1>4. TypeInv' BY <1>3 DEF TypeInv
<1>5. ASSUME intact' PROVE WrittenInv'
 <2>1. intact BY <1>5
 <2>2. PICK v : DataInv(v) BY <2>1 DEF WrittenInv
 <2>3. OpenData(stack', out', made', accepted', v) /\ NoneEncrypts(stack)
   BY <2>2, OpenNow, NoneEncryptsNow
 <2>4. Encrypts' /\ Len(stack') \in Nat BY <1>2, <2>3, NoneEncryptsNext
 <2> QED BY <1>1, <2>3, <2>4, OpenNext
<1> QED BY <1>4, <1>5 DEF WrittenInv

\* Data is written to the writer on top.
LEMMA DataWritten ==
  ASSUME TypeInv, WrittenInv, phase = "open", job.at # "encrypted_part",
         accepted < MaxData, accepted' = accepted + 1,
         NEW xs, Single(xs, Data(accepted + 1)), NEW o \in Outcomes(xs, Top),
         Written(o, Top, FALSE), stack' = o.stack, made' = made, phase' = phase, at' = at,
         o.good => job'.at # "failed"
  PROVE  /\ StackInv' /\ WrittenInv' /\ out' \in Seq(PieceSet) /\ intact' \in BOOLEAN
         /\ accepted' \in 0 .. MaxData /\ Like(stack, stack', Top)
<1>1. /\ stack \in Seq(WriterSet) /\ Top = Len(stack) /\ Live = Top /\ Top \in Nat
      /\ accepted \in Nat /\ made \in Nat /\ Top \in 0 .. Live /\ MaxData \in Nat
      /\ Stacked(stack, made, Len(stack))
  BY StackFacts
<1>2. accepted + 1 \in 0 .. MaxData BY <1>1
<1> DEFINE x == Data(accepted + 1)
<1>3. x \in PieceSet /\ x.what = "data" /\ x.by = <<"app", 0>> /\ x.n = accepted + 1 /\ x.through = {}
  BY <1>2, DataPieces
<1>4. xs \in Seq(PieceSet) /\ Single(xs, x) BY <1>3, SingleFacts
<1> HIDE DEF x
<1>5. /\ out' \in Seq(PieceSet) /\ intact' \in BOOLEAN /\ out' = o.out
      /\ Like(stack, o.stack, Top) /\ Stacked(o.stack, made, Live)
      /\ o.good \in BOOLEAN /\ (~o.good => ~intact')
      /\ intact' => intact /\ ~o.fails
  BY <1>1, <1>4, WriteTypes
<1>6. Len(stack') = Len(stack) /\ (NoneEncrypts(stack) => NoneEncrypts(stack'))
  BY <1>1, <1>5, LikeIds
<1>7. StackInv'
 <2>1. Live' = Len(stack') /\ phase' = "open" /\ at' \in 0 .. MaxWriters + 1 /\ made \in 0 .. MaxWriters
   BY DEF Live, Top, TypeInv, StackInv
 <2>2. Stacked(stack', made', Live') BY <1>1, <1>5, <1>6, <2>1
 <2> QED BY <2>1, <2>2 DEF StackInv
<1>8. ASSUME intact' PROVE WrittenInv'
 <2>1. intact /\ ~o.fails /\ o.good BY <1>5, <1>8
 <2>2. PICK v : DataInv(v) BY <2>1 DEF WrittenInv
 <2>3. OpenData(stack, out, made, accepted, v) /\ NoneEncrypts(stack)
   BY <2>2, OpenNow, NoneEncryptsNow
 <2>4. /\ out \in Seq(PieceSet) /\ intact \in BOOLEAN /\ o \in Outcomes(xs, Len(stack))
       /\ x.what \in {"data", "secret"} /\ (x.what = "secret" <=> ~NoneEncrypts(stack))
   BY <1>1, <1>3, <2>3 DEF TypeInv
 <2>5. \E u : OpenData(o.stack, o.out, made, accepted + 1, u)
   BY <1>1, <1>3, <1>4, <2>1, <2>3, <2>4, OpenWrite
 <2>6. PICK u : OpenData(stack', out', made', accepted', u) BY <1>5, <2>5
 <2>7. Encrypts' /\ Len(stack') \in Nat BY <1>1, <1>6, <2>1, <2>3, NoneEncryptsNext
 <2> QED BY <2>6, <2>7, OpenNext
<1> QED BY <1>2, <1>5, <1>7, <1>8 DEF WrittenInv

\* Write keeps the invariant: a piece of data goes through all that are open.
LEMMA WriteStep ==
  ASSUME TypeInv, WrittenInv, Write PROVE TypeInv' /\ WrittenInv'
<1> DEFINE xs == <<Data(accepted + 1)>>
<1>1. /\ phase = "open" /\ job = Idle /\ accepted < MaxData /\ accepted' = accepted + 1
      /\ made' = made /\ job' = job /\ phase' = phase /\ at' = at
  BY DEF Write, Ready
<1>2. PICK o \in Outcomes(xs, Top) : Written(o, Top, FALSE) /\ stack' = o.stack BY <1>1 DEF Write
<1>3. Single(xs, Data(accepted + 1)) BY DEF Single
<1> HIDE DEF xs
<1>4. job.at # "encrypted_part" /\ job'.at # "failed" BY <1>1, IdleFacts
<1>5. /\ StackInv' /\ WrittenInv' /\ out' \in Seq(PieceSet) /\ intact' \in BOOLEAN
      /\ accepted' \in 0 .. MaxData
  BY <1>1, <1>2, <1>3, <1>4, DataWritten
<1>6. KeyInv' BY <1>1, IdleKey
<1> QED BY <1>5, <1>6 DEF TypeInv

\* KeyPacket keeps the invariant: a packet in the clear goes through all that are open.
LEMMA KeyPacketStep ==
  ASSUME TypeInv, WrittenInv, KeyPacket PROVE TypeInv' /\ WrittenInv'
<1> DEFINE xs == <<Data(accepted + 1)>>
<1>1. /\ phase = "open" /\ job.at \in {"packets", "public_part"}
      /\ accepted < MaxData /\ accepted' = accepted + 1
      /\ made' = made /\ phase' = phase /\ at' = at
  BY DEF KeyPacket
<1>2. PICK o \in Outcomes(xs, Top) :
        /\ Written(o, Top, FALSE) /\ stack' = o.stack
        /\ job' = [job EXCEPT !.at = IF ~o.good THEN "failed"
                                     ELSE IF @ = "packets" THEN @ ELSE "secret_part"]
  BY <1>1 DEF KeyPacket
<1>3. Single(xs, Data(accepted + 1)) BY DEF Single
<1> HIDE DEF xs
<1>4. job \in JobSet /\ (job.armoured => KeyAt(stack, Top)) BY <1>1, KeyFacts
<1>5. /\ job' \in JobSet /\ job'.armoured = job.armoured
      /\ job'.at \in {"failed", "packets", "secret_part"}
      /\ o.good => job'.at # "failed"
  BY <1>1, <1>2, <1>4 DEF JobSet
<1>6. /\ StackInv' /\ WrittenInv' /\ out' \in Seq(PieceSet) /\ intact' \in BOOLEAN
      /\ accepted' \in 0 .. MaxData /\ Like(stack, stack', Top)
 <2>1. job.at # "encrypted_part" /\ stack' = o.stack BY <1>1, <1>2
 <2> QED BY <1>1, <1>2, <1>3, <1>5, <2>1, DataWritten
<1>7. stack \in Seq(WriterSet) /\ Top = Len(stack) /\ Top \in Nat BY <1>1, StackFacts
<1>8. stack' \in Seq(WriterSet) /\ Len(stack') = Top /\ Top' = Top /\ \A i \in 1 .. Top : stack'[i].id = stack[i].id
  BY <1>6, <1>7, LikeIds DEF Top
<1>9. job.armoured => KeyAt(stack', Top')
 <2> HIDE DEF Top
 <2>1. Top <= Len(stack') BY <1>7, <1>8
 <2>2. job.armoured => KeyAt(stack', Top) BY <1>4, <1>7, <1>8, <2>1, KeyAtLike
 <2> QED BY <1>8, <2>2
<1>10. KeyInv'
 <2>1. /\ job'.at # "none" /\ job'.at # "encrypted_part" /\ phase' = "open" BY <1>1, <1>5
 <2> QED BY <1>5, <1>9, <2>1 DEF KeyInv
<1> QED BY <1>6, <1>10 DEF TypeInv

\* The armour of a key, on top of writers none of which waits for its end.
LEMMA PlusKey ==
  ASSUME NEW s \in Seq(WriterSet), Len(s) >= 1, \A i \in 1 .. Len(s) : Kind(s[i]) \notin Finalised,
         NEW w, NEW t, Plus(s, w, t), NEW x, NEW r, Plus(t, x, r),
         Kind(w) \notin Finalised, Kind(x) = "base64"
  PROVE  KeyAt(r, Len(r))
<1> DEFINE n == Len(s)
<1>1. /\ n \in Nat /\ n >= 1 /\ Len(t) = n + 1 /\ Len(r) = n + 2
      /\ \A i \in 1 .. n : t[i] = s[i]
      /\ t[n + 1] = w /\ \A i \in 1 .. n + 1 : r[i] = t[i]
      /\ r[n + 2] = x
  BY DEF Plus
<1>2. \A i \in 1 .. n : Kind(s[i]) \notin Finalised OBVIOUS
<1> HIDE DEF n
<1>3. ASSUME NEW i \in 1 .. n + 1 PROVE Kind(r[i]) \notin Finalised
 <2>1. CASE i = n + 1 BY <1>1, <2>1
 <2>2. CASE i # n + 1
  <3>1. i \in 1 .. n BY <1>1, <2>2
  <3> QED BY <1>1, <1>2, <3>1
 <2> QED BY <2>1, <2>2
<1> QED BY <1>1, <1>3 DEF KeyAt

\* BeginKey keeps the invariant: an armoured key begins where no writer waits for its
\* end.
LEMMA BeginKeyStep ==
  ASSUME TypeInv, WrittenInv, NEW armoured \in BOOLEAN,
         NEW secret \in BOOLEAN, BeginKey(armoured, secret)
  PROVE  TypeInv' /\ WrittenInv'
<1> DEFINE a == IF secret THEN "public_part" ELSE "packets"
<1>1. /\ phase = "open" /\ job = Idle /\ job' = [at |-> a, armoured |-> armoured]
      /\ accepted' = accepted /\ phase' = phase /\ at' = at
  BY DEF BeginKey, Ready
<1>2. a \in {"public_part", "packets"} OBVIOUS
<1> HIDE DEF a
<1>3. /\ job' \in JobSet /\ job'.at = a /\ job'.armoured = armoured
      /\ job'.at \notin {"none", "encrypted_part", "failed"}
  BY <1>1, <1>2 DEF JobSet
<1>4. job.at # "encrypted_part" BY <1>1, IdleFacts
<1>5. (armoured => KeyAt(stack', Len(stack'))) => KeyInv' BY <1>1, <1>3 DEF KeyInv, Top
<1>6. CASE ~armoured
 <2>1. UNCHANGED <<stack, made, out, errors, intact>> BY <1>6 DEF BeginKey
 <2>2. KeyInv' BY <1>5, <1>6
 <2> QED BY <1>1, <1>3, <1>4, <2>1, <2>2, SameOpen
<1>7. CASE armoured
 <2> DEFINE w == New("linebreak", 1)
            x == New("base64", 2)
            xs == <<Header(x)>>
            N == {w.id, x.id}
            S == SignIds(stack)
            m == made + 2
 <2>1. PICK o \in Outcomes(xs, Top) : Written(o, Top, FALSE) /\ Push(o.stack, <<w, x>>)
   BY <1>7 DEF BeginKey
 <2>2. \A y \in Range(stack) : ~y.pending BY <1>7 DEF BeginKey
 <2>3. made + 2 <= MaxWriters /\ made + 1 <= MaxWriters /\ made \in Nat
  <3>1. Len(<<w, x>>) = 2 OBVIOUS
  <3>2. made \in Nat /\ MaxWriters \in Nat BY <1>1, StackFacts
  <3>3. made + 2 <= MaxWriters BY <2>1, <3>1 DEF Push, Fits
  <3> QED BY <3>2, <3>3
 <2>4. /\ "linebreak" \in Kinds /\ "base64" \in Kinds /\ "base64" \in Finalised
       /\ "linebreak" \notin Finalised /\ 1 \in 1 .. 2 /\ 2 \in 1 .. 2
       /\ w = New("linebreak", 1) /\ x = New("base64", 2)
   BY DEF Kinds, Finalised
 <2> HIDE DEF w, x
 <2>5. /\ w \in WriterSet /\ w.id = <<"linebreak", made + 1>> /\ Kind(w) = "linebreak"
       /\ w.id[1] = "linebreak" /\ w.id[2] = made + 1 /\ w.id \in WriterIds
       /\ w.pending <=> Kind(w) \in Finalised
       /\ Bare(w) /\ w.seen = Before(w.id) /\ Few(w.held, N)
   BY <2>3, <2>4, NewWriter
 <2>6. /\ x \in WriterSet /\ x.id = <<"base64", made + 2>> /\ Kind(x) = "base64"
       /\ x.id[1] = "base64" /\ x.id[2] = made + 2 /\ x.id \in WriterIds
       /\ x.pending <=> Kind(x) \in Finalised
       /\ Bare(x) /\ x.seen = Before(x.id)
   BY <2>3, <2>4, NewWriter
 <2>7. Single(xs, Header(x)) /\ x.id \in N BY DEF Single
 <2> HIDE DEF xs
 <2>8. \A id \in N : id \in WriterIds /\ id[2] > made /\ id[2] <= m /\ (id[1] = "sign" => id \in S)
   BY <2>3, <2>5, <2>6
 <2>9. /\ m \in Nat /\ made <= m /\ SignIds(stack) \subseteq S /\ N = {w.id, x.id} BY <2>3
 <2> HIDE DEF N, m, S
 <2>10. Few(xs, N) BY <2>4, <2>6, <2>7, FewHeader
 <2>11. /\ Stacked(o.stack, made, Len(o.stack)) /\ SameSigns(stack, o.stack)
        /\ Like(stack, o.stack, Top) /\ Len(o.stack) = Top
        /\ out' \in Seq(PieceSet) /\ intact' \in BOOLEAN
        /\ intact' => Ahead(o.stack, out', m, accepted, N, S, FALSE)
   BY <1>1, <1>4, <2>1, <2>8, <2>9, <2>10, AheadOfWrite
 <2>12. /\ w.held # <<>> => Kind(w) \in Buffering
        /\ Kind(w) \notin Hashing \cup {"encrypt"} /\ Kind(w) # "sign"
        /\ Kind(x) # "encrypt" /\ Kind(x) # "sign"
   BY <2>5, <2>6 DEF Bare, Hashing
 <2>13. StackInv' /\ WrittenInv'
  <3>1. S = SignIds(o.stack) \cup IF Kind(x) = "sign" THEN {x.id} ELSE {}
    BY <2>6, <2>11 DEF S, SameSigns
  <3>2. intact' => Ahead(o.stack, out', made + 2, accepted, N, S, FALSE) BY <2>11 DEF m
  <3>3. job'.at # "failed" BY <1>3
  <3> QED BY <1>1, <2>1, <2>5, <2>6, <2>9, <2>11, <2>12, <3>1, <3>2, <3>3, PushedTwo
 <2>14. KeyAt(stack', Len(stack'))
  <3>1. /\ made \in 0 .. MaxWriters
        /\ stack \in Seq(WriterSet) /\ Top = Len(stack) /\ Top >= 1 /\ Top \in Nat
        /\ Stacked(stack, made, Len(stack))
    BY <1>1, StackFacts DEF TypeInv, StackInv
  <3>2. PICK t : Plus(o.stack, w, t) /\ Plus(t, x, stack')
    BY <2>1, <2>5, <2>6, <2>11, <2>12, <3>1, PushTwoTypes
  <3>3. o.stack \in Seq(WriterSet) /\ Len(o.stack) = Len(stack) /\ Len(o.stack) >= 1
    BY <2>11, <3>1, LikeIds
  <3>4. ASSUME NEW i \in 1 .. Len(o.stack) PROVE Kind(o.stack[i]) \notin Finalised
   <4>1. i \in 1 .. Len(stack) /\ i \in DOMAIN stack BY <3>1, <3>3, <3>4
   <4>2. o.stack[i].id = stack[i].id BY <2>11, <4>1 DEF Like
   <4>3. ~stack[i].pending BY <2>2, <4>1 DEF Range
   <4>4. Kind(stack[i]) \notin Finalised BY <3>1, <4>1, <4>3 DEF Stacked
   <4> QED BY <4>2, <4>4 DEF Kind
  <3> QED BY <2>4, <2>5, <2>6, <3>2, <3>3, <3>4, PlusKey
 <2> QED BY <1>1, <1>5, <2>11, <2>13, <2>14 DEF TypeInv
<1> QED BY <1>6, <1>7

\* PushEncrypt keeps the invariant: nothing has gone through the encrypting writer.
LEMMA PushEncryptStep ==
  ASSUME TypeInv, WrittenInv, PushEncrypt PROVE TypeInv' /\ WrittenInv'
<1> DEFINE w == New("encrypt", 1)
           N == {w.id}
           S == SignIds(stack)
           m == made + 1
<1>1. /\ phase = "open" /\ job.at = "secret_part" /\ Push(stack, <<w>>)
      /\ job' = [job EXCEPT !.at = "encrypted_part"]
      /\ accepted' = accepted /\ phase' = phase /\ at' = at /\ out' = out /\ intact' = intact
  BY DEF PushEncrypt
<1>2. made + 1 <= MaxWriters /\ made \in Nat
 <2>1. Len(<<w>>) = 1 OBVIOUS
 <2> QED BY <1>1, <2>1, StackFacts DEF Push, Fits
<1>3. /\ "encrypt" \in Kinds /\ "encrypt" \notin Finalised /\ "encrypt" \notin Hashing
      /\ 1 \in 1 .. 2 /\ w = New("encrypt", 1)
  BY DEF Kinds, Finalised, Hashing
<1> HIDE DEF w
<1>4. /\ w \in WriterSet /\ Kind(w) = "encrypt" /\ w.id[1] = "encrypt" /\ w.id[2] = made + 1
      /\ w.id \in WriterIds /\ (w.pending <=> Kind(w) \in Finalised)
      /\ Bare(w) /\ w.seen = Before(w.id) /\ Few(w.held, N)
  BY <1>2, <1>3, NewWriter
<1>5. \A id \in N : id \in WriterIds /\ id[2] > made /\ id[2] <= m /\ (id[1] = "sign" => id \in S)
  BY <1>2, <1>4
<1>6. m \in Nat /\ made <= m /\ SignIds(stack) \subseteq S BY <1>2
<1>7. /\ stack \in Seq(WriterSet) /\ Top = Len(stack) /\ Top \in Nat /\ Top >= 1
      /\ Stacked(stack, made, Len(stack)) /\ made \in 0 .. MaxWriters /\ accepted \in Nat
      /\ out \in Seq(PieceSet) /\ intact \in BOOLEAN
  BY <1>1, StackFacts DEF TypeInv, StackInv
<1>8. (w.held # <<>> => Kind(w) \in Buffering) /\ Kind(w) # "sign" BY <1>4 DEF Bare
<1>9. /\ made' \in 0 .. MaxWriters /\ made' = made + 1 /\ Plus(stack, w, stack')
      /\ Stacked(stack', made', Len(stack'))
  BY <1>1, <1>4, <1>7, <1>8, PushOneTypes
<1>10. /\ stack' \in Seq(WriterSet) /\ Len(stack') = Top + 1 /\ Top' = Top + 1
       /\ stack'[Top + 1] = w /\ \A i \in 1 .. Top : stack'[i] = stack[i]
  BY <1>7, <1>9 DEF Plus, Top
<1>11. /\ job' \in JobSet /\ job'.at = "encrypted_part" /\ job'.armoured = job.armoured
       /\ job.armoured => KeyAt(stack, Top)
  BY <1>1, KeyFacts DEF JobSet
<1>12. StackInv'
 <2>1. Live' = Len(stack') /\ phase' = "open" /\ at' \in 0 .. MaxWriters + 1
   BY <1>1 DEF Live, Top, TypeInv, StackInv
 <2> QED BY <1>9, <2>1 DEF StackInv
<1>13. KeyInv'
 <2> HIDE DEF Top
 <2>1. job.armoured => KeyAt(stack', Top)
  <3>1. Top <= Len(stack') /\ \A i \in 1 .. Top : stack'[i].id = stack[i].id BY <1>7, <1>10
  <3> QED BY <1>7, <1>10, <1>11, <3>1, KeyAtLike
 <2>2. Top' >= 2 /\ Kind(stack'[Top']) = "encrypt" /\ Top' - 1 = Top BY <1>4, <1>7, <1>10
 <2>3. phase' = "open" BY <1>1
 <2> QED BY <1>11, <2>1, <2>2, <2>3 DEF KeyInv
<1>14. ASSUME intact' PROVE WrittenInv'
 <2> HIDE DEF N, S, m
 <2>1. intact /\ job.at # "encrypted_part" BY <1>1, <1>14
 <2>2. Ahead(stack, out, m, accepted, N, S, TRUE) BY <1>1, <1>5, <1>6, <2>1, AheadOfNone
 <2>3. NoneEncrypts(stack) /\ \E u : Mid(stack, out, m, accepted, N, S, u) BY <2>2 DEF Ahead
 <2>4. PICK u : Mid(stack, out, made + 1, accepted, {w.id}, S, u) BY <2>3 DEF m, N
 <2>5. S = SignIds(stack')
  <3>1. SignIds(stack') = SignIds(stack) \cup IF Kind(w) = "sign" THEN {w.id} ELSE {}
    BY <1>7, <1>9, PlusIds
  <3> QED BY <1>8, <3>1 DEF S
 <2>6. made + 1 \in Nat /\ Few(w.held, {w.id}) BY <1>2, <1>4 DEF N
 <2>7. \E q : OpenData(stack', out, made + 1, accepted, q)
   BY <1>4, <1>7, <1>9, <2>4, <2>5, <2>6, MidPush
 <2>8. PICK q : OpenData(stack', out', made', accepted', q) BY <1>1, <1>9, <2>7
 <2>9. Encrypts'
  <3>1. ASSUME NEW i \in 1 .. Top', Kind(stack'[i]) = "encrypt" PROVE i = Top'
   <4>1. i \in 1 .. Top => FALSE BY <1>7, <1>10, <2>3, <3>1 DEF NoneEncrypts
   <4> HIDE DEF Top
   <4> QED BY <1>7, <1>10, <4>1
  <3>2. phase' = "open" BY <1>1
  <3> QED BY <1>11, <3>1, <3>2 DEF Encrypts
 <2>10. phase' = "open" /\ Len(stack') \in Nat BY <1>1, <1>10
 <2> QED BY <2>8, <2>9, <2>10, OpenNext
<1>15. WrittenInv' BY <1>14 DEF WrittenInv
<1> QED BY <1>1, <1>7, <1>12, <1>13, <1>15 DEF TypeInv

\* A writer that has nothing to end is taken away again.
LEMMA OpenFront ==
  ASSUME NEW s, NEW m \in Nat, Stacked(s, m, Len(s)), Len(s) >= 2,
         Kind(s[Len(s)]) \notin Finalised \cup {"sign"},
         NEW o, NEW a, NEW v, OpenData(s, o, m, a, v)
  PROVE  \E u : OpenData(Front(s), o, m, a, u)
<1> DEFINE n == Len(s)
           t == Front(s)
           k == n - 1
           w == s[n]
           L == Ids(s, n)
           S == SignIds(s)
<1>1. s \in Seq(WriterSet) /\ n \in Nat /\ n >= 2 /\ n \in 1 .. n BY DEF Stacked
<1>2. k \in 0 .. n /\ k \in Nat /\ k + 1 = n /\ k \in 0 .. Len(s) /\ n \in 0 .. Len(s) BY <1>1
<1>3. Bare(w)
 <2>1. w.held # <<>> => Kind(w) \in Buffering BY <1>1 DEF Stacked
 <2>2. Kind(w) \notin Buffering BY DEF Buffering, Finalised
 <2> QED BY <2>1, <2>2 DEF Bare
<1>4. t \in Seq(WriterSet) /\ Len(t) = k /\ \A i \in 1 .. k : t[i] = s[i] BY <1>1, FrontFacts
<1>5. Plus(t, w, s) BY <1>1, FrontPlus
<1>6. /\ Flow(s, n, o, v) /\ SeenAll(s, n, v) /\ Good(v[n], m, L, L, L, S)
      /\ Counted(v[n], a)
  BY DEF OpenData
<1>7. v[n] = v[k] /\ v[n] \in Seq(PieceSet)
 <2>1. v[n] = v[n - 1] \o Lifted(s, n - 1, s[n].held) BY <1>1, <1>6 DEF Flow
 <2>2. v[k] \in Seq(PieceSet) /\ v[n] \in Seq(PieceSet) BY <1>1, <1>2, <1>6, FlowTypes
 <2> DEFINE xs == s[n].held
 <2>3. xs \in Seq(PieceSet) /\ Len(xs) = 0 BY <1>1, <1>3 DEF Bare, WriterSet
 <2>4. v[n] = Behind(v, s, k, xs) BY <2>1 DEF Behind
 <2> HIDE DEF n, k, xs
 <2>5. Behind(v, s, k, xs) = v[k] BY <1>1, <1>2, <2>2, <2>3, BehindNone
 <2> QED BY <2>2, <2>4, <2>5
<1>8. PICK u : Flow(t, k, o, u) /\ SeenAll(t, k, u) /\ u[k] = v[k]
 <2>1. SameTo(s, t, k) BY <1>4 DEF SameTo
 <2> HIDE DEF n, k, t
 <2>2. CutOff(t, k, o, v[k]) BY <1>1, <1>2, <1>6, <2>1, FlowCut
 <2> QED BY <2>2 DEF CutOff
<1> DEFINE L2 == Ids(t, k)
           S2 == SignIds(t)
<1>9. L = L2 \cup {w.id} /\ S = S2
 <2>1. /\ Ids(s, Len(s)) = Ids(t, Len(t)) \cup {w.id}
       /\ SignIds(s) = SignIds(t) \cup IF Kind(w) = "sign" THEN {w.id} ELSE {}
  <3> HIDE DEF t, w
  <3> QED BY <1>4, <1>5, PlusIds
 <2> QED BY <1>4, <2>1
<1> DEFINE ps == v[n]
<1>10. ps \in Seq(PieceSet) /\ Good(ps, m, L, L, L, S) /\ w.id[1] \notin Finalised
  BY <1>6, <1>7 DEF Kind
<1> HIDE DEF ps, L, L2, S, S2, w
<1>11. Good(ps, m, L2, L2, L2, S2)
 <2>1. \A id \in L2 : id \in L \/ (id \in L /\ id[1] \notin Finalised \cup {"sign"}) BY <1>9
 <2>2. (\A id \in L : id[1] \in Finalised => id \in L2) /\ L2 \subseteq L /\ S \subseteq S2
   BY <1>9, <1>10
 <2> QED BY <1>10, <2>1, <2>2, ShrinkGood
<1>12. OpenData(t, o, m, a, u)
 <2>1. u[Len(t)] = ps BY <1>4, <1>7, <1>8 DEF ps
 <2> QED BY <1>4, <1>6, <1>8, <1>11, <2>1 DEF OpenData, ps, L2, S2
<1> QED BY <1>12 DEF t

\* SecretPart keeps the invariant: the secret numbers, and nothing else, go through the
\* encrypting writer.
LEMMA SecretPartStep ==
  ASSUME TypeInv, WrittenInv, SecretPart PROVE TypeInv' /\ WrittenInv'
<1> DEFINE x == Secret(accepted + 1)
           xs == <<x>>
<1>1. /\ phase = "open" /\ job.at = "encrypted_part"
      /\ accepted < MaxData /\ accepted' = accepted + 1
      /\ made' = made /\ phase' = phase /\ at' = at
  BY DEF SecretPart
<1>2. PICK o \in Outcomes(xs, Top) :
        /\ Written(o, Top, FALSE)
        /\ stack' = IF o.good THEN Popped(o.stack) ELSE o.stack
        /\ job' = [job EXCEPT !.at = IF o.good THEN "packets" ELSE "failed"]
  BY <1>1 DEF SecretPart
<1>3. /\ stack \in Seq(WriterSet) /\ Top = Len(stack) /\ Live = Top /\ Top \in Nat
      /\ accepted \in Nat /\ made \in Nat /\ Top \in 0 .. Live /\ MaxData \in Nat
      /\ Stacked(stack, made, Len(stack)) /\ made \in 0 .. MaxWriters
      /\ at \in 0 .. MaxWriters + 1 /\ out \in Seq(PieceSet) /\ intact \in BOOLEAN
  BY <1>1, StackFacts DEF TypeInv, StackInv
<1>4. /\ job \in JobSet /\ Top >= 2 /\ Kind(stack[Top]) = "encrypt"
      /\ job.armoured => KeyAt(stack, Top - 1)
  BY <1>1, KeyFacts
<1>5. accepted + 1 \in 0 .. MaxData BY <1>1, <1>3
<1>6. x \in PieceSet /\ x.what = "secret" /\ x.by = <<"app", 0>> /\ x.n = accepted + 1 /\ x.through = {}
  BY <1>5, DataPieces
<1>7. Single(xs, x) BY DEF Single
<1> HIDE DEF x, xs
<1>8. xs \in Seq(PieceSet) BY <1>6, <1>7, SingleFacts
<1>9. /\ out' \in Seq(PieceSet) /\ intact' \in BOOLEAN /\ out' = o.out
      /\ Like(stack, o.stack, Top) /\ Stacked(o.stack, made, Live)
      /\ o.good \in BOOLEAN /\ (~o.good => ~intact')
      /\ intact' => intact /\ ~o.fails
  BY <1>1, <1>2, <1>3, <1>8, WriteTypes
<1>10. /\ o.stack \in Seq(WriterSet) /\ Len(o.stack) = Top
       /\ \A i \in 1 .. Top : o.stack[i].id = stack[i].id /\ Kind(o.stack[i]) = Kind(stack[i])
       /\ Stacked(o.stack, made, Len(o.stack))
  BY <1>3, <1>9, LikeIds DEF Kind
<1>11. Live' = Len(stack') /\ phase' = "open" /\ Top' = Len(stack') BY <1>1 DEF Live, Top
<1>12. job' \in JobSet /\ job'.armoured = job.armoured /\ job'.at = IF o.good THEN "packets" ELSE "failed"
  BY <1>2, <1>4 DEF JobSet
<1>13. CASE ~o.good
 <2>1. stack' = o.stack /\ made' = made /\ ~intact' /\ job'.at = "failed"
   BY <1>1, <1>2, <1>9, <1>12, <1>13
 <2>2. StackInv' /\ WrittenInv' BY <1>1, <1>10, <2>1, NotPushed
 <2>3. KeyInv' BY <1>11, <1>12, <2>1 DEF KeyInv
 <2> QED BY <1>1, <1>5, <1>9, <2>2, <2>3 DEF TypeInv
<1>14. CASE o.good
 <2> DEFINE s == o.stack
            t == Front(s)
            n == Len(s)
 <2>1. stack' = t /\ job'.at = "packets" BY <1>2, <1>12, <1>14 DEF Popped
 <2>2. n = Top /\ n \in Nat /\ n >= 2 /\ s \in Seq(WriterSet) BY <1>3, <1>4, <1>10
 <2>3. t \in Seq(WriterSet) /\ Len(t) = n - 1 /\ \A i \in 1 .. n - 1 : t[i] = s[i]
  <3> HIDE DEF s
  <3>1. Len(s) >= 1 /\ s \in Seq(WriterSet) BY <2>2
  <3> QED BY <3>1, FrontFacts
 <2>4. Stacked(t, made, Len(t))
  <3>1. n - 1 \in Nat /\ \A i \in 1 .. n - 1 : i <= n /\ i <= n - 1 BY <2>2
  <3>2. \A i \in 1 .. Len(s) - 1 : Kind(s[i]) \in Finalised => (i <= n <=> i <= n - 1)
    BY <2>2, <3>1
  <3>3. Stacked(s, made, n) /\ Len(s) >= 2 BY <1>10, <2>2
  <3> DEFINE k == n - 1
  <3>4. k \in Nat /\ \A i \in 1 .. Len(s) - 1 : Kind(s[i]) \in Finalised => (i <= n <=> i <= k)
    BY <3>1, <3>2
  <3> HIDE DEF k, n, s
  <3>5. Stacked(Front(s), made, k) BY <1>3, <2>2, <3>3, <3>4, StackedFront
  <3> QED BY <2>3, <3>5 DEF k
 <2>5. StackInv' BY <1>1, <1>3, <1>11, <2>1, <2>4 DEF StackInv
 <2>6. KeyInv'
  <3>1. job.armoured => KeyAt(stack', Top')
   <4> DEFINE k == Top - 1
   <4>1. k \in Nat /\ k <= Len(t) /\ Len(t) = k /\ \A i \in 1 .. k : t[i].id = stack[i].id
    <5>1. \A i \in 1 .. n - 1 : i \in 1 .. n BY <2>2
    <5>2. k \in Nat /\ k = n - 1 BY <1>3, <1>4, <2>2
    <5> HIDE DEF s, t, n, k
    <5>3. \A i \in 1 .. k : t[i] = s[i] /\ i \in 1 .. n BY <2>3, <5>1, <5>2
    <5>4. \A i \in 1 .. n : s[i].id = stack[i].id BY <1>10, <2>2 DEF s
    <5> QED BY <2>3, <5>2, <5>3, <5>4
   <4>2. job.armoured => KeyAt(stack, k) BY <1>4
   <4> HIDE DEF k
   <4>3. job.armoured => KeyAt(t, k) BY <1>3, <2>3, <4>1, <4>2, KeyAtLike
   <4> QED BY <1>11, <2>1, <4>1, <4>3
  <3> QED BY <1>11, <1>12, <2>1, <3>1 DEF KeyInv
 <2>7. ASSUME intact' PROVE WrittenInv'
  <3>1. intact /\ ~o.fails BY <1>9, <2>7
  <3>2. PICK v : DataInv(v) BY <3>1 DEF WrittenInv
  <3>3. OpenData(stack, out, made, accepted, v) /\ Encrypts BY <1>1, <3>2, OpenNow
  <3>4. ~NoneEncrypts(stack) BY <1>3, <1>4 DEF NoneEncrypts
  <3>5. x.what \in {"data", "secret"} /\ (x.what = "secret" <=> ~NoneEncrypts(stack))
        /\ o \in Outcomes(xs, Len(stack))
    BY <1>3, <1>6, <3>4
  <3>6. \E u : OpenData(o.stack, o.out, made, accepted + 1, u)
    BY <1>3, <1>6, <1>7, <1>8, <3>1, <3>3, <3>5, OpenWrite
  <3>7. PICK u : OpenData(s, out', made, accepted + 1, u) BY <1>9, <3>6
  <3>8. Kind(s[Len(s)]) \notin Finalised \cup {"sign"}
   <4>1. Kind(s[Len(s)]) = "encrypt" BY <1>4, <1>10, <2>2
   <4> QED BY <4>1 DEF Finalised
  <3>9. \E q : OpenData(t, out', made, accepted + 1, q)
   <4> DEFINE b == accepted + 1
   <4>1. OpenData(s, out', made, b, u) BY <3>7
   <4>2. Stacked(s, made, Len(s)) /\ Len(s) >= 2 BY <1>10, <2>2
   <4> HIDE DEF b, s
   <4> QED BY <1>3, <3>8, <4>1, <4>2, OpenFront DEF b
  <3>10. PICK q : OpenData(stack', out', made', accepted', q) BY <1>1, <2>1, <3>9
  <3>11. NoneEncrypts(stack')
   <4>1. ASSUME NEW i \in 1 .. Len(t) PROVE Kind(t[i]) # "encrypt"
    <5>1. i \in 1 .. Top /\ i # Top /\ i \in 1 .. n - 1 BY <1>3, <2>2, <2>3, <4>1
    <5>2. Kind(stack[i]) # "encrypt" BY <3>3, <5>1 DEF Encrypts
    <5> QED BY <1>10, <2>3, <5>1, <5>2
   <4> QED BY <2>1, <4>1 DEF NoneEncrypts
  <3>12. Encrypts' /\ Len(stack') \in Nat BY <2>1, <2>2, <2>3, <3>11, NoneEncryptsNext
  <3> QED BY <1>11, <3>10, <3>12, OpenNext
 <2> QED BY <1>5, <1>9, <2>1, <2>5, <2>6, <1>1, <2>7 DEF TypeInv, WrittenInv
<1> QED BY <1>9, <1>13, <1>14

\* Finalising begins with the writer on top.
LEMMA FinalisingBegins ==
  ASSUME TypeInv, WrittenInv, phase = "open", job.at # "encrypted_part",
         stack' = stack, out' = out, made' = made, accepted' = accepted, intact' = intact,
         phase' = "finalising", at' = Top, job'.at # "failed", KeyInv'
  PROVE  TypeInv' /\ WrittenInv'
<1>1. /\ stack \in Seq(WriterSet) /\ Top \in Nat /\ Top = Len(stack) /\ Top <= made + 1
      /\ made \in 0 .. MaxWriters /\ MaxWriters \in Nat /\ Live = Top
      /\ Stacked(stack, made, Top)
  BY StackFacts DEF TypeInv, StackInv
<1>2. Live' = Top /\ Top' = Top BY DEF Live, Top
<1>3. StackInv'
 <2> HIDE DEF Top, Live
 <2>1. at' \in 0 .. MaxWriters + 1 /\ at' <= Top' BY <1>1, <1>2
 <2>2. Stacked(stack', made', Live') BY <1>1, <1>2
 <2>3. made' \in 0 .. MaxWriters BY <1>1
 <2> QED BY <2>1, <2>2, <2>3 DEF StackInv
<1>4. TypeInv' BY <1>3 DEF TypeInv
<1>5. ASSUME intact' PROVE WrittenInv'
 <2>1. intact BY <1>5
 <2>2. PICK v : DataInv(v) BY <2>1 DEF WrittenInv
 <2>3. OpenData(stack, out, made, accepted, v) /\ NoneEncrypts(stack)
   BY <2>2, OpenNow, NoneEncryptsNow
 <2> DEFINE L == Ids(stack, Top)
            S == SignIds(stack)
            T == Text'
 <2>4. /\ Flow(stack, Top, out, v) /\ SeenAll(stack, Top, v)
       /\ Good(v[Top], made, L, L, L, S) /\ Counted(v[Top], accepted)
   BY <1>1, <2>3 DEF OpenData
 <2>5. v[Top] \in Seq(PieceSet)
  <3>1. Top \in 0 .. Top BY <1>1
  <3> HIDE DEF Top
  <3> QED BY <1>1, <2>4, <3>1, FlowTypes
 <2>6. T \subseteq L BY <1>2 DEF Text
 <2>7. Signing' = S
  <3>1. \A i \in 1 .. Top : i <= Top + 1 BY <1>1
  <3>2. {i \in 1 .. Top' : Kind(stack'[i]) = "sign" /\ i <= Live' + 1} =
          {i \in 1 .. Len(stack) : Kind(stack[i]) = "sign"}
    BY <1>1, <1>2, <3>1
  <3> QED BY <3>2 DEF Signing, SignIds
 <2>8. Good(v[Top], made, L, L, T, S)
  <3>1. made \in Nat /\ L \subseteq L /\ S \subseteq S /\ \A id \in L : id \in L BY <1>1
  <3> HIDE DEF L, S, T, Top
  <3>2. (\A id \in L : id \in L \/ (id \in L /\ id[1] \notin Finalised \cup {"sign"}))
        /\ (\A id \in L : id[1] \in Finalised => id \in L)
    OBVIOUS
  <3> QED BY <2>4, <2>5, <2>6, <3>1, <3>2, ShrinkGood
 <2>9. Encrypts' BY <2>3, NoneEncryptsNext
 <2>10. SignSeen(v)'
  <3>1. ~(Live' < Top') BY <1>1, <1>2
  <3> QED BY <3>1 DEF SignSeen
 <2>11. DataInv(v)' BY <1>2, <2>4, <2>7, <2>8, <2>9, <2>10 DEF DataInv
 <2> QED BY <2>11 DEF WrittenInv
<1> QED BY <1>4, <1>5 DEF WrittenInv

\* EndKey keeps the invariant: no writer but the armour is finalised with a key.
LEMMA EndKeyStep ==
  ASSUME TypeInv, WrittenInv, EndKey PROVE TypeInv' /\ WrittenInv'
<1>1. /\ phase = "open" /\ job.at = "packets"
      /\ stack' = stack /\ out' = out /\ made' = made /\ accepted' = accepted /\ intact' = intact
  BY DEF EndKey
<1>2. job \in JobSet /\ (job.armoured => KeyAt(stack, Top)) /\ job.at # "encrypted_part"
  BY <1>1, KeyFacts
<1>3. CASE job.armoured
 <2>1. phase' = "finalising" /\ at' = Top /\ job' = job BY <1>3 DEF EndKey
 <2>2. job = [at |-> "packets", armoured |-> TRUE] BY <1>1, <1>2, <1>3 DEF JobSet
 <2>3. KeyInv'
  <3>1. KeyAt(stack', Top') BY <1>1, <1>2, <1>3 DEF Top
  <3>2. job'.at = "packets" /\ job' \in JobSet BY <1>1, <1>2, <2>1
  <3> QED BY <2>1, <2>2, <3>1, <3>2 DEF KeyInv
 <2>4. job'.at # "failed" BY <1>1, <2>1
 <2> QED BY <1>1, <1>2, <2>1, <2>3, <2>4, FinalisingBegins
<1>4. CASE ~job.armoured
 <2>1. job' = Idle /\ phase' = phase /\ at' = at BY <1>4 DEF EndKey
 <2>2. KeyInv' /\ job'.at # "failed" BY <2>1, IdleKey DEF Idle
 <2> QED BY <1>1, <1>2, <2>1, <2>2, SameOpen
<1> QED BY <1>3, <1>4

\* Close keeps the invariant: all that has been written is through all that are
\* finalised.
LEMMA CloseStep ==
  ASSUME TypeInv, WrittenInv, Close PROVE TypeInv' /\ WrittenInv'
<1>1. /\ phase = "open" /\ job.at # "encrypted_part"
      /\ phase' = "finalising" /\ at' = Top /\ job' = Idle
      /\ stack' = stack /\ out' = out /\ made' = made /\ accepted' = accepted /\ intact' = intact
  BY DEF Close
<1>2. KeyInv' /\ job'.at # "failed" BY <1>1, IdleKey DEF Idle
<1> QED BY <1>1, <1>2, FinalisingBegins

\* When all finalisers have been called no signed writer waits for its own.
LEMMA AllCalled ==
  ASSUME TypeInv, phase = "finalising", at = 0
  PROVE  /\ Live = 0 /\ Stacked(stack, made, 0) /\ Signing = {}
         /\ \A i \in 1 .. Top : ~stack[i].pending
<1>1. /\ Live = 0 /\ Stacked(stack, made, 0) /\ stack \in Seq(WriterSet)
      /\ Top = Len(stack) /\ Top \in Nat /\ Kind(stack[1]) = "base"
  BY StackFacts DEF Live
<1>2. \A i \in 1 .. Top : ~stack[i].pending
 <2>1. ASSUME NEW i \in 1 .. Top PROVE ~stack[i].pending
  <3>1. i \in 1 .. Len(stack) /\ ~(i <= 0) BY <1>1
  <3> QED BY <1>1, <3>1 DEF Stacked
 <2> QED BY <2>1
<1>3. Signing = {}
 <2>1. ASSUME NEW i \in 1 .. Top, Kind(stack[i]) = "sign", i <= Live + 1 PROVE FALSE
  <3>1. i = 1 BY <1>1, <2>1
  <3> QED BY <1>1, <2>1, <3>1
 <2>2. {i \in 1 .. Top : Kind(stack[i]) = "sign" /\ i <= Live + 1} = {} BY <2>1
 <2> QED BY <2>2 DEF Signing
<1> QED BY <1>1, <1>2, <1>3

\* Delete keeps the invariant: nothing is held and all has ended.
LEMMA DeleteStep ==
  ASSUME TypeInv, WrittenInv, Delete PROVE TypeInv' /\ WrittenInv'
<1>1. /\ phase = "finalising" /\ at = 0 /\ job = Idle /\ stack' = <<>>
      /\ phase' = IF \E w \in Range(stack) : w.pending THEN "abort" ELSE "closed"
      /\ out' = out /\ made' = made /\ accepted' = accepted /\ intact' = intact
      /\ job' = job /\ at' = at
  BY DEF Delete
<1>2. /\ Live = 0 /\ Signing = {} /\ \A i \in 1 .. Top : ~stack[i].pending
      /\ stack \in Seq(WriterSet) /\ Top = Len(stack) /\ made \in Nat
  BY <1>1, AllCalled, StackFacts
<1>3. phase' = "closed"
 <2>1. \A w \in Range(stack) : ~w.pending BY <1>2 DEF Range
 <2> QED BY <1>1, <2>1
<1>4. StackInv' BY <1>1, <1>3 DEF TypeInv, StackInv
<1>5. KeyInv' BY <1>1, IdleKey
<1>6. TypeInv' BY <1>1, <1>4, <1>5 DEF TypeInv
<1>7. ASSUME intact' PROVE WrittenInv'
 <2>1. PICK v : DataInv(v) BY <1>1, <1>7 DEF WrittenInv
 <2> DEFINE K == Ids(stack, Top)
            E == {}
 <2>2. Text = E /\ Ids(stack, 0) = E /\ E \subseteq K BY <1>1 DEF Text, Ids
 <2>3. /\ Flow(stack, 0, out, v) /\ Good(v[0], made, E, K, E, E)
       /\ Counted(v[0], accepted) /\ Encrypts
   BY <1>2, <2>1, <2>2 DEF DataInv
 <2>4. v[0] \in Seq(PieceSet)
  <3>1. 0 \in Nat /\ 0 \in 0 .. 0 OBVIOUS
  <3> QED BY <2>3, <3>1, FlowTypes
 <2>5. Top' = 0 /\ Live' = 0 BY <1>1, <1>3 DEF Top, Live
 <2>6. Ids(stack', 0) = E /\ Text' = E /\ Signing' = E
  <3>1. {i \in 1 .. Top' : Kind(stack'[i]) = "sign" /\ i <= Live' + 1} = {} BY <2>5
  <3> QED BY <1>1, <1>3, <3>1 DEF Ids, Text, Signing
 <2> HIDE DEF E, K
 <2>7. Good(v[0], made, E, E, E, E)
  <3>1. \A id \in E : id \in E \/ (id \in K /\ id[1] \notin Finalised \cup {"sign"}) OBVIOUS
  <3>2. (\A id \in E : id[1] \in Finalised => id \in E) /\ E \subseteq E OBVIOUS
  <3> QED BY <1>2, <2>2, <2>3, <2>4, <3>1, <3>2, ShrinkGood
 <2>8. Flow(stack', 0, out', v) /\ SeenAll(stack', 0, v) BY <1>1, <2>3 DEF Flow, SeenAll
 <2>9. SignSeen(v)' /\ Encrypts' BY <1>1, <2>3, <2>5 DEF SignSeen, Encrypts
 <2>10. Good(v[Live'], made', Ids(stack', Live'), Ids(stack', Top'), Text', Signing')
   BY <1>1, <2>5, <2>6, <2>7
 <2>11. DataInv(v)' BY <1>1, <2>3, <2>5, <2>8, <2>9, <2>10 DEF DataInv
 <2> QED BY <2>11 DEF WrittenInv
<1> QED BY <1>6, <1>7 DEF WrittenInv

\* Nothing is on its way where no writer keeps anything.
LEMMA FlowEmpty ==
  ASSUME NEW t \in Seq(WriterSet), NEW n \in 0 .. Len(t), NEW o \in Seq(PieceSet),
         \A i \in 1 .. n : Bare(t[i]) /\ Kind(t[i]) \notin Hashing
  PROVE  CutOff(t, n, o, o)
<1> DEFINE u == [i \in 0 .. n |-> o]
<1>1. u \in [0 .. n -> Seq(PieceSet)] /\ u[0] = o /\ u[n] = o OBVIOUS
<1>2. \A i \in 0 .. n : u[i] = o OBVIOUS
<1> HIDE DEF u
<1>3. ASSUME NEW i \in 1 .. n PROVE u[i] = u[i - 1] \o Lifted(t, i - 1, t[i].held)
 <2> DEFINE k == i - 1
            xs == t[i].held
 <2>1. k \in 0 .. n /\ i \in 0 .. n /\ k \in 0 .. Len(t) /\ i \in 1 .. Len(t) OBVIOUS
 <2>2. xs \in Seq(PieceSet) /\ Len(xs) = 0
  <3>1. t[i] \in WriterSet BY <2>1
  <3>2. Bare(t[i]) OBVIOUS
  <3> QED BY <3>1, <3>2 DEF Bare, WriterSet
 <2>3. u[k] = o /\ u[i] = o BY <1>2, <2>1
 <2> HIDE DEF k, xs
 <2>4. Behind(u, t, k, xs) = u[k] BY <2>1, <2>2, <2>3, BehindNone
 <2> QED BY <2>3, <2>4 DEF Behind, k, xs
<1>4. Flow(t, n, o, u) BY <1>1, <1>3 DEF Flow
<1>5. SeenAll(t, n, u) BY DEF SeenAll
<1> QED BY <1>1, <1>4, <1>5 DEF CutOff

\* Pop keeps the invariant: the armour of a key has ended and holds nothing.
LEMMA PopStep ==
  ASSUME TypeInv, WrittenInv, Pop PROVE TypeInv' /\ WrittenInv'
<1> DEFINE t == Front(stack)
           n == Len(stack) - 1
<1>1. /\ phase = "finalising" /\ at = 0 /\ job # Idle /\ stack' = t
      /\ phase' = IF stack[Top].pending THEN "abort" ELSE "open"
      /\ out' = out /\ made' = made /\ accepted' = accepted /\ intact' = intact
      /\ job' = Idle /\ at' = at
  BY DEF Pop
<1>2. /\ Live = 0 /\ Signing = {} /\ Stacked(stack, made, 0)
      /\ \A i \in 1 .. Top : ~stack[i].pending
      /\ stack \in Seq(WriterSet) /\ Top = Len(stack) /\ made \in Nat
      /\ Top \in Nat
  BY <1>1, AllCalled, StackFacts
<1>3. KeyAt(stack, Top)
 <2>1. job = [at |-> "packets", armoured |-> TRUE] BY <1>1, KeyFacts
 <2>2. job.armoured /\ job.at # "failed" /\ job.at # "encrypted_part" BY <2>1
 <2> QED BY <2>2, KeyFacts
<1>4. /\ Top >= 2 /\ n \in Nat /\ n = Top - 1 /\ n >= 1
      /\ \A i \in 1 .. n : Kind(stack[i]) \notin Finalised
  BY <1>2, <1>3 DEF KeyAt
<1>5. phase' = "open"
 <2>1. Top \in 1 .. Top BY <1>2, <1>4
 <2> QED BY <1>1, <1>2, <2>1
<1>6. t \in Seq(WriterSet) /\ Len(t) = n /\ \A i \in 1 .. n : t[i] = stack[i]
 <2>1. Len(stack) >= 1 BY <1>2, <1>4
 <2> QED BY <1>2, <2>1, FrontFacts
<1>7. Stacked(t, made, n)
 <2>1. 0 \in Nat /\ Len(stack) >= 2 BY <1>2, <1>4
 <2>2. \A i \in 1 .. Len(stack) - 1 : Kind(stack[i]) \in Finalised => (i <= 0 <=> i <= n) BY <1>4
 <2> HIDE DEF n
 <2> QED BY <1>2, <1>4, <2>1, <2>2, StackedFront
<1> HIDE DEF t, n
<1>8. Live' = n /\ Top' = n /\ Len(stack') = n BY <1>1, <1>5, <1>6 DEF Live, Top
<1>9. StackInv' BY <1>1, <1>5, <1>7, <1>8 DEF TypeInv, StackInv
<1>10. TypeInv' BY <1>1, <1>9, IdleKey DEF TypeInv
<1>11. ASSUME intact' PROVE WrittenInv'
 <2>1. PICK v : DataInv(v) BY <1>1, <1>11 DEF WrittenInv
 <2> DEFINE K == Ids(stack, Top)
            E == {}
            L == Ids(t, n)
            S == SignIds(t)
 <2>2. Text = K /\ Ids(stack, 0) = E BY <1>1 DEF Text, Ids
 <2>3. /\ v[0] = out /\ Good(v[0], made, E, K, K, E)
       /\ Counted(v[0], accepted) /\ Encrypts
   BY <1>2, <2>1, <2>2 DEF DataInv, Flow
 <2>4. out \in Seq(PieceSet) BY DEF TypeInv
 <2>5. \A id \in L : id \in K /\ id[1] \notin Finalised \cup {"sign"}
  <3>1. ASSUME NEW i \in 1 .. n
        PROVE  t[i].id \in K /\ t[i].id[1] \notin Finalised \cup {"sign"}
   <4>1. t[i] = stack[i] /\ i \in 1 .. Top /\ Kind(stack[i]) \notin Finalised
    <5>1. t[i] = stack[i] BY <1>6
    <5>2. Kind(stack[i]) \notin Finalised BY <1>4
    <5> HIDE DEF Top
    <5>3. i \in 1 .. Top BY <1>2, <1>4
    <5> QED BY <5>1, <5>2, <5>3
   <4>2. Kind(stack[i]) # "sign"
    <5>1. ASSUME Kind(stack[i]) = "sign" PROVE FALSE
     <6>1. i > 1 /\ stack[i - 1].id = <<"partial", stack[i].id[2] - 1>>
       BY <1>2, <4>1, <5>1 DEF Stacked
     <6>2. Kind(stack[i - 1]) = "partial" /\ i - 1 \in 1 .. n BY <1>4, <6>1 DEF Kind
     <6> QED BY <1>4, <6>2 DEF Finalised
    <5> QED BY <5>1
   <4> QED BY <4>1, <4>2 DEF Ids, Kind
  <3> QED BY <3>1 DEF Ids
 <2>6. ASSUME NEW i \in 1 .. n PROVE Bare(t[i]) /\ Kind(t[i]) \notin Hashing
  <3>1. t[i] = stack[i] /\ i \in 1 .. Len(stack) /\ Kind(stack[i]) \notin Finalised
    BY <1>2, <1>4, <1>6
  <3>2. t[i].id \in L BY DEF Ids
  <3>3. Kind(t[i]) # "sign" BY <2>5, <3>2 DEF Kind
  <3>4. stack[i].held # <<>> => Kind(stack[i]) \in Buffering BY <1>2, <3>1 DEF Stacked
  <3> QED BY <3>1, <3>3, <3>4 DEF Bare, Hashing, Finalised, Buffering
 <2>7. CutOff(t, n, out, out)
  <3>1. n \in 0 .. Len(t) BY <1>4, <1>6
  <3> QED BY <1>6, <2>4, <2>6, <3>1, FlowEmpty
 <2>8. PICK u : Flow(t, n, out, u) /\ SeenAll(t, n, u) /\ u[n] = out BY <2>7 DEF CutOff
 <2> HIDE DEF K, E, L, S
 <2>9. Good(out, made, L, L, L, S)
  <3>1. Good(out, made, E, K, K, E) BY <2>3
  <3>2. /\ \A id \in L : id \in E \/ (id \in K /\ id[1] \notin Finalised \cup {"sign"})
        /\ \A id \in E : id[1] \in Finalised => id \in L
        /\ L \subseteq K /\ E \subseteq S
    BY <2>5 DEF E
  <3> QED BY <1>2, <2>4, <3>1, <3>2, ShrinkGood
 <2>10. OpenData(stack', out', made', accepted', u)
   BY <1>1, <1>6, <2>3, <2>8, <2>9 DEF OpenData, L, S
 <2>11. NoneEncrypts(stack')
  <3>1. ASSUME NEW i \in 1 .. Len(t) PROVE Kind(t[i]) # "encrypt"
   <4>1. i \in 1 .. Top /\ t[i] = stack[i] BY <1>2, <1>4, <1>6
   <4> QED BY <1>1, <2>3, <4>1 DEF Encrypts
  <3> QED BY <1>1, <3>1 DEF NoneEncrypts
 <2>12. Encrypts' /\ Len(stack') \in Nat BY <1>1, <1>4, <1>8, <2>11, NoneEncryptsNext DEF Idle
 <2> QED BY <1>5, <2>10, <2>12, OpenNext
<1> QED BY <1>10, <1>11 DEF WrittenInv

-----------------------------------------------------------------------------
(* Ending. *)

\* The end that writer w puts behind ps.
Closes(x, w, ps) ==
  /\ x \in PieceSet /\ x.what = "end" /\ x.by = w.id /\ x.through = {}
  /\ Kind(w) \in Hashing => MadeOver(ps, x.seen, w.id)
\* Writer n can end; K2 and T2 are what is kept and the texts after that.
Closable(s, n, T, T2, K2, S) ==
  /\ \/ Kind(s[n]) \in Finalised
     \/ Kind(s[n]) = "dash" /\ s[n].id \in T /\ s[n].id \notin T2 /\ s[n].id \notin K2
  /\ \A id \in T : id \in Ids(s, n) \/ id[1] # "dash"
  /\ \A i \in 1 .. n : Kind(s[i]) # "encrypt" /\ (Kind(s[i]) = "sign" => s[i].id \in S)
\* What has been written is as it was, with q in place of ps.
Follows(q, ps, m, L, K, T, S) ==
  /\ q \in Seq(PieceSet) /\ Good(q, m, L, K, T, S)
  /\ \A a \in Nat : Counted(ps, a) => Counted(q, a)

\* What writer n has had is ended by what it writes to those below it.
LEMMA EndedGood ==
  ASSUME NEW s, NEW m \in Nat, NEW live, Stacked(s, m, live), NEW n \in 1 .. Len(s),
         NEW ps \in Seq(PieceSet), NEW K, NEW T, NEW S, Good(ps, m, Ids(s, n), K, T, S),
         NEW K2, NEW T2, K2 \subseteq K, T2 \subseteq T,
         NEW x, Closes(x, s[n], ps), Closable(s, n, T, T2, K2, S)
  PROVE  Follows(Added(ps, Lift(x, Ids(s, n - 1))), ps, m, Ids(s, n - 1), K2, T2, S)
<1>0. /\ x \in PieceSet /\ x.what = "end" /\ x.by = s[n].id /\ x.through = {}
      /\ Kind(s[n]) \in Hashing => MadeOver(ps, x.seen, s[n].id)
  BY DEF Closes
<1>13. /\ \/ Kind(s[n]) \in Finalised
          \/ Kind(s[n]) = "dash" /\ s[n].id \in T /\ s[n].id \notin T2 /\ s[n].id \notin K2
       /\ \A id \in T : id \in Ids(s, n) \/ id[1] # "dash"
       /\ \A i \in 1 .. n : Kind(s[i]) # "encrypt" /\ (Kind(s[i]) = "sign" => s[i].id \in S)
  BY DEF Closable
<1> DEFINE k == n - 1
           L == Ids(s, n)
           J == Ids(s, k)
           y == Lift(x, J)
<1>1. s \in Seq(WriterSet) /\ n \in Nat /\ n > 0 /\ n \in 0 .. Len(s) /\ k \in 0 .. Len(s)
  BY DEF Stacked
<1>2. J \in SUBSET WriterIds /\ L = J \cup {x.by}
 <2>1. Ids(s, n) = Ids(s, n - 1) \cup {s[n].id} BY <1>1, IdsFacts
 <2>2. Ids(s, k) \in SUBSET WriterIds
  <3> HIDE DEF k
  <3> QED BY <1>1, IdsFacts
 <2> QED BY <1>0, <2>1, <2>2
<1>3. /\ y \in PieceSet /\ y.through = J /\ y.what = "end" /\ y.by = x.by /\ y.seen = x.seen
 <2>1. /\ y \in PieceSet /\ y.through = x.through \cup J /\ y.what = x.what /\ y.by = x.by
       /\ y.seen = x.seen
  <3> HIDE DEF J
  <3> QED BY <1>0, <1>2, LiftFacts
 <2> QED BY <1>0, <2>1
<1>4. \A id \in L : id \in WriterIds /\ id[2] <= m /\ \E i \in 1 .. n : id = s[i].id /\ id[1] = Kind(s[i])
 <2> HIDE DEF L
 <2>1. ASSUME NEW id \in L
       PROVE  id \in WriterIds /\ id[2] <= m /\ \E i \in 1 .. n : id = s[i].id /\ id[1] = Kind(s[i])
  <3>1. id \in Ids(s, n) BY DEF L
  <3> QED BY <1>1, <3>1, StackedIds
 <2> QED BY <2>1
<1>5. x.by \notin J
 <2>1. ASSUME NEW j \in 1 .. k PROVE s[j].id # s[n].id
  <3>1. j \in 1 .. Len(s) /\ n \in 1 .. Len(s) /\ j < n BY <1>1
  <3>2. s[j].id[2] < s[n].id[2] BY <3>1 DEF Stacked
  <3>3. s[n].id[2] \in Nat
   <4>1. s[n] \in WriterSet BY <1>1, <3>1
   <4>2. s[n].id \in WriterIds BY <4>1 DEF WriterSet
   <4> QED BY <4>2, IdFacts
  <3> QED BY <3>2, <3>3
 <2> HIDE DEF k
 <2> QED BY <1>0, <2>1 DEF Ids
<1>6. \A id \in L : id[1] # "encrypt" /\ (id[1] = "sign" => id \in S) BY <1>4, <1>13
<1>7. \A id \in T : id \in L \/ id[1] # "dash" BY <1>13
<1>8. x.by[1] = Kind(s[n]) /\ "dash" \notin Finalised BY <1>0 DEF Kind, Finalised
<1>9. Good(ps, m, L, K, T, S) OBVIOUS
<1> HIDE DEF J, L, y, k
<1>10. Good(ps \o <<y>>, m, J, K2, T2, S)
 <2>1. y.by \in L /\ y.by[2] <= m /\ y.by \in WriterIds BY <1>2, <1>3, <1>4
 <2>2. y.by[1] = "dash" => y.by \in T BY <1>0, <1>3, <1>8, <1>13
 <2>3. y.by[1] \in Hashing => MadeOver(ps, y.seen, y.by) BY <1>0, <1>3, <1>8
 <2>4. y.by \notin y.through /\ \A id \in y.through : id \in L /\ id[2] <= m
   BY <1>2, <1>3, <1>4, <1>5
 <2>5. /\ \A id \in L : id \in y.through \/ id = y.by
       /\ \A id \in T : id \in y.through \/ id[1] # "dash" \/ id = y.by
   BY <1>2, <1>3, <1>7
 <2>6. /\ \A id \in J : id \in L /\ id # y.by
       /\ \A id \in L : id \in J \/ id = y.by
   BY <1>2, <1>3, <1>5
 <2>7. (y.by \in K2 => y.by[1] \in Finalised) /\ (y.by \in T2 => y.by[1] # "dash")
   BY <1>0, <1>3, <1>8, <1>13
 <2>8. /\ \A id \in y.through : id[1] # "encrypt"
       /\ \A id \in y.through \cup {y.by} : id[1] = "sign" => id \in S
   BY <1>2, <1>3, <1>6
 <2> QED BY <1>3, <1>9, <2>1, <2>2, <2>3, <2>4, <2>5, <2>6, <2>7, <2>8, EndGood
<1>11. \A a \in Nat : Counted(ps, a) => Counted(ps \o <<y>>, a) BY <1>3, CountMore
<1>12. ps \o <<y>> \in Seq(PieceSet) BY <1>3, OneMore
<1> QED BY <1>10, <1>11, <1>12 DEF Follows, Added, y, J, k

\* The text ends, the writer that makes it what it is goes, and others come.
LEMMA SwitchAhead ==
  ASSUME TypeInv, WrittenInv, phase = "open",
         job.at # "encrypted_part", Kind(stack[Top]) = "dash",
         NEW m \in Nat, made <= m, NEW N, NEW S, S = SignIds(stack),
         \A id \in N : id \in WriterIds /\ id[2] > made /\ id[2] <= m /\ (id[1] = "sign" => id \in S),
         NEW es, Single(es, End(stack[Top])), NEW hs, Few(hs, N),
         NEW o \in Outcomes(Joined(es, hs), Top - 1), NEW report, Written(o, Top - 1, report)
  PROVE  /\ Stacked(Front(o.stack), made, Len(Front(o.stack))) /\ SameSigns(stack, Front(o.stack))
         /\ out' \in Seq(PieceSet) /\ intact' \in BOOLEAN
         /\ o.good \in BOOLEAN /\ (~o.good => ~intact')
         /\ intact' => Ahead(Front(o.stack), out', m, accepted, N, S, FALSE)
<1> DEFINE k == Top - 1
           s == o.stack
           t == Front(o.stack)
           d == stack[Top]
           E == End(stack[Top])
           J == Ids(stack, k)
           L == Ids(stack, Top)
<1>1. /\ stack \in Seq(WriterSet) /\ Top = Len(stack) /\ Live = Top /\ Top \in Nat
      /\ accepted \in Nat /\ made \in Nat /\ Top >= 1 /\ Kind(stack[1]) = "base"
      /\ Stacked(stack, made, Top) /\ out \in Seq(PieceSet) /\ intact \in BOOLEAN
  BY StackFacts DEF TypeInv
<1>2. /\ Top >= 2 /\ k \in Nat /\ k + 1 = Top /\ k >= 1 /\ k \in 0 .. Live /\ k \in 0 .. Len(stack)
      /\ Top \in 1 .. Len(stack) /\ k \in 0 .. Top /\ k \in 0 .. k
  BY <1>1
<1>3. /\ d \in WriterSet /\ Kind(d) = "dash" /\ d.id \in WriterIds /\ Kind(d) \notin Finalised \cup {"sign"}
      /\ Kind(d) \notin Hashing /\ Kind(d) \notin Buffering
 <2>1. d \in WriterSet /\ Kind(d) = "dash" BY <1>1, <1>2
 <2> HIDE DEF d
 <2> QED BY <2>1 DEF WriterSet, Finalised, Hashing, Buffering
<1>4. E \in PieceSet /\ E.what = "end" /\ E.by = d.id /\ E.through = {} /\ E.seen = d.seen
 <2> HIDE DEF d
 <2>1. E = End(d) BY DEF d
 <2> QED BY <1>3, <2>1, OwnPieces
<1>5. es \in Seq(PieceSet) /\ Len(es) = 1 /\ es[1] = E /\ hs \in Seq(PieceSet)
 <2> HIDE DEF E
 <2>1. Single(es, E) BY DEF E
 <2> QED BY <1>4, <2>1, SingleFacts DEF Few
<1>6. Joined(es, hs) \in Seq(PieceSet) BY <1>5 DEF Joined
<1> DEFINE xs == Joined(es, hs)
<1>16. xs \in Seq(PieceSet) /\ o \in Outcomes(xs, k) /\ Written(o, k, report) BY <1>6
<1> HIDE DEF k, E, xs, t, s, d, J, L
<1>7. /\ out' \in Seq(PieceSet) /\ intact' \in BOOLEAN /\ out' = o.out
      /\ Like(stack, s, k) /\ Stacked(s, made, Live)
      /\ o.good \in BOOLEAN /\ (~o.good => ~intact')
      /\ intact' => intact /\ ~o.fails
 <2>1. phase # "closed" OBVIOUS
 <2> QED BY <1>2, <1>16, <2>1, WriteTypes DEF s
<1>8. /\ s \in Seq(WriterSet) /\ Len(s) = Top /\ SignIds(s) = S
      /\ \A i \in 1 .. Top : s[i].id = stack[i].id
      /\ \A i \in 0 .. Top : Ids(s, i) = Ids(stack, i)
  BY <1>1, <1>7, LikeIds
<1>9. t \in Seq(WriterSet) /\ Len(t) = k /\ \A i \in 1 .. k : t[i] = s[i]
 <2>1. Len(s) >= 1 /\ Len(s) - 1 = k BY <1>1, <1>2, <1>8
 <2>2. /\ Front(s) \in Seq(WriterSet) /\ Len(Front(s)) = Len(s) - 1
       /\ \A i \in 1 .. Len(s) - 1 : Front(s)[i] = s[i]
   BY <1>8, <2>1, FrontFacts
 <2> QED BY <2>1, <2>2 DEF t, s
<1>10. Stacked(t, made, k)
 <2>1. Len(s) >= 2 /\ Len(s) - 1 = k /\ Top \in Nat BY <1>1, <1>2, <1>8
 <2>2. \A i \in 1 .. Len(s) - 1 : Kind(s[i]) \in Finalised => (i <= Top <=> i <= k)
   BY <1>1, <1>2, <2>1
 <2>3. Stacked(s, made, Top) BY <1>1, <1>7
 <2>4. Stacked(Front(s), made, k) BY <1>1, <1>2, <2>1, <2>2, <2>3, StackedFront
 <2> QED BY <2>4 DEF t, s
<1>11. SignIds(t) = S
 <2>1. Plus(t, s[Len(s)], s) BY <1>1, <1>8, FrontPlus DEF t, s
 <2>2. Kind(s[Len(s)]) # "sign" BY <1>1, <1>2, <1>3, <1>8 DEF Kind, d
 <2>3. SignIds(s) = SignIds(t) \cup IF Kind(s[Len(s)]) = "sign" THEN {s[Len(s)].id} ELSE {}
   BY <1>9, <2>1, PlusIds
 <2> QED BY <1>8, <2>2, <2>3
<1>12. Ids(t, k) = J
 <2>1. \A i \in 1 .. k : t[i].id = s[i].id BY <1>9
 <2>2. Ids(t, k) = Ids(s, k) BY <2>1 DEF Ids
 <2> HIDE DEF Top
 <2>3. Ids(s, k) = Ids(stack, k) BY <1>2, <1>8
 <2> QED BY <2>2, <2>3 DEF J
<1>13. ASSUME intact' PROVE Ahead(t, out', m, accepted, N, S, FALSE)
 <2>1. intact /\ ~o.fails BY <1>7, <1>13
 <2>2. PICK v : DataInv(v) BY <2>1 DEF WrittenInv
 <2>3. OpenData(stack, out, made, accepted, v) /\ NoneEncrypts(stack)
   BY <2>2, OpenNow, NoneEncryptsNow
 <2>4. /\ Flow(stack, Top, out, v) /\ SeenAll(stack, Top, v)
       /\ Good(v[Top], made, L, L, L, S) /\ Counted(v[Top], accepted)
   BY <1>1, <2>3 DEF OpenData, L
 <2>5. v[Top] = v[k] /\ v[k] \in Seq(PieceSet)
  <3> DEFINE ys == d.held
  <3>1. ys \in Seq(PieceSet) /\ Len(ys) = 0
   <4>1. d.held # <<>> => Kind(d) \in Buffering BY <1>1, <1>2 DEF Stacked, d
   <4> QED BY <1>3, <4>1 DEF WriterSet
  <3>2. v[k] \in Seq(PieceSet) BY <1>1, <1>2, <2>4, FlowTypes
  <3>3. v[Top] = Behind(v, stack, k, ys)
   <4>1. v[Top] = v[Top - 1] \o Lifted(stack, Top - 1, stack[Top].held)
     BY <1>1, <1>2, <2>4 DEF Flow
   <4> QED BY <4>1 DEF Behind, k, d
  <3> HIDE DEF ys
  <3>4. Behind(v, stack, k, ys) = v[k] BY <1>1, <1>2, <3>1, <3>2, BehindNone
  <3> QED BY <3>2, <3>3, <3>4
 <2> DEFINE ps == v[k]
 <2>6. /\ ps \in Seq(PieceSet) /\ Good(ps, made, L, L, L, S) /\ Counted(ps, accepted)
   BY <2>4, <2>5
 <2>7. SameTo(stack, stack, k) BY DEF SameTo
 <2>8. CutOff(stack, k, out, ps)
  <3> HIDE DEF Top
  <3> QED BY <1>1, <1>2, <2>4, <2>7, FlowCut
 <2>9. PICK u0 : Flow(stack, k, out, u0) /\ SeenAll(stack, k, u0) /\ u0[k] = ps
   BY <2>8 DEF CutOff
 <2>10. PICK u1 : Flow(s, k, o.out, u1) /\ SeenAll(s, k, u1) /\ u1[k] = Behind(u0, stack, k, xs)
   BY <1>1, <1>2, <1>16, <2>1, <2>9, WriteFlow DEF s
 <2>11. CutOff(t, k, out', u1[k])
  <3>1. SameTo(s, t, k) BY <1>9 DEF SameTo
  <3> QED BY <1>2, <1>7, <2>10, <3>1, FlowCut
 <2>12. PICK u2 : Flow(t, k, out', u2) /\ SeenAll(t, k, u2) /\ u2[k] = u1[k] BY <2>11 DEF CutOff
 <2> DEFINE e == Added(ps, Lift(E, J))
 <2>13. e \in Seq(PieceSet) /\ Good(e, made, J, J, J, S) /\ Counted(e, accepted)
  <3>1. Ids(stack, Top) = J \cup {d.id} /\ Ids(stack, Top - 1) = J
    BY <1>1, <1>2, IdsFacts DEF J, k, d
  <3>2. J \subseteq L BY <3>1 DEF L
  <3>3. d.id \in L /\ d.id \notin J
   <4>1. d.id \in L BY <3>1 DEF L
   <4>2. ASSUME NEW j \in 1 .. k PROVE stack[j].id # d.id
    <5>1. j \in 1 .. Len(stack) /\ Top \in 1 .. Len(stack) /\ j < Top BY <1>1, <1>2
    <5>2. stack[j].id[2] < stack[Top].id[2] BY <1>1, <5>1 DEF Stacked
    <5>3. d.id[2] \in Nat BY <1>3, IdFacts
    <5> QED BY <5>2, <5>3 DEF d
   <4> QED BY <4>1, <4>2 DEF J, Ids
  <3>4. \A i \in 1 .. Top : Kind(stack[i]) # "encrypt" /\ (Kind(stack[i]) = "sign" => stack[i].id \in S)
    BY <1>1, <2>3 DEF NoneEncrypts, SignIds
  <3>5. \A id \in L : id \in Ids(stack, Top) \/ id[1] # "dash" BY DEF L
  <3>6. Kind(stack[Top]) \notin Hashing /\ E.by = stack[Top].id /\ d.id = stack[Top].id
    BY <1>3, <1>4 DEF d
  <3>7. Good(ps, made, Ids(stack, Top), L, L, S) BY <2>6 DEF L
  <3>9. \/ Kind(stack[Top]) \in Finalised
        \/ Kind(stack[Top]) = "dash" /\ stack[Top].id \in L /\ stack[Top].id \notin J
    BY <3>3, <3>6
  <3>10. J \subseteq L /\ Top \in 1 .. Len(stack) /\ made \in Nat /\ Stacked(stack, made, Top)
    BY <1>1, <1>2, <3>2
  <3>11. Closes(E, stack[Top], ps) BY <1>4, <3>6 DEF Closes
  <3>12. Closable(stack, Top, L, J, J, S) BY <3>4, <3>5, <3>9 DEF Closable
  <3> HIDE DEF ps, Top
  <3>8. Follows(Added(ps, Lift(E, Ids(stack, Top - 1))), ps, made, Ids(stack, Top - 1), J, J, S)
    BY <2>6, <3>7, <3>10, <3>11, <3>12, EndedGood
  <3>13. Follows(e, ps, made, J, J, J, S) BY <3>1, <3>8
  <3> QED BY <1>1, <2>6, <3>13 DEF Follows
 <2> HIDE DEF e
 <2>14. Behind(u0, stack, k, es) = e
  <3>1. Behind(u0, stack, k, es) = Added(u0[k], Lift(E, Ids(stack, k)))
    BY <1>1, <1>2, <1>4, <1>5, BehindOne
  <3> QED BY <2>9, <3>1 DEF e, J
 <2> DEFINE u3 == [i \in {k} |-> e]
 <2>15. u3[k] = e OBVIOUS
 <2> HIDE DEF u3
 <2>16. u1[k] = Behind(u3, stack, k, hs)
  <3>1. u0[k] \in Seq(PieceSet) BY <2>6, <2>9
  <3>2. u3[k] = Behind(u0, stack, k, es) BY <2>14, <2>15
  <3>3. Behind(u0, stack, k, es \o hs) = Behind(u3, stack, k, hs)
    BY <1>1, <1>2, <1>5, <3>1, <3>2, BehindConcat
  <3> QED BY <2>10, <3>3 DEF xs, Joined
 <2>17. Good(e, m, J \cup N, J \cup N, J \cup N, S) /\ Fresh(e, N)
  <3>1. \A id \in N : id[2] \in Nat /\ id[2] > made BY IdFacts
  <3>2. Old(e, made) BY <2>13 DEF Good
  <3>3. S \subseteq S OBVIOUS
  <3> QED BY <1>1, <2>13, <3>1, <3>2, <3>3, OldFresh, GrowGood
 <2>18. Room(J, m, N, S)
  <3>1. \A id \in J : /\ id \in WriterIds /\ id[2] \in Nat /\ id[2] <= made
                      /\ \E i \in 1 .. k : id = stack[i].id /\ id[1] = Kind(stack[i])
   <4> HIDE DEF Top
   <4>1. ASSUME NEW id \in Ids(stack, k)
         PROVE  /\ id \in WriterIds /\ id[2] \in Nat /\ id[2] <= made
                /\ \E i \in 1 .. k : id = stack[i].id /\ id[1] = Kind(stack[i])
     BY <1>1, <1>2, StackedIds
   <4> QED BY <4>1 DEF J
  <3>2. \A i \in 1 .. k : Kind(stack[i]) # "encrypt" /\ (Kind(stack[i]) = "sign" => stack[i].id \in S)
   <4>1. \A i \in 1 .. k : i \in 1 .. Len(stack) BY <1>1, <1>2
   <4> QED BY <2>3, <4>1 DEF NoneEncrypts, SignIds
  <3>3. ASSUME NEW id \in J
        PROVE  id \notin N /\ id[1] # "encrypt" /\ id[2] <= m /\ (id[1] = "sign" => id \in S)
    BY <1>1, <3>1, <3>2
  <3> QED BY <3>3 DEF Room
 <2>19. Good(u1[k], m, J \cup N, J \cup N, J \cup N, S) /\ Untouched(u1[k], N) /\ Counted(u1[k], accepted)
  <3>1. u3[k] \in Seq(PieceSet) /\ Fresh(u3[k], N) /\ Counted(u3[k], accepted)
        /\ Good(u3[k], m, J \cup N, J \cup N, J \cup N, S)
    BY <2>13, <2>15, <2>17
  <3>2. J = Ids(stack, k) BY DEF J
  <3>3. /\ stack \in Seq(WriterSet) /\ k \in 0 .. Len(stack) /\ accepted \in Nat /\ Few(hs, N)
        /\ m \in Nat /\ Room(J, m, N, S)
    BY <1>1, <1>2, <2>18
  <3> DEFINE q == Behind(u3, stack, k, hs)
  <3>4. /\ Good(q, m, J \cup N, J \cup N, J \cup N, S)
        /\ Untouched(q, N) /\ Counted(q, accepted)
    BY ONLY <3>1, <3>2, <3>3, FewGood
  <3> QED BY <2>16, <3>4
 <2>20. Mid(t, out', m, accepted, N, S, u2)
  <3>1. u2[Len(t)] = u1[k] /\ Ids(t, Len(t)) = J BY <1>9, <1>12, <2>12
  <3>2. Flow(t, Len(t), out', u2) /\ SeenAll(t, Len(t), u2) BY <1>9, <2>12
  <3> QED BY <2>18, <2>19, <3>1, <3>2 DEF Mid
 <2>21. NoneEncrypts(t)
  <3>1. ASSUME NEW i \in 1 .. k PROVE Kind(t[i]) # "encrypt"
   <4>1. i \in 1 .. Len(stack) /\ i \in 1 .. Top BY <1>1, <1>2
   <4>2. t[i].id = stack[i].id BY <1>8, <1>9, <4>1
   <4> QED BY <2>3, <4>1, <4>2 DEF NoneEncrypts, Kind
  <3> QED BY <1>9, <3>1 DEF NoneEncrypts
 <2> QED BY <2>20, <2>21 DEF Ahead
<1> QED BY <1>7, <1>9, <1>10, <1>11, <1>13 DEF t, SameSigns

\* SwitchToArmouredSignature keeps the invariant: the text ends, and nothing that
\* follows is in it.
LEMMA SwitchToArmouredSignatureStep ==
  ASSUME TypeInv, WrittenInv, SwitchToArmouredSignature PROVE TypeInv' /\ WrittenInv'
<1> DEFINE w == New("linebreak", 1)
           x == New("base64", 2)
           es == <<End(stack[Top])>>
           hs == <<Header(x)>>
           xs == <<End(stack[Top]), Header(x)>>
           N == {w.id, x.id}
           S == SignIds(stack)
           m == made + 2
<1>1. /\ phase = "open" /\ job = Idle /\ Kind(stack[Top]) = "dash"
      /\ accepted' = accepted /\ job' = job /\ phase' = phase /\ at' = at
  BY DEF SwitchToArmouredSignature, Ready, Unmoved
<1>2. PICK o \in Outcomes(xs, Top - 1) :
        /\ Written(o, Top - 1, ~o.good)
        /\ PushIf([o EXCEPT !.stack = Front(@)], <<w, x>>)
  BY DEF SwitchToArmouredSignature
<1> DEFINE s == Front(o.stack)
           p == [o EXCEPT !.stack = s]
           report == ~o.good
<1>3. PushIf(p, <<w, x>>) /\ Written(o, Top - 1, report) BY <1>2
<1>4. made + 2 <= MaxWriters /\ made + 1 <= MaxWriters /\ made \in Nat
 <2>1. Len(<<w, x>>) = 2 OBVIOUS
 <2>2. made \in Nat /\ MaxWriters \in Nat BY <1>1, StackFacts
 <2>3. made + 2 <= MaxWriters BY <1>3, <2>1 DEF PushIf, Fits
 <2> QED BY <2>2, <2>3
<1>5. /\ "linebreak" \in Kinds /\ "base64" \in Kinds /\ "base64" \in Finalised
      /\ "linebreak" \notin Finalised /\ 1 \in 1 .. 2 /\ 2 \in 1 .. 2
      /\ w = New("linebreak", 1) /\ x = New("base64", 2)
  BY DEF Kinds, Finalised
<1> HIDE DEF w, x, s, p, report
<1>6. /\ w \in WriterSet /\ Kind(w) = "linebreak"
      /\ w.id[1] = "linebreak" /\ w.id[2] = made + 1 /\ w.id \in WriterIds
      /\ w.pending <=> Kind(w) \in Finalised
      /\ Bare(w) /\ Few(w.held, N)
  BY <1>4, <1>5, NewWriter
<1>7. /\ x \in WriterSet /\ Kind(x) = "base64" /\ x.id[1] = "base64" /\ x.id[2] = made + 2
      /\ x.id \in WriterIds /\ (x.pending <=> Kind(x) \in Finalised)
      /\ Bare(x) /\ x.seen = Before(x.id)
  BY <1>4, <1>5, NewWriter
<1>8. Single(hs, Header(x)) /\ x.id \in N /\ Single(es, End(stack[Top])) /\ xs = Joined(es, hs)
 <2> DEFINE a == End(stack[Top])
            b == Header(x)
 <2>1. xs = <<a, b>> /\ es = <<a>> /\ hs = <<b>> OBVIOUS
 <2> HIDE DEF a, b
 <2>2. <<a, b>> = <<a>> \o <<b>>
  <3> DEFINE Q == {a, b}
             y == <<a>>
             z == <<b>>
             u == <<a, b>>
             v == y \o z
  <3>1. /\ y \in Seq(Q) /\ Len(y) = 1 /\ y[1] = a
        /\ z \in Seq(Q) /\ Len(z) = 1 /\ z[1] = b
        /\ u \in Seq(Q) /\ Len(u) = 2 /\ u[1] = a /\ u[2] = b
    OBVIOUS
  <3> HIDE DEF Q, y, z, u
  <3>2. v \in Seq(Q) /\ Len(v) = 2 /\ v[1] = a /\ v[2] = b
   <4>1. /\ v \in Seq(Q) /\ Len(v) = Len(y) + Len(z)
         /\ \A i \in 1 .. Len(y) + Len(z) : v[i] = IF i <= Len(y) THEN y[i] ELSE z[i - Len(y)]
     BY <3>1, ConcatProperties
   <4>2. 1 \in 1 .. 2 /\ 2 \in 1 .. 2 /\ 1 + 1 = 2 /\ 2 - 1 = 1 /\ ~(2 <= 1) /\ 1 <= 1 OBVIOUS
   <4> HIDE DEF v
   <4> QED BY <3>1, <4>1, <4>2
  <3> HIDE DEF v
  <3>3. \A i \in 1 .. Len(u) : u[i] = v[i] BY <3>1, <3>2
  <3>4. u = v BY <3>1, <3>2, <3>3, SeqEqual
  <3> QED BY <3>4 DEF u, v, y, z
 <2> QED BY <2>1, <2>2 DEF Single, Joined, a, b
<1>9. \A id \in N : id \in WriterIds /\ id[2] > made /\ id[2] <= m /\ (id[1] = "sign" => id \in S)
  BY <1>4, <1>6, <1>7
<1>10. /\ m \in Nat /\ made <= m /\ S = SignIds(stack) /\ N = {w.id, x.id}
       /\ job.at # "encrypted_part" /\ job'.at # "failed"
  BY <1>1, <1>4, IdleFacts
<1>11. o \in Outcomes(Joined(es, hs), Top - 1) BY <1>8
<1> HIDE DEF es, hs, xs, N, S, m
<1>12. Few(hs, N) BY <1>5, <1>7, <1>8, FewHeader
<1>13. /\ Stacked(s, made, Len(s)) /\ SameSigns(stack, s)
       /\ out' \in Seq(PieceSet) /\ intact' \in BOOLEAN
       /\ o.good \in BOOLEAN /\ (~o.good => ~intact')
       /\ intact' => Ahead(s, out', m, accepted, N, S, FALSE)
  BY <1>1, <1>3, <1>8, <1>9, <1>10, <1>11, <1>12, SwitchAhead DEF s
<1>14. p.good = o.good /\ p.stack = s
 <2> DEFINE k == Top - 1
 <2>1. stack \in Seq(WriterSet) /\ out \in Seq(PieceSet) /\ intact \in BOOLEAN
   BY <1>1, StackFacts DEF TypeInv
 <2>2. /\ Top = Len(stack) /\ Top \in Nat /\ Top >= 1 BY <1>1, StackFacts
 <2>3. k \in 0 .. Len(stack) BY <2>2
 <2>4. Joined(es, hs) \in Seq(PieceSet)
  <3>1. stack[Top] \in WriterSet BY <2>1, <2>2
  <3>2. End(stack[Top]) \in PieceSet BY <3>1, OwnPieces
  <3>3. es \in Seq(PieceSet) /\ hs \in Seq(PieceSet) BY <1>8, <1>12, <3>2, SingleFacts DEF Few
  <3> QED BY <3>3 DEF Joined
 <2>5. o \in Outcomes(Joined(es, hs), k) BY <1>11
 <2> HIDE DEF k
 <2>6. \A z : [o EXCEPT !.stack = z].good = o.good /\ [o EXCEPT !.stack = z].stack = z
   BY <2>1, <2>3, <2>4, <2>5, OutcomeFacts
 <2> QED BY <2>6 DEF p
<1>15. ASSUME o.good PROVE StackInv' /\ WrittenInv'
 <2>1. /\ Kind(w) \notin Hashing \cup {"encrypt"} /\ Kind(w) # "sign"
       /\ Kind(x) # "encrypt" /\ Kind(x) # "sign"
       /\ w.held # <<>> => Kind(w) \in Buffering
   BY <1>6, <1>7 DEF Hashing, Bare
 <2>2. S = SignIds(s) \cup IF Kind(x) = "sign" THEN {x.id} ELSE {}
   BY <1>10, <1>13, <2>1 DEF SameSigns
 <2>3. intact' => Ahead(s, out', made + 2, accepted, N, S, FALSE) BY <1>13 DEF m
 <2>4. Push(s, <<w, x>>) BY <1>3, <1>14, <1>15 DEF PushIf
 <2> QED BY <1>1, <1>6, <1>7, <1>10, <1>13, <2>1, <2>2, <2>3, <2>4, PushedTwo
<1>16. ASSUME ~o.good PROVE StackInv' /\ WrittenInv'
 <2>1. stack' = s /\ made' = made BY <1>3, <1>14, <1>16 DEF PushIf
 <2> QED BY <1>1, <1>13, <1>16, <2>1, NotPushed
<1>17. KeyInv' BY <1>1, IdleKey
<1> QED BY <1>1, <1>13, <1>15, <1>16, <1>17 DEF TypeInv

-----------------------------------------------------------------------------
(* Finalising. *)

\* The signed writers up to n.
SigningTo(s, n) == {s[j].id : j \in {i \in 1 .. Len(s) : Kind(s[i]) = "sign" /\ i <= n}}

\* Under a signed writer there is the partial writer of its packet.
LEMMA SignAbove ==
  ASSUME NEW s, NEW m, NEW live, Stacked(s, m, live), NEW n \in 1 .. Len(s), n < Len(s),
         Kind(s[n + 1]) = "sign"
  PROVE  Kind(s[n]) = "partial"
<1>1. Len(s) \in Nat /\ n + 1 \in 1 .. Len(s) /\ (n + 1) - 1 = n BY DEF Stacked
<1>2. s[(n + 1) - 1].id = <<"partial", s[n + 1].id[2] - 1>> BY <1>1 DEF Stacked
<1> QED BY <1>1, <1>2 DEF Kind

\* The writer whose turn it is.
LEMMA TurnFacts ==
  ASSUME TypeInv, phase = "finalising", at > 0
  PROVE  /\ at \in 1 .. Top /\ at \in Nat /\ at - 1 \in Nat /\ at - 1 \in 0 .. at
         /\ Live = at /\ Top = Len(stack) /\ Top \in Nat /\ stack \in Seq(WriterSet)
         /\ Stacked(stack, made, at) /\ stack[at] \in WriterSet
         /\ stack[at].pending <=> Kind(stack[at]) \in Finalised
         /\ ~stack[at].pending => Bare(stack[at])
         /\ stack[at].pending /\ job # Idle => at = Top
<1>1. /\ Live = at /\ Top = Len(stack) /\ Top \in Nat /\ stack \in Seq(WriterSet)
      /\ Stacked(stack, made, at) /\ at <= Top /\ at \in Nat
 <2>1. at \in 0 .. MaxWriters + 1 /\ at <= Top /\ MaxWriters \in Nat
   BY DEF TypeInv, StackInv, WriterStackAssumption
 <2>2. Live = at BY DEF Live
 <2>3. Stacked(stack, made, Live) /\ stack \in Seq(WriterSet) /\ Top = Len(stack) /\ Top \in Nat
   BY StackFacts
 <2>4. at \in Nat BY <2>1
 <2> QED BY <2>1, <2>2, <2>3, <2>4
<1>2. at \in 1 .. Top /\ at - 1 \in Nat /\ at - 1 \in 0 .. at
 <2> HIDE DEF Top
 <2> QED BY <1>1
<1>3. stack[at] \in WriterSet /\ at \in 1 .. Len(stack) BY <1>1, <1>2
<1>4. /\ stack[at].pending <=> Kind(stack[at]) \in Finalised
      /\ ~stack[at].pending => Bare(stack[at])
  BY <1>1, <1>3 DEF Stacked, Bare
<1>5. ASSUME stack[at].pending, job # Idle PROVE at = Top
 <2>1. job = [at |-> "packets", armoured |-> TRUE] BY <1>5, KeyFacts
 <2>2. KeyAt(stack, Top)
  <3>1. job.armoured /\ job.at # "failed" /\ job.at # "encrypted_part" BY <2>1
  <3> QED BY <3>1, KeyFacts
 <2>3. at \notin 1 .. Top - 1 BY <1>4, <1>5, <2>2 DEF KeyAt
 <2> HIDE DEF Top
 <2> QED BY <1>1, <1>2, <2>3
<1> QED BY <1>1, <1>2, <1>3, <1>4, <1>5

\* What it writes, in its three parts.
Trailing(i) == IF Kind(stack[i]) = "partial" THEN Trailer(i) ELSE <<>>
\* What a finaliser writes: what its writer holds, its end, and a partial writer its
\* trailer.
LEMMA EndingParts ==
  ASSUME NEW i
  PROVE  Ending(i) = Joined(Joined(stack[i].held, <<End(stack[i])>>), Trailing(i))
BY DEF Ending, Joined, Trailing

\* The trailer is the signature of the signed writer above, or nothing when there is
\* none.
LEMMA TrailingFacts ==
  ASSUME TypeInv, phase = "finalising", at > 0, stack[at].pending
  PROVE  /\ Trailing(at) \in Seq(PieceSet)
         /\ Len(Trailing(at)) = 0 => SigningTo(stack, at + 1) \subseteq SigningTo(stack, at)
         /\ Len(Trailing(at)) # 0 =>
              /\ at < Top /\ Kind(stack[at + 1]) = "sign"
              /\ Single(Trailing(at), Signature(stack[at + 1]))
<1>1. /\ at \in 1 .. Top /\ at \in Nat /\ Top = Len(stack) /\ Top \in Nat
      /\ stack \in Seq(WriterSet) /\ Stacked(stack, made, at)
  BY TurnFacts
<1>2. CASE Kind(stack[at]) = "partial" /\ at < Top /\ Kind(stack[at + 1]) = "sign"
 <2> DEFINE g == Signature(stack[at + 1])
 <2>1. Trailing(at) = <<g>> BY <1>2 DEF Trailing, Trailer
 <2>2. g \in PieceSet
  <3>1. at + 1 \in 1 .. Len(stack) BY <1>1, <1>2
  <3>2. stack[at + 1] \in WriterSet BY <1>1, <3>1
  <3> QED BY <3>2, OwnPieces
 <2>3. Single(Trailing(at), g) BY <2>1 DEF Single
 <2> HIDE DEF g
 <2>4. Trailing(at) \in Seq(PieceSet) /\ Len(Trailing(at)) = 1 BY <2>2, <2>3, SingleFacts
 <2> QED BY <1>2, <2>3, <2>4 DEF g
<1>3. CASE ~(Kind(stack[at]) = "partial" /\ at < Top /\ Kind(stack[at + 1]) = "sign")
 <2>1. Trailing(at) = <<>> BY <1>3 DEF Trailing, Trailer
 <2>2. <<>> \in Seq(PieceSet) /\ Len(<<>>) = 0 OBVIOUS
 <2>3. SigningTo(stack, at + 1) \subseteq SigningTo(stack, at)
  <3>1. ASSUME NEW i \in 1 .. Len(stack), Kind(stack[i]) = "sign", i <= at + 1
        PROVE  i <= at
   <4>1. ASSUME i = at + 1 PROVE FALSE
    <5>1. at < Len(stack) /\ Kind(stack[at + 1]) = "sign" /\ at \in 1 .. Len(stack)
      BY <1>1, <3>1, <4>1
    <5>2. Kind(stack[at]) = "partial" BY <1>1, <5>1, SignAbove
    <5> QED BY <1>1, <1>3, <5>1, <5>2
   <4> QED BY <1>1, <3>1, <4>1
  <3> QED BY <3>1 DEF SigningTo
 <2> QED BY <2>1, <2>2, <2>3
<1> QED BY <1>2, <1>3

\* The signature that writer w makes over ps.
SignsOver(x, w, ps) ==
  /\ x \in PieceSet /\ x.what = "signature" /\ x.by = w.id /\ x.through = {}
  /\ MadeOver(ps, x.seen, w.id)

\* What has been signed gets its signature, behind the end of its packet.
LEMMA SignedGood ==
  ASSUME NEW s, NEW m \in Nat, NEW live, Stacked(s, m, live), NEW n \in 1 .. Len(s),
         n < Len(s), Kind(s[n + 1]) = "sign", NEW ps \in Seq(PieceSet), NEW K,
         NEW T, \A id : id \notin T, Good(ps, m, Ids(s, n - 1), K, T, SigningTo(s, n + 1)),
         \A i \in 1 .. n : Kind(s[i]) # "encrypt", NEW x, SignsOver(x, s[n + 1], ps)
  PROVE  Follows(Added(ps, Lift(x, Ids(s, n - 1))), ps, m, Ids(s, n - 1), K, T, SigningTo(s, n))
<1> DEFINE k == n - 1
           J == Ids(s, k)
           y == Lift(x, J)
           S == SigningTo(s, n + 1)
           S2 == SigningTo(s, n)
           w == s[n + 1]
<1>1. /\ s \in Seq(WriterSet) /\ Len(s) \in Nat /\ n \in Nat /\ k \in 0 .. Len(s)
      /\ n + 1 \in 1 .. Len(s) /\ w \in WriterSet
  BY DEF Stacked
<1>2. w.id \in WriterIds /\ w.id[1] = "sign" /\ w.id[2] <= m /\ w.id[2] \in Nat
 <2>1. w.id \in WriterIds BY <1>1 DEF WriterSet
 <2>2. w.id[2] <= m BY <1>1 DEF Stacked
 <2> QED BY <2>1, <2>2, IdFacts DEF Kind
<1>3. x \in PieceSet /\ x.what = "signature" /\ x.by = w.id /\ x.through = {} /\ MadeOver(ps, x.seen, w.id)
  BY DEF SignsOver
<1>4. J \in SUBSET WriterIds
 <2> HIDE DEF k
 <2> QED BY <1>1, IdsFacts
<1>5. /\ y \in PieceSet /\ y.through = J /\ y.what = "signature" /\ y.by = w.id /\ y.seen = x.seen
 <2>1. /\ y \in PieceSet /\ y.through = x.through \cup J /\ y.what = x.what /\ y.by = x.by
       /\ y.seen = x.seen
  <3> HIDE DEF J
  <3> QED BY <1>3, <1>4, LiftFacts
 <2> QED BY <1>3, <2>1
<1>6. \A id \in J : /\ id \in WriterIds /\ id[2] <= m
                    /\ \E i \in 1 .. k : id = s[i].id /\ id[1] = Kind(s[i])
 <2> HIDE DEF k
 <2>1. ASSUME NEW id \in Ids(s, k)
       PROVE  id \in WriterIds /\ id[2] <= m /\ \E i \in 1 .. k : id = s[i].id /\ id[1] = Kind(s[i])
   BY <1>1, StackedIds
 <2> QED BY <2>1
<1>7. w.id \notin J
 <2>1. ASSUME NEW j \in 1 .. k PROVE s[j].id # w.id
  <3>1. j \in 1 .. Len(s) /\ j < n + 1 BY <1>1
  <3>2. s[j].id[2] < w.id[2] BY <1>1, <3>1 DEF Stacked
  <3> QED BY <1>2, <3>2
 <2> HIDE DEF k
 <2> QED BY <2>1 DEF Ids
<1>8. \A id \in J : id[1] # "encrypt" /\ (id[1] = "sign" => id \in S2)
 <2>1. \A i \in 1 .. k : i \in 1 .. n /\ i \in 1 .. Len(s) /\ i <= n BY <1>1
 <2>2. \A i \in 1 .. k : Kind(s[i]) # "encrypt" /\ (Kind(s[i]) = "sign" => s[i].id \in S2)
   BY <2>1 DEF SigningTo
 <2> HIDE DEF J, S2, k
 <2> QED BY <1>6, <2>2
<1>9. \A id \in S : id \in S2 \/ id = w.id
 <2>1. ASSUME NEW i \in 1 .. Len(s), Kind(s[i]) = "sign", i <= n + 1
       PROVE  s[i].id \in S2 \/ s[i].id = w.id
  <3>1. CASE i <= n BY <2>1, <3>1 DEF SigningTo
  <3>2. CASE i = n + 1 BY <3>2
  <3> QED BY <1>1, <2>1, <3>1, <3>2
 <2> HIDE DEF S2, w
 <2> QED BY <2>1 DEF SigningTo
<1>10. Good(ps, m, J, K, T, S) OBVIOUS
<1>11. \A id : id \notin T OBVIOUS
<1> HIDE DEF J, y, S, S2, w, k
<1>12. Good(ps \o <<y>>, m, J, K, T, S2)
 <2>1. y.what # "end" /\ y.what # "header" /\ y.by[2] <= m BY <1>2, <1>5
 <2>2. \A id \in y.through : id \in J /\ id[2] <= m BY <1>5, <1>6
 <2>3. \A h \in DOMAIN ps :
         ps[h].what = "header" /\ (ps[h].by \in J \/ (ps[h].by \in T /\ ps[h].by[1] = "dash"))
           => ps[h].by \in y.through
   BY <1>5, <1>11
 <2>4. y.by \notin J /\ y.by[1] = "sign" /\ y.by \in WriterIds /\ MadeOver(ps, y.seen, y.by)
   BY <1>2, <1>3, <1>5, <1>7
 <2>5. y.what = "secret" <=> \E id \in y.through : id[1] = "encrypt" BY <1>5, <1>8
 <2>6. y.by[1] \in Finalised => y.by \in J BY <2>4 DEF Finalised
 <2>7. \A id \in y.through \cup {y.by} :
         id[1] = "sign" => id \in S2 \/ (y.what = "signature" /\ id = y.by)
   BY <1>5, <1>8
 <2>8. \A id \in S : id \in S2 \/ (y.what = "signature" /\ id = y.by) BY <1>5, <1>9
 <2> QED BY <1>5, <1>10, <2>1, <2>2, <2>3, <2>4, <2>5, <2>6, <2>7, <2>8, AppendGood
<1>13. \A a \in Nat : Counted(ps, a) => Counted(ps \o <<y>>, a) BY <1>5, CountMore
<1>14. ps \o <<y>> \in Seq(PieceSet) BY <1>5, OneMore
<1> QED BY <1>12, <1>13, <1>14 DEF Follows, Added, y, J, k, S2

\* All that a writer has had comes out, behind it what ends it, and behind that the
\* signature if it is the packet of what is signed.
LEMMA EndingGood ==
  ASSUME TypeInv, phase = "finalising", at > 0, stack[at].pending,
         NEW v, DataInv(v), NEW u0, u0[at - 1] = v[at - 1]
  PROVE  /\ Ending(at) \in Seq(PieceSet)
         /\ Follows(Behind(u0, stack, at - 1, Ending(at)), v[at], made, Ids(stack, at - 1),
                    Ids(stack, Top), Text, SigningTo(stack, at))
<1> DEFINE k == at - 1
           w == stack[at]
           E == End(w)
           es == <<E>>
           hs == w.held
           ts == Trailing(at)
           J == Ids(stack, k)
           K == Ids(stack, Top)
           S == SigningTo(stack, at + 1)
           S2 == SigningTo(stack, at)
           y == Lift(E, J)
           e1 == Added(v[at], y)
<1>1. /\ at \in 1 .. Top /\ at \in Nat /\ k \in Nat /\ k \in 0 .. at
      /\ Live = at /\ Top = Len(stack) /\ Top \in Nat /\ stack \in Seq(WriterSet)
      /\ Stacked(stack, made, at) /\ w \in WriterSet /\ made \in Nat
      /\ Kind(w) \in Finalised /\ (job # Idle => at = Top)
  BY TurnFacts, StackFacts
<1>2. k \in 0 .. Len(stack) /\ at \in 1 .. Len(stack) /\ at \in 0 .. at /\ k + 1 = at BY <1>1
<1>3. E \in PieceSet /\ E.what = "end" /\ E.by = w.id /\ E.through = {} /\ E.seen = w.seen
 <2> HIDE DEF w
 <2> QED BY <1>1, OwnPieces
<1>4. Single(es, E) /\ hs \in Seq(PieceSet) BY <1>1 DEF Single, WriterSet
<1> HIDE DEF E
<1>5. es \in Seq(PieceSet) /\ Len(es) = 1 /\ es[1] = E BY <1>3, <1>4, SingleFacts
<1>6. /\ ts \in Seq(PieceSet) /\ (Len(ts) = 0 => S \subseteq S2)
      /\ Len(ts) # 0 =>
           at < Top /\ Kind(stack[at + 1]) = "sign" /\ Single(ts, Signature(stack[at + 1]))
  BY TrailingFacts
<1>7. Ending(at) = Joined(Joined(hs, es), ts) BY EndingParts DEF E
<1> HIDE DEF es, hs, ts, k, J, K, S, S2, y, e1, w
<1>8. Joined(hs, es) \in Seq(PieceSet) /\ Joined(Joined(hs, es), ts) \in Seq(PieceSet)
  BY <1>4, <1>5, <1>6 DEF Joined
<1>9. /\ Flow(stack, at, out, v) /\ SeenAll(stack, at, v) /\ SignSeen(v)
      /\ Good(v[at], made, Ids(stack, at), K, Text, Signing) /\ Encrypts
  BY <1>1, <1>2 DEF DataInv, K
<1>10. v[at] \in Seq(PieceSet) /\ v[k] \in Seq(PieceSet) BY <1>1, <1>2, <1>9, FlowTypes
<1>11. Signing = S BY <1>1 DEF Signing, SigningTo, S
<1>12. v[at] = Behind(u0, stack, k, hs)
 <2>1. v[at] = v[at - 1] \o Lifted(stack, at - 1, stack[at].held)
  <3>1. \A i \in 1 .. at : v[i] = v[i - 1] \o Lifted(stack, i - 1, stack[i].held)
    BY <1>9 DEF Flow
  <3>2. at \in 1 .. at BY <1>1
  <3> QED BY <3>1, <3>2
 <2>2. Behind(u0, stack, at - 1, stack[at].held)
         = u0[at - 1] \o Lifted(stack, at - 1, stack[at].held)
   BY DEF Behind
 <2>3. v[at] = Behind(u0, stack, at - 1, stack[at].held) BY <2>1, <2>2
 <2> QED BY <2>3 DEF k, hs, w
<1> DEFINE u1 == [i \in {k} |-> v[at]]
           u2 == [i \in {k} |-> e1]
<1>13. u1[k] = v[at] /\ u2[k] = e1 OBVIOUS
<1> HIDE DEF u1, u2
<1>14. Behind(u1, stack, k, es) = e1
 <2>1. Behind(u1, stack, k, es) = Added(u1[k], Lift(E, Ids(stack, k)))
   BY <1>1, <1>2, <1>3, <1>5, BehindOne
 <2> QED BY <1>13, <2>1 DEF e1, y, J
<1>15. Behind(u0, stack, k, Joined(hs, es)) = e1
 <2>1. u0[k] \in Seq(PieceSet) BY <1>10 DEF k
 <2>2. u1[k] = Behind(u0, stack, k, hs) BY <1>12, <1>13
 <2>3. Behind(u0, stack, k, hs \o es) = Behind(u1, stack, k, es)
   BY <1>1, <1>2, <1>4, <1>5, <2>1, <2>2, BehindConcat
 <2> QED BY <1>14, <2>3 DEF Joined
<1>16. Behind(u0, stack, k, Joined(Joined(hs, es), ts)) = Behind(u2, stack, k, ts)
 <2> DEFINE js == Joined(hs, es)
 <2>1. u0[k] \in Seq(PieceSet) BY <1>10 DEF k
 <2>2. u2[k] = Behind(u0, stack, k, js) /\ js \in Seq(PieceSet) BY <1>8, <1>13, <1>15
 <2> HIDE DEF js
 <2>3. Behind(u0, stack, k, js \o ts) = Behind(u2, stack, k, ts)
   BY <1>1, <1>2, <1>6, <2>1, <2>2, BehindConcat
 <2> QED BY <2>3 DEF Joined, js
<1>17. \A i \in 1 .. at : Kind(stack[i]) # "encrypt" /\ (Kind(stack[i]) = "sign" => stack[i].id \in S)
 <2>1. \A i \in 1 .. at : i \in 1 .. Top /\ i \in 1 .. Len(stack) /\ i <= at + 1 BY <1>1
 <2>2. \A i \in 1 .. Top : Kind(stack[i]) # "encrypt" BY <1>9 DEF Encrypts
 <2> QED BY <2>1, <2>2 DEF SigningTo, S
<1>18. Follows(e1, v[at], made, J, K, Text, S)
 <2>1. Closes(E, stack[at], v[at])
  <3>1. Kind(w) \in Hashing => MadeOver(v[at], w.seen, w.id)
   <4>1. at \in 1 .. at BY <1>1
   <4> QED BY <1>9, <4>1 DEF SeenAll, w
  <3> QED BY <1>3, <3>1 DEF Closes, w
 <2>2. \A id \in Text : id \in Ids(stack, at) \/ id[1] # "dash"
  <3>1. CASE job = Idle BY <3>1 DEF Text
  <3>2. CASE job # Idle
   <4>1. Text = Ids(stack, Top) /\ at = Top BY <1>1, <3>2 DEF Text
   <4>2. Text = Ids(stack, at) BY <4>1
   <4> QED BY <4>2
  <3> QED BY <3>1, <3>2
 <2>3. Closable(stack, at, Text, Text, K, S) BY <1>1, <1>17, <2>2 DEF Closable, w
 <2>4. Follows(Added(v[at], Lift(E, Ids(stack, at - 1))), v[at], made, Ids(stack, at - 1), K, Text, S)
   BY <1>1, <1>2, <1>9, <1>10, <1>11, <2>1, <2>3, EndedGood
 <2> QED BY <2>4 DEF e1, y, J, k
<1>19. CASE Len(ts) = 0
 <2>1. Behind(u2, stack, k, ts) = e1
  <3>1. u2[k] \in Seq(PieceSet) BY <1>13, <1>18 DEF Follows
  <3>2. Behind(u2, stack, k, ts) = u2[k] BY <1>1, <1>2, <1>6, <1>19, <3>1, BehindNone
  <3> QED BY <1>13, <3>2
 <2>2. Good(e1, made, J, K, Text, S2)
  <3>1. e1 \in Seq(PieceSet) /\ Good(e1, made, J, K, Text, S) /\ S \subseteq S2
    BY <1>6, <1>18, <1>19 DEF Follows
  <3>2. /\ \A id \in J : id \in J \/ (id \in K /\ id[1] \notin Finalised \cup {"sign"})
        /\ \A id \in J : id[1] \in Finalised => id \in J
        /\ K \subseteq K /\ Text \subseteq Text
    OBVIOUS
  <3> QED BY <1>1, <3>1, <3>2, ShrinkGood
 <2>3. Follows(e1, v[at], made, J, K, Text, S2) BY <1>18, <2>2 DEF Follows
 <2> QED BY <1>7, <1>8, <1>16, <2>1, <2>3 DEF J, k, K, S2
<1>20. CASE Len(ts) # 0
 <2> DEFINE g == Signature(stack[at + 1])
            x == stack[at + 1]
            e2 == Added(e1, Lift(g, J))
 <2>1. at < Top /\ Kind(x) = "sign" /\ Single(ts, g) BY <1>6, <1>20
 <2>2. x \in WriterSet /\ at + 1 \in 1 .. Len(stack)
  <3>1. at + 1 \in 1 .. Len(stack) BY <1>1, <2>1
  <3> QED BY <1>1, <3>1
 <2>3. x.id \in WriterIds /\ g \in PieceSet /\ g.what = "signature" /\ g.by = x.id /\ g.through = {} /\ g.seen = x.seen
  <3>1. x.id \in WriterIds BY <2>2 DEF WriterSet
  <3>2. g = Signature(x) OBVIOUS
  <3> HIDE DEF x, g
  <3> QED BY <2>2, <3>1, <3>2, OwnPieces
 <2>4. MadeOver(v[at], x.seen, x.id) BY <1>1, <1>9, <2>1 DEF SignSeen
 <2> HIDE DEF x
 <2>5. y \in PieceSet /\ x.id \notin y.through
  <3>1. J \in SUBSET WriterIds BY <1>1, <1>2, IdsFacts DEF J
  <3>2. y \in PieceSet /\ y.through = E.through \cup J BY <1>3, <3>1, LiftFacts DEF y
  <3>3. x.id \notin J
   <4>1. ASSUME NEW j \in 1 .. k PROVE stack[j].id # x.id
    <5>1. j \in 1 .. Len(stack) /\ at + 1 \in 1 .. Len(stack) /\ j < at + 1
      BY <1>1, <1>2, <2>2
    <5>2. stack[j].id[2] < x.id[2] BY <1>1, <5>1 DEF Stacked, x
    <5>3. x.id[2] \in Nat BY <2>3, IdFacts
    <5> QED BY <5>2, <5>3
   <4> QED BY <4>1 DEF J, Ids
  <3> QED BY <1>3, <3>2, <3>3
 <2>6. MadeOver(e1, x.seen, x.id)
  <3>1. MadeOver(v[at] \o <<y>>, x.seen, x.id) BY <1>10, <2>3, <2>4, <2>5, MadeOverOther
  <3> QED BY <3>1 DEF e1, Added
 <2>7. SignsOver(g, x, e1) BY <2>3, <2>6 DEF SignsOver
 <2>8. \A id : id \notin Text
  <3>1. phase # "open" /\ job = Idle BY <1>1, <2>1
  <3>2. Text = {} BY <3>1 DEF Text
  <3> QED BY <3>2
 <2>9. Follows(Added(e1, Lift(g, J)), e1, made, J, K, Text, S2)
  <3>1. e1 \in Seq(PieceSet) /\ Good(e1, made, J, K, Text, S) BY <1>18 DEF Follows
  <3>2. Good(e1, made, Ids(stack, at - 1), K, Text, SigningTo(stack, at + 1))
    BY <3>1 DEF J, k, S
  <3>3. \A i \in 1 .. at : Kind(stack[i]) # "encrypt" BY <1>17
  <3>4. at < Len(stack) /\ Kind(stack[at + 1]) = "sign" /\ SignsOver(g, stack[at + 1], e1)
    BY <1>1, <2>1, <2>7 DEF x
  <3> HIDE DEF g, Top
  <3>5. Follows(Added(e1, Lift(g, Ids(stack, at - 1))), e1, made, Ids(stack, at - 1), K, Text, SigningTo(stack, at))
    BY <1>1, <1>2, <2>8, <3>1, <3>2, <3>3, <3>4, SignedGood
  <3> QED BY <3>5 DEF J, k, S2
 <2>10. Behind(u2, stack, k, ts) = e2
  <3> HIDE DEF g
  <3>1. Len(ts) = 1 /\ ts[1] = g BY <2>1, <2>3, SingleFacts
  <3>2. Behind(u2, stack, k, ts) = Added(u2[k], Lift(g, Ids(stack, k)))
    BY <1>1, <1>2, <1>6, <2>3, <3>1, BehindOne
  <3> QED BY <1>13, <3>2 DEF J
 <2>11. Follows(e2, v[at], made, J, K, Text, S2)
  <3> HIDE DEF g
  <3> QED BY <1>18, <2>9 DEF Follows
 <2> QED BY <1>7, <1>8, <1>16, <2>10, <2>11 DEF J, k, K, S2
<1> QED BY <1>19, <1>20

\* What a writer ends with is pieces, whatever came of what was written before.
LEMMA EndingTypes ==
  ASSUME TypeInv, phase = "finalising", at > 0, stack[at].pending
  PROVE  Ending(at) \in Seq(PieceSet)
<1> DEFINE w == stack[at]
           E == End(w)
           es == <<E>>
           hs == w.held
           ts == Trailing(at)
<1>1. w \in WriterSet BY TurnFacts
<1>2. E \in PieceSet
 <2> HIDE DEF w
 <2> QED BY <1>1, OwnPieces
<1>3. Single(es, E) /\ hs \in Seq(PieceSet) BY <1>1 DEF Single, WriterSet
<1> HIDE DEF E
<1>4. es \in Seq(PieceSet) BY <1>2, <1>3, SingleFacts
<1>5. ts \in Seq(PieceSet) BY TrailingFacts
<1>6. Ending(at) = Joined(Joined(hs, es), ts) BY EndingParts DEF E
<1> HIDE DEF es, hs, ts
<1> QED BY <1>3, <1>4, <1>5, <1>6 DEF Joined

\* The turn passes on to the writer below.
TurnPasses ==
  /\ at' = at - 1 /\ made' = made /\ accepted' = accepted /\ job' = job /\ phase' = phase
  /\ Stacked(stack', made, at - 1) /\ Len(stack') = Len(stack)
  /\ \A i \in 1 .. Len(stack) : stack'[i].id = stack[i].id

\* After a finaliser the writer below is the topmost that is live.
LEMMA NextTurn ==
  ASSUME TypeInv, phase = "finalising", at > 0, TurnPasses,
         out' \in Seq(PieceSet), intact' \in BOOLEAN
  PROVE  TypeInv' /\ Live' = at - 1 /\ Top' = Top
<1>1. /\ at \in 1 .. Top /\ at \in Nat /\ at - 1 \in Nat /\ Top = Len(stack) /\ Top \in Nat
      /\ stack \in Seq(WriterSet) /\ made \in Nat
  BY TurnFacts, StackFacts
<1>2. /\ at' = at - 1 /\ made' = made /\ accepted' = accepted /\ job' = job /\ phase' = phase
      /\ Stacked(stack', made, at - 1) /\ Len(stack') = Len(stack)
      /\ \A i \in 1 .. Len(stack) : stack'[i].id = stack[i].id
  BY DEF TurnPasses
<1>3. Live' = at - 1 /\ Top' = Top BY <1>2 DEF Live, Top
<1>4. StackInv'
 <2>1. made' \in 0 .. MaxWriters /\ phase' = "finalising" BY <1>2 DEF TypeInv, StackInv
 <2>2. at' \in 0 .. MaxWriters + 1
  <3>1. at \in 0 .. MaxWriters + 1 /\ MaxWriters \in Nat
    BY DEF TypeInv, StackInv, WriterStackAssumption
  <3> QED BY <1>1, <1>2, <3>1
 <2>3. at' <= Top'
  <3> HIDE DEF Top
  <3> QED BY <1>1, <1>2, <1>3
 <2>4. Stacked(stack', made', Live') BY <1>2, <1>3
 <2> HIDE DEF Top, Live
 <2> QED BY <2>1, <2>2, <2>3, <2>4 DEF StackInv
<1>5. KeyInv'
 <2>1. /\ job \in JobSet /\ (job.at = "none" => ~job.armoured)
       /\ job = Idle \/ job = [at |-> "packets", armoured |-> TRUE]
   BY KeyFacts
 <2>2. job.at # "encrypted_part" BY <2>1 DEF Idle
 <2>3. ASSUME job.armoured, job.at # "failed" PROVE KeyAt(stack', Top')
  <3>1. KeyAt(stack, Top) BY <2>2, <2>3, KeyFacts
  <3>2. stack' \in Seq(WriterSet) /\ Top \in Nat BY <1>1, <1>2 DEF Stacked
  <3>3. Top <= Len(stack') /\ \A i \in 1 .. Top : stack'[i].id = stack[i].id BY <1>1, <1>2
  <3>4. KeyAt(stack', Top)
   <4> HIDE DEF Top
   <4> QED BY <1>1, <3>1, <3>2, <3>3, KeyAtLike
  <3> QED BY <1>3, <3>4
 <2>4. phase' = "finalising" /\ job' = job BY <1>2
 <2> HIDE DEF Top
 <2> QED BY <2>1, <2>2, <2>3, <2>4 DEF KeyInv
<1>6. accepted' \in 0 .. MaxData BY <1>2 DEF TypeInv
<1> QED BY <1>3, <1>4, <1>5, <1>6 DEF TypeInv

\* When a turn passes it takes with it what has been written to the writers below.
LEMMA NextWritten ==
  ASSUME TypeInv, phase = "finalising", at > 0, TurnPasses,
         out' \in Seq(PieceSet), intact' \in BOOLEAN, NEW v, DataInv(v),
         NEW u, Flow(stack', at - 1, out', u), SeenAll(stack', at - 1, u),
         Follows(u[at - 1], v[at], made, Ids(stack, at - 1), Ids(stack, Top), Text,
                 SigningTo(stack, at)),
         Kind(stack[at]) = "sign" => MadeOver(u[at - 1], stack'[at].seen, stack[at].id)
  PROVE  WrittenInv'
<1>1. /\ at \in 1 .. Top /\ at \in Nat /\ at - 1 \in Nat /\ Top = Len(stack) /\ Top \in Nat
      /\ Live = at /\ stack \in Seq(WriterSet) /\ accepted \in Nat
  BY TurnFacts, StackFacts
<1>2. /\ at' = at - 1 /\ made' = made /\ accepted' = accepted /\ job' = job /\ phase' = phase
      /\ \A i \in 1 .. Len(stack) : stack'[i].id = stack[i].id
  BY DEF TurnPasses
<1>3. Live' = at - 1 /\ Top' = Top BY NextTurn
<1>4. Counted(v[at], accepted) /\ Encrypts BY <1>1 DEF DataInv
<1>5. \A k \in 0 .. Len(stack) : Ids(stack', k) = Ids(stack, k)
 <2>1. SameIdsTo(stack, stack', Len(stack)) BY <1>1, <1>2, SameIds
 <2> QED BY <2>1 DEF SameIdsTo
<1>6. Ids(stack', Live') = Ids(stack, at - 1) /\ Ids(stack', Top') = Ids(stack, Top)
 <2>1. at - 1 \in 0 .. Len(stack) /\ Top \in 0 .. Len(stack) BY <1>1
 <2> HIDE DEF Top, Live
 <2> QED BY <1>3, <1>5, <2>1
<1>7. Text' = Text
 <2>1. phase' = phase /\ job' = job BY <1>2
 <2>2. Ids(stack', Top') = Ids(stack, Top) BY <1>6
 <2> QED BY <2>1, <2>2 DEF Text
<1>8. Signing' = SigningTo(stack, at)
 <2>1. Live' + 1 = at
  <3> HIDE DEF Live
  <3> QED BY <1>1, <1>3
 <2>2. \A i \in 1 .. Len(stack) : stack'[i].id = stack[i].id /\ Kind(stack'[i]) = Kind(stack[i])
   BY <1>2 DEF Kind
 <2>3. Top' = Len(stack) BY <1>1, <1>3
 <2>4. Signing' = {stack'[j].id : j \in {i \in 1 .. Top' : Kind(stack'[i]) = "sign" /\ i <= Live' + 1}}
   BY DEF Signing
 <2> HIDE DEF Top, Live
 <2>5. Signing' = {stack'[j].id : j \in {i \in 1 .. Len(stack) : Kind(stack'[i]) = "sign" /\ i <= at}}
   BY <2>1, <2>3, <2>4
 <2>6. {i \in 1 .. Len(stack) : Kind(stack'[i]) = "sign" /\ i <= at}
         = {i \in 1 .. Len(stack) : Kind(stack[i]) = "sign" /\ i <= at}
   BY <2>2
 <2> QED BY <2>2, <2>5, <2>6 DEF SigningTo
<1>9. SignSeen(u)'
 <2>1. at \in 1 .. Len(stack) BY <1>1
 <2>2. stack'[at].id = stack[at].id /\ Kind(stack'[at]) = Kind(stack[at]) BY <1>2, <2>1 DEF Kind
 <2>3. Live' = at - 1 /\ Live' + 1 = at
  <3> HIDE DEF Live
  <3> QED BY <1>1, <1>3
 <2> HIDE DEF Top, Live
 <2> QED BY <2>2, <2>3 DEF SignSeen
<1>10. Encrypts'
 <2>1. \A i \in 1 .. Top : Kind(stack'[i]) # "encrypt"
  <3>1. \A i \in 1 .. Top : Kind(stack[i]) # "encrypt" BY <1>4 DEF Encrypts
  <3>2. \A i \in 1 .. Top : i \in 1 .. Len(stack) BY <1>1
  <3> QED BY <1>2, <3>1, <3>2 DEF Kind
 <2> HIDE DEF Top
 <2> QED BY <1>2, <1>3, <1>4, <2>1 DEF Encrypts
<1>11. /\ Good(u[Live'], made', Ids(stack', Live'), Ids(stack', Top'), Text', Signing')
       /\ Counted(u[Live'], accepted')
 <2>1. /\ Good(u[at - 1], made, Ids(stack, at - 1), Ids(stack, Top), Text, SigningTo(stack, at))
       /\ Counted(u[at - 1], accepted)
   BY <1>1, <1>4 DEF Follows
 <2> QED BY <1>2, <1>3, <1>6, <1>7, <1>8, <2>1
<1>12. Flow(stack', Live', out', u) /\ SeenAll(stack', Live', u) BY <1>3
<1>13. DataInv(u)' BY <1>9, <1>10, <1>11, <1>12 DEF DataInv
<1> QED BY <1>13 DEF WrittenInv

\* A writer without a finaliser has nothing to write.
LEMMA SkipStep ==
  ASSUME TypeInv, WrittenInv, Finalise, ~stack[at].pending PROVE TypeInv' /\ WrittenInv'
<1>1. /\ phase = "finalising" /\ at > 0 /\ stack' = stack /\ out' = out /\ intact' = intact
      /\ at' = at - 1 /\ made' = made /\ accepted' = accepted /\ job' = job /\ phase' = phase
  BY DEF Finalise, Following
<1>2. /\ at \in 1 .. Top /\ at \in Nat /\ at - 1 \in Nat /\ at - 1 \in 0 .. at
      /\ Live = at /\ Top = Len(stack) /\ Top \in Nat /\ stack \in Seq(WriterSet)
      /\ Stacked(stack, made, at) /\ stack[at] \in WriterSet /\ Bare(stack[at])
  BY <1>1, TurnFacts
<1>3. made \in Nat BY <1>1, StackFacts
<1>4. at \in 1 .. Len(stack) /\ at \in 0 .. at /\ at \in 0 .. Len(stack) /\ at - 1 \in 0 .. Len(stack)
      /\ at \in 1 .. at
  BY <1>2
<1>5. Stacked(stack, made, at - 1) /\ Kind(stack[at]) \notin Finalised
  BY <1>2, <1>3, <1>4, StackedNext
<1>6. TurnPasses BY <1>1, <1>5 DEF TurnPasses
<1>7. out' \in Seq(PieceSet) /\ intact' \in BOOLEAN BY <1>1 DEF TypeInv
<1>8. TypeInv' BY <1>1, <1>6, <1>7, NextTurn
<1>9. ASSUME intact' PROVE WrittenInv'
 <2>1. PICK v : DataInv(v) BY <1>1, <1>9 DEF WrittenInv
 <2>2. /\ Flow(stack, at, out, v) /\ SeenAll(stack, at, v)
       /\ Good(v[at], made, Ids(stack, at), Ids(stack, Top), Text, Signing)
   BY <1>2, <2>1 DEF DataInv
 <2> DEFINE k == at - 1
            L == Ids(stack, at)
            J == Ids(stack, k)
            K == Ids(stack, Top)
            S == SigningTo(stack, at)
            hs == stack[at].held
 <2>3. v[at] = v[k] /\ v[at] \in Seq(PieceSet)
  <3>1. v[at] = v[at - 1] \o Lifted(stack, at - 1, stack[at].held)
   <4>1. \A i \in 1 .. at : v[i] = v[i - 1] \o Lifted(stack, i - 1, stack[i].held)
     BY <2>2 DEF Flow
   <4> QED BY <1>4, <4>1
  <3>2. v[at] \in Seq(PieceSet) /\ v[k] \in Seq(PieceSet) BY <1>2, <1>4, <2>2, FlowTypes
  <3>3. hs \in Seq(PieceSet) /\ Len(hs) = 0 BY <1>2 DEF Bare, WriterSet
  <3>4. v[at] = Behind(v, stack, k, hs) BY <3>1 DEF Behind
  <3>5. k \in 0 .. Len(stack) BY <1>4
  <3> HIDE DEF k, hs
  <3>6. Behind(v, stack, k, hs) = v[k] BY <1>2, <3>2, <3>3, <3>5, BehindNone
  <3> QED BY <3>2, <3>4, <3>6
 <2>4. PICK u : Flow(stack, k, out, u) /\ SeenAll(stack, k, u) /\ u[k] = v[k]
  <3>1. SameTo(stack, stack, k) BY DEF SameTo
  <3>2. k \in 0 .. at BY <1>2
  <3> HIDE DEF k
  <3>3. CutOff(stack, k, out, v[k]) BY <1>2, <2>2, <3>1, <3>2, FlowCut
  <3> QED BY <3>3 DEF CutOff
 <2>5. L = J \cup {stack[at].id} BY <1>2, <1>4, IdsFacts
 <2>6. Signing \subseteq S
  <3>1. ASSUME NEW i \in 1 .. Len(stack), Kind(stack[i]) = "sign", i <= at + 1
        PROVE  i <= at
   <4>1. ASSUME i = at + 1 PROVE FALSE
    <5>1. at < Len(stack) /\ Kind(stack[at + 1]) = "sign" BY <1>2, <3>1, <4>1
    <5>2. Kind(stack[at]) = "partial" BY <1>2, <1>4, <5>1, SignAbove
    <5> QED BY <1>5, <5>2 DEF Finalised
   <4> QED BY <1>2, <3>1, <4>1
  <3>2. Signing = {stack[j].id : j \in {i \in 1 .. Len(stack) : Kind(stack[i]) = "sign" /\ i <= at + 1}}
    BY <1>2 DEF Signing
  <3> QED BY <3>1, <3>2 DEF SigningTo
 <2>7. J \subseteq L /\ \A id \in L : id[1] \in Finalised => id \in J BY <1>5, <2>5 DEF Kind
 <2>8. Follows(v[at], v[at], made, J, K, Text, S)
  <3> DEFINE ps == v[at]
             T == Text
             S0 == Signing
  <3>1. /\ \A id \in J : id \in L \/ (id \in K /\ id[1] \notin Finalised \cup {"sign"})
        /\ \A id \in L : id[1] \in Finalised => id \in J
        /\ K \subseteq K /\ T \subseteq T /\ S0 \subseteq S
    BY <2>6, <2>7
  <3>2. Good(ps, made, L, K, T, S0) /\ ps \in Seq(PieceSet) BY <2>2, <2>3
  <3> HIDE DEF J, L, K, S, ps, T, S0
  <3>3. Good(ps, made, J, K, T, S) BY <1>3, <3>1, <3>2, ShrinkGood
  <3> QED BY <3>2, <3>3 DEF Follows, ps, T
 <2>9. Follows(u[at - 1], v[at], made, Ids(stack, at - 1), Ids(stack, Top), Text, SigningTo(stack, at))
   BY <2>3, <2>4, <2>8
 <2>10. Kind(stack[at]) = "sign" => MadeOver(u[at - 1], stack'[at].seen, stack[at].id)
  <3>1. Kind(stack[at]) = "sign" => MadeOver(v[at], stack[at].seen, stack[at].id)
    BY <1>4, <2>2 DEF SeenAll, Hashing
  <3> QED BY <1>1, <2>3, <2>4, <3>1
 <2>11. Flow(stack', at - 1, out', u) /\ SeenAll(stack', at - 1, u) BY <1>1, <2>4
 <2> HIDE DEF k, L, J, K, S, hs
 <2> QED BY <1>1, <1>6, <1>7, <2>1, <2>9, <2>10, <2>11, NextWritten
<1> QED BY <1>8, <1>9 DEF WrittenInv

\* The others end what they have written.
LEMMA EndStep ==
  ASSUME TypeInv, WrittenInv, Finalise, stack[at].pending PROVE TypeInv' /\ WrittenInv'
<1> DEFINE k == at - 1
           xs == Ending(at)
<1>1. /\ phase = "finalising" /\ at > 0
      /\ at' = at - 1 /\ made' = made /\ accepted' = accepted /\ job' = job /\ phase' = phase
  BY DEF Finalise, Following
<1>2. PICK o \in Outcomes(xs, k) :
        Written(o, k, FALSE) /\ stack' = Done(o.stack, at)
  BY DEF Finalise, Done
<1>3. /\ at \in 1 .. Top /\ at \in Nat /\ k \in Nat /\ k \in 0 .. at
      /\ Live = at /\ Top = Len(stack) /\ Top \in Nat /\ stack \in Seq(WriterSet)
      /\ Stacked(stack, made, at) /\ stack[at] \in WriterSet
      /\ Kind(stack[at]) \in Finalised
  BY <1>1, TurnFacts
<1>4. made \in Nat BY <1>1, StackFacts
<1>5. at \in 1 .. Len(stack) /\ at \in 0 .. at /\ k \in 0 .. Len(stack) /\ at \in 1 .. at /\ k \in 0 .. Live
  BY <1>3
<1>6. xs \in Seq(PieceSet) BY <1>1, EndingTypes
<1> HIDE DEF xs, k
<1>7. /\ out' \in Seq(PieceSet) /\ intact' \in BOOLEAN /\ out' = o.out
      /\ Like(stack, o.stack, k) /\ Stacked(o.stack, made, Live)
      /\ intact' => intact /\ ~o.fails
 <2>1. phase # "closed" BY <1>1
 <2> QED BY <1>2, <1>5, <1>6, <2>1, WriteTypes
<1>8. /\ o.stack \in Seq(WriterSet) /\ Len(o.stack) = Len(stack)
      /\ \A i \in 1 .. Len(stack) : o.stack[i].id = stack[i].id
  BY <1>3, <1>7, LikeIds
<1>9. at \in 1 .. Len(o.stack) BY <1>5, <1>8
<1>10. /\ stack' \in Seq(WriterSet) /\ Len(stack') = Len(stack)
       /\ \A i \in 1 .. Len(stack) : i # at => stack'[i] = o.stack[i]
       /\ stack'[at].id = o.stack[at].id
  BY <1>2, <1>8, <1>9, DoneFacts
<1>11. Stacked(stack', made, at - 1) BY <1>2, <1>3, <1>4, <1>7, <1>9, StackedDone
<1>12. TurnPasses
 <2>1. \A i \in 1 .. Len(stack) : stack'[i].id = stack[i].id BY <1>8, <1>10
 <2> QED BY <1>1, <1>10, <1>11, <2>1 DEF TurnPasses
<1>13. TypeInv' BY <1>1, <1>7, <1>12, NextTurn
<1>14. ASSUME intact' PROVE WrittenInv'
 <2>1. PICK v : DataInv(v) BY <1>7, <1>14 DEF WrittenInv
 <2>2. Flow(stack, at, out, v) /\ SeenAll(stack, at, v) BY <1>3, <2>1 DEF DataInv
 <2>3. PICK u0 : Flow(stack, k, out, u0) /\ SeenAll(stack, k, u0) /\ u0[k] = v[k]
  <3>1. SameTo(stack, stack, k) BY DEF SameTo
  <3>2. CutOff(stack, k, out, v[k]) BY <1>3, <2>2, <3>1, FlowCut
  <3> QED BY <3>2 DEF CutOff
 <2>4. PICK u1 : /\ Flow(o.stack, k, o.out, u1) /\ SeenAll(o.stack, k, u1)
                 /\ u1[k] = Behind(u0, stack, k, xs)
  <3>1. out \in Seq(PieceSet) /\ intact \in BOOLEAN BY DEF TypeInv
  <3> QED BY <1>2, <1>3, <1>5, <1>6, <1>7, <1>14, <2>3, <3>1, WriteFlow
 <2>5. PICK u : Flow(stack', k, out', u) /\ SeenAll(stack', k, u) /\ u[k] = u1[k]
  <3>1. SameTo(o.stack, stack', k)
   <4>1. \A i \in 1 .. k : i \in 1 .. Len(stack) /\ i # at BY <1>3 DEF k
   <4> QED BY <1>10, <4>1 DEF SameTo
  <3>2. k \in 0 .. k BY <1>3
  <3>3. CutOff(stack', k, o.out, u1[k]) BY <1>3, <2>4, <3>1, <3>2, FlowCut
  <3> QED BY <1>7, <3>3 DEF CutOff
 <2>6. Follows(u[at - 1], v[at], made, Ids(stack, at - 1), Ids(stack, Top), Text, SigningTo(stack, at))
  <3>1. u0[at - 1] = v[at - 1] BY <2>3 DEF k
  <3>2. Follows(Behind(u0, stack, at - 1, Ending(at)), v[at], made, Ids(stack, at - 1),
                Ids(stack, Top), Text, SigningTo(stack, at))
    BY <1>1, <2>1, <3>1, EndingGood
  <3>3. u[at - 1] = Behind(u0, stack, at - 1, Ending(at)) BY <2>4, <2>5 DEF k, xs
  <3> QED BY <3>2, <3>3
 <2>7. Kind(stack[at]) # "sign" BY <1>3 DEF Finalised
 <2>8. Flow(stack', at - 1, out', u) /\ SeenAll(stack', at - 1, u) BY <2>5 DEF k
 <2> QED BY <1>1, <1>7, <1>12, <2>1, <2>6, <2>7, <2>8, NextWritten
<1> QED BY <1>13, <1>14 DEF WrittenInv

\* A finaliser keeps the invariant: what its writer held comes out before its end,
\* which is of all that went through it, and a signed writer's signature after that
\* (writer_info_finalise).
LEMMA FinaliseStep ==
  ASSUME TypeInv, WrittenInv, Finalise PROVE TypeInv' /\ WrittenInv'
BY SkipStep, EndStep

-----------------------------------------------------------------------------
(* The invariant. *)

\* Nothing has been written to the base writer.
LEMMA InitWritten ==
  ASSUME Init PROVE TypeInv /\ WrittenInv
<1> DEFINE w == Writer("base", 0)
           e == [i \in 1 .. 0 |-> 0]
<1>1. /\ stack = <<w>> /\ made = 0 /\ accepted = 0 /\ out = <<>>
      /\ job = Idle /\ phase = "open" /\ at = 0 /\ intact = TRUE
  BY DEF Init
<1>2. 0 \in 0 .. MaxWriters /\ 0 \in 0 .. MaxData /\ 0 \in 0 .. MaxWriters + 1
  BY DEF WriterStackAssumption
<1>3. /\ w \in WriterSet /\ w.id = <<"base", 0>> /\ Kind(w) = "base" /\ w.id[2] = 0
      /\ w.pending = ("base" \in Finalised) /\ Bare(w)
 <2>1. "base" \in Kinds BY DEF Kinds
 <2> QED BY <1>2, <2>1, WriterTypes
<1> HIDE DEF w
<1>4. stack \in Seq(WriterSet) /\ Len(stack) = 1 /\ stack[1] = w BY <1>1, <1>3
<1>5. Live = 1 /\ Top = 1 BY <1>1, <1>4 DEF Live, Top
<1>6. \A i \in 1 .. 1 : i = 1 OBVIOUS
<1>7. Stacked(stack, made, Live)
 <2>1. \A i, j \in 1 .. Len(stack) : ~(i < j) BY <1>4, <1>6
 <2>2. ~w.pending /\ Kind(w) \notin Finalised BY <1>3 DEF Finalised
 <2> QED BY <1>1, <1>3, <1>4, <1>5, <1>6, <2>1, <2>2 DEF Stacked, Bare
<1>8. StackInv BY <1>1, <1>2, <1>7 DEF StackInv
<1>9. KeyInv
 <2>1. job.at = "none" /\ job.armoured = FALSE /\ job \in JobSet BY <1>1 DEF Idle, JobSet
 <2> QED BY <1>1, <2>1 DEF KeyInv
<1>10. out \in Seq(PieceSet) BY <1>1
<1>11. TypeInv BY <1>1, <1>2, <1>8, <1>9, <1>10 DEF TypeInv
<1>12. WrittenInv
 <2> DEFINE v == [i \in 0 .. 1 |-> out]
            L == Ids(stack, 1)
            S == Signing
 <2>1. v \in [0 .. 1 -> Seq(PieceSet)] /\ v[0] = out /\ v[1] = out BY <1>10
 <2>2. PICK u : Flow(stack, 1, out, u) /\ SeenAll(stack, 1, u) /\ u[1] = out
  <3>1. \A i \in 1 .. 1 : Bare(stack[i]) /\ Kind(stack[i]) \notin Hashing
    BY <1>3, <1>4, <1>6 DEF Hashing
  <3>2. 1 \in 0 .. Len(stack) BY <1>4
  <3>3. CutOff(stack, 1, out, out) BY <1>4, <1>10, <3>1, <3>2, FlowEmpty
  <3> QED BY <3>3 DEF CutOff
 <2>3. Text = L BY <1>1, <1>5 DEF Text
 <2>4. DOMAIN out = {} /\ Len(out) = 0 BY <1>1
 <2>5. Good(out, made, L, L, L, S)
  <3> HIDE DEF L, S
  <3> QED BY <2>4 DEF Good, Framed, Covering, SecretsOnly, Old, NotEnded, EndKinds, EndOnce,
                      Shut, Headed, TextOpen, WillEnd, WillSign
 <2>6. Counted(out, accepted)
  <3>1. Numbers(out) = {} BY <2>4 DEF Numbers
  <3>2. Count(out, Len(out)) = 0
   <4> DEFINE z == Len(out)
   <4>1. z \in Nat /\ z = 0 BY <2>4
   <4> HIDE DEF z
   <4>2. Count(out, z) = 0 BY <1>10, <4>1, CountFacts
   <4> QED BY <4>2 DEF z
  <3>3. accepted = 0 BY <1>1
  <3> QED BY <3>1, <3>2, <3>3 DEF Counted
 <2>7. Encrypts BY <1>1, <1>3, <1>4, <1>5, <1>6 DEF Encrypts, Idle
 <2>8. SignSeen(u) BY <1>5 DEF SignSeen
 <2>9. DataInv(u) BY <1>5, <2>2, <2>3, <2>5, <2>6, <2>7, <2>8 DEF DataInv
 <2> QED BY <2>9 DEF WrittenInv
<1> QED BY <1>11, <1>12

\* Every step keeps it.
LEMMA NextStep ==
  ASSUME TypeInv, WrittenInv, [Next]_vars PROVE TypeInv' /\ WrittenInv'
<1>1. CASE UNCHANGED vars
 <2>1. /\ stack' = stack /\ out' = out /\ made' = made /\ accepted' = accepted
       /\ job' = job /\ phase' = phase /\ at' = at /\ intact' = intact
   BY <1>1 DEF vars
 <2>2. Top' = Top /\ Live' = Live BY <2>1 DEF Top, Live
 <2>3. StackInv' /\ KeyInv' BY <2>1, <2>2 DEF TypeInv, StackInv, KeyInv
 <2>4. TypeInv' BY <2>1, <2>3 DEF TypeInv
 <2>5. ASSUME NEW v, DataInv(v) PROVE DataInv(v)'
  <3>1. Text' = Text /\ Signing' = Signing BY <2>1, <2>2 DEF Text, Signing
  <3>2. SignSeen(v)' /\ Encrypts' BY <2>1, <2>2, <2>5 DEF DataInv, SignSeen, Encrypts
  <3> QED BY <2>1, <2>2, <2>5, <3>1, <3>2 DEF DataInv
 <2>6. WrittenInv' BY <2>1, <2>5 DEF WrittenInv
 <2> QED BY <2>4, <2>6
<1>2. CASE Next
 <2>1. CASE PushArmouredMessage BY <2>1, PushArmouredMessageStep
 <2>2. CASE PushStreamEncrypt BY <2>2, PushStreamEncryptStep
 <2>3. CASE PushCompressed BY <2>3, PushCompressedStep
 <2>4. CASE PushLiteral BY <2>4, PushLiteralStep
 <2>5. CASE PushSigned BY <2>5, PushSignedStep
 <2>6. CASE PushClearsigned BY <2>6, PushClearsignedStep
 <2>7. CASE SwitchToArmouredSignature BY <2>7, SwitchToArmouredSignatureStep
 <2>8. CASE Write BY <2>8, WriteStep
 <2>9. CASE KeyPacket BY <2>9, KeyPacketStep
 <2>10. CASE PushEncrypt BY <2>10, PushEncryptStep
 <2>11. CASE SecretPart BY <2>11, SecretPartStep
 <2>12. CASE EndKey BY <2>12, EndKeyStep
 <2>13. CASE \E armoured, secret \in BOOLEAN : BeginKey(armoured, secret)
  <3>1. PICK armoured \in BOOLEAN, secret \in BOOLEAN : BeginKey(armoured, secret) BY <2>13
  <3> QED BY <3>1, BeginKeyStep
 <2>14. CASE Close BY <2>14, CloseStep
 <2>15. CASE Finalise BY <2>15, FinaliseStep
 <2>16. CASE Delete BY <2>16, DeleteStep
 <2>17. CASE Pop BY <2>17, PopStep
 <2> QED BY <1>2, <2>1, <2>2, <2>3, <2>4, <2>5, <2>6, <2>7, <2>8, <2>9, <2>10, <2>11, <2>12,
            <2>13, <2>14, <2>15, <2>16, <2>17 DEF Next
<1> QED BY <1>1, <1>2

\* The writers and what has been written to them are always as they should be.
THEOREM AlwaysWritten == Spec => [](TypeInv /\ WrittenInv)
<1> USE WriterStackAssumption
<1>1. Init => TypeInv /\ WrittenInv BY InitWritten
<1>2. (TypeInv /\ WrittenInv) /\ [Next]_vars => (TypeInv /\ WrittenInv)' BY NextStep
<1> QED BY <1>1, <1>2, PTL DEF Spec

-----------------------------------------------------------------------------
(* What calls return. *)

ReportInv ==
  /\ failed \in BOOLEAN /\ errors \in BOOLEAN /\ good \in BOOLEAN
  /\ failed => errors
  /\ ~good => errors

-----------------------------------------------------------------------------

\* A write that returns ops_false has failed where no partial writer drops errors
\* (stream_partial_writer).
LEMMA FalseIsReported ==
  ASSUME NEW pieces, NEW top, NEW o \in Outcomes(pieces, top)
  PROVE  /\ o.good \in BOOLEAN /\ o.fails \in BOOLEAN
         /\ ~o.good => o.fails /\ ~Lost(top)
         /\ \A s : [o EXCEPT !.stack = s].good = o.good
<1>1. PICK keep \in SUBSET {i \in 1 .. top : Kind(stack[i]) \in Buffering} :
        LET to == Arriving(stack, pieces, top, keep)
            passed == PassDown(stack, to, top, keep)
        IN  o \in {[stack |-> Followed(passed, intact), fails |-> FALSE, good |-> TRUE,
                    out |-> IF intact THEN out \o to[0] ELSE <<>>]}
                  \cup (IF to[0] = <<>> THEN {} ELSE
                          {[stack |-> Followed(passed, FALSE), fails |-> TRUE,
                            good |-> g, out |-> <<>>] : g \in Results(top)})
  BY DEF Outcomes
<1> DEFINE to == Arriving(stack, pieces, top, keep)
           passed == PassDown(stack, to, top, keep)
<1> HIDE DEF passed
<1>2. CASE o = [stack |-> Followed(passed, intact), fails |-> FALSE, good |-> TRUE,
                out |-> IF intact THEN out \o to[0] ELSE <<>>]
  BY <1>2
<1>3. CASE \E g \in Results(top) :
             o = [stack |-> Followed(passed, FALSE), fails |-> TRUE, good |-> g,
                  out |-> <<>>]
 <2>1. PICK g \in Results(top) :
         o = [stack |-> Followed(passed, FALSE), fails |-> TRUE, good |-> g,
              out |-> <<>>]
   BY <1>3
 <2>2. o.good = g /\ o.fails = TRUE BY <2>1
 <2>3. g \in BOOLEAN /\ (~g => ~Drops(top)) BY DEF Results
 <2>4. \A s : [o EXCEPT !.stack = s].good = o.good BY <2>1
 <2> QED BY <2>2, <2>3, <2>4 DEF Lost
<1> QED BY <1>1, <1>2, <1>3 DEF passed

\* What a write adds to info->errors stays there, and is there when it fails.
LEMMA WrittenReports ==
  ASSUME ReportInv, NEW pieces, NEW top, NEW o \in Outcomes(pieces, top),
         NEW report \in BOOLEAN, Written(o, top, report)
  PROVE  /\ errors' \in BOOLEAN /\ (errors => errors') /\ (report => errors')
         /\ o.good \in BOOLEAN /\ (~o.good => errors')
<1>1. /\ o.good \in BOOLEAN /\ o.fails \in BOOLEAN
      /\ ~o.good => o.fails /\ ~Lost(top)
  BY FalseIsReported
<1>2. errors' = (errors \/ report \/ (o.fails /\ ~Lost(top))) BY DEF Written
<1> QED BY <1>1, <1>2 DEF ReportInv

\* Nothing has failed before the first call.
LEMMA InitReportInv == Init => ReportInv
BY DEF Init, ReportInv

\* ops_writer_push_signed, ops_writer_push_clearsigned and the switch: the result of
\* the write is that of the call.
LEMMA PushIfReports ==
  ASSUME ReportInv, NEW pieces, NEW top, NEW o \in Outcomes(pieces, top),
         NEW report \in BOOLEAN, Written(o, top, report), NEW q, NEW new,
         q.good = o.good, PushIf(q, new), good' = good
  PROVE  ReportInv'
<1>1. /\ errors' \in BOOLEAN /\ (errors => errors')
      /\ o.good \in BOOLEAN /\ (~o.good => errors')
  BY WrittenReports
<1>2. \/ failed' = failed
      \/ ~o.good /\ failed' = TRUE
  BY <1>1 DEF PushIf
<1>3. good' \in BOOLEAN /\ (~good' => errors') BY <1>1 DEF ReportInv
<1>4. CASE failed' = failed BY <1>1, <1>3, <1>4 DEF ReportInv
<1>5. CASE ~o.good /\ failed' = TRUE BY <1>1, <1>3, <1>5 DEF ReportInv
<1> QED BY <1>2, <1>4, <1>5

\* A write whose result the call returns (ops_write, the packets of a key), or keeps
\* for later.
LEMMA WriteReports ==
  ASSUME ReportInv, NEW pieces, NEW top, NEW o \in Outcomes(pieces, top),
         Written(o, top, FALSE),
         failed' \in {failed, failed \/ ~o.good}, good' \in {good, good /\ o.good}
  PROVE  ReportInv'
<1>1. /\ errors' \in BOOLEAN /\ (errors => errors')
      /\ o.good \in BOOLEAN /\ (~o.good => errors')
  BY WrittenReports
<1> QED BY <1>1 DEF ReportInv

\* Where nothing is written the errors stay, and what a call returns is the result
\* that the finalisers came to.
LEMMA QuietReports ==
  ASSUME ReportInv, errors' = errors,
         failed' \in {failed, failed \/ ~good}, good' \in {good, TRUE}
  PROVE  ReportInv'
BY DEF ReportInv

-----------------------------------------------------------------------------

\* Pushing writers.
LEMMA PushesReport ==
  ASSUME ReportInv,
         \/ PushArmouredMessage \/ PushStreamEncrypt \/ PushCompressed \/ PushLiteral
         \/ PushSigned \/ PushClearsigned \/ SwitchToArmouredSignature
  PROVE  ReportInv'
<1>1. CASE PushArmouredMessage
 <2>1. PICK o \in Outcomes(<<Header(New("base64", 1))>>, Top) : Written(o, Top, FALSE)
   BY <1>1 DEF PushArmouredMessage
 <2>2. failed' = failed /\ good' = good BY <1>1 DEF PushArmouredMessage, Unmoved
 <2> QED BY <2>1, <2>2, WriteReports
<1>2. CASE PushStreamEncrypt
 <2>1. PICK o \in Outcomes(<<Piece("session_key", New("stream_encrypt", 2).id, 0, <<>>)>>,
                           Top) : Written(o, Top, FALSE)
   BY <1>2 DEF PushStreamEncrypt
 <2>2. failed' = failed /\ good' = good BY <1>2 DEF PushStreamEncrypt, Unmoved
 <2> QED BY <2>1, <2>2, WriteReports
<1>3. CASE PushCompressed BY <1>3, QuietReports DEF PushCompressed, Unmoved
<1>4. CASE PushLiteral BY <1>4, QuietReports DEF PushLiteral, Unmoved
<1>5. CASE PushSigned
 <2>1. PICK o \in Outcomes(<<Piece("one_pass", New("sign", 2).id, 0, <<>>)>>, Top) :
         Written(o, Top, FALSE)
           /\ PushIf(o, <<WithHeader(New("partial", 1)), New("sign", 2)>>)
   BY <1>5 DEF PushSigned
 <2>2. good' = good BY <1>5 DEF PushSigned, Unmoved
 <2> QED BY <2>1, <2>2, PushIfReports
<1>6. CASE PushClearsigned
 <2>1. PICK o \in Outcomes(<<Header(New("dash", 1))>>, Top) :
         Written(o, Top, ~o.good) /\ PushIf(o, <<New("dash", 1)>>)
   BY <1>6 DEF PushClearsigned
 <2>2. good' = good BY <1>6 DEF PushClearsigned, Unmoved
 <2>3. (~o.good) \in BOOLEAN OBVIOUS
 <2> QED BY <2>1, <2>2, <2>3, PushIfReports
<1>7. CASE SwitchToArmouredSignature
 <2> DEFINE new == <<New("linebreak", 1), New("base64", 2)>>
 <2>1. PICK o \in Outcomes(<<End(stack[Top]), Header(New("base64", 2))>>, Top - 1) :
         Written(o, Top - 1, ~o.good) /\ PushIf([o EXCEPT !.stack = Front(@)], new)
   BY <1>7 DEF SwitchToArmouredSignature
 <2>2. good' = good BY <1>7 DEF SwitchToArmouredSignature, Unmoved
 <2> DEFINE q == [o EXCEPT !.stack = Front(@)]
 <2>3. q.good = o.good BY FalseIsReported
 <2>4. (~o.good) \in BOOLEAN /\ PushIf(q, new) BY <2>1
 <2> HIDE DEF q, new
 <2> QED BY <2>1, <2>2, <2>3, <2>4, PushIfReports
<1> QED BY <1>1, <1>2, <1>3, <1>4, <1>5, <1>6, <1>7

\* ops_write and the packets of a key.
LEMMA WritesReport ==
  ASSUME ReportInv,
         \/ Write \/ KeyPacket \/ PushEncrypt \/ SecretPart \/ EndKey
         \/ \E armoured, secret \in BOOLEAN : BeginKey(armoured, secret)
  PROVE  ReportInv'
<1>1. CASE Write
 <2>1. PICK o \in Outcomes(<<Data(accepted')>>, Top) :
         Written(o, Top, FALSE) /\ failed' = (failed \/ ~o.good)
   BY <1>1 DEF Write
 <2>2. good' = good BY <1>1 DEF Write
 <2> QED BY <2>1, <2>2, WriteReports
<1>2. CASE KeyPacket
 <2>1. PICK o \in Outcomes(<<Data(accepted')>>, Top) :
         Written(o, Top, FALSE) /\ failed' = (failed \/ ~o.good)
   BY <1>2 DEF KeyPacket
 <2>2. good' = good BY <1>2 DEF KeyPacket
 <2> QED BY <2>1, <2>2, WriteReports
<1>3. CASE PushEncrypt BY <1>3, QuietReports DEF PushEncrypt
<1>4. CASE SecretPart
 <2>1. PICK o \in Outcomes(<<Secret(accepted')>>, Top) :
         Written(o, Top, FALSE) /\ failed' = (failed \/ ~o.good)
   BY <1>4 DEF SecretPart
 <2>2. good' = good BY <1>4 DEF SecretPart
 <2> QED BY <2>1, <2>2, WriteReports
<1>5. CASE EndKey BY <1>5, QuietReports DEF EndKey
<1>6. ASSUME NEW armoured \in BOOLEAN, NEW secret \in BOOLEAN, BeginKey(armoured, secret)
      PROVE  ReportInv'
 <2>1. failed' = failed /\ good' = good BY <1>6 DEF BeginKey
 <2>2. CASE armoured
  <3>1. PICK o \in Outcomes(<<Header(New("base64", 2))>>, Top) : Written(o, Top, FALSE)
    BY <1>6, <2>2 DEF BeginKey
  <3> QED BY <3>1, <2>1, WriteReports
 <2>3. CASE ~armoured BY <1>6, <2>1, <2>3, QuietReports DEF BeginKey
 <2> QED BY <2>2, <2>3
<1> QED BY <1>1, <1>2, <1>3, <1>4, <1>5, <1>6

\* ops_writer_close, and what EndKey has begun.
LEMMA ClosingReports ==
  ASSUME ReportInv, Close \/ Finalise \/ Delete \/ Pop PROVE ReportInv'
<1>1. CASE Close BY <1>1, QuietReports DEF Close
<1>2. CASE Finalise
 <2>1. CASE ~stack[at].pending BY <1>2, <2>1, QuietReports DEF Finalise
 <2>2. CASE stack[at].pending
  <3>1. PICK o \in Outcomes(Ending(at), at - 1) :
          Written(o, at - 1, FALSE) /\ good' = (good /\ o.good)
    BY <1>2, <2>2 DEF Finalise
  <3>2. failed' = failed BY <1>2 DEF Finalise
  <3> QED BY <3>1, <3>2, WriteReports
 <2> QED BY <2>1, <2>2
<1>3. CASE Delete BY <1>3, QuietReports DEF Delete
<1>4. CASE Pop BY <1>4, QuietReports DEF Pop
<1> QED BY <1>1, <1>2, <1>3, <1>4

-----------------------------------------------------------------------------

\* Every step keeps what is known of results and errors.
LEMMA ReportStep ==
  ASSUME ReportInv, [Next]_vars PROVE ReportInv'
<1>1. CASE UNCHANGED vars BY <1>1, QuietReports DEF vars
<1>2. CASE Next BY <1>2, PushesReport, WritesReport, ClosingReports DEF Next
<1> QED BY <1>1, <1>2

\* A call that has failed has left an error on info->errors, for any number of
\* writers in any order on top of each other and any number of writes
\* (ops_stacked_write, writer_info_finalise, stream_partial_writer).
THEOREM ErrorsAlwaysKept == Spec => []ErrorsKept
<1>1. Init => ReportInv BY InitReportInv
<1>2. ReportInv /\ [Next]_vars => ReportInv' BY ReportStep
<1>3. ReportInv => ErrorsKept BY DEF ReportInv, ErrorsKept
<1> QED BY <1>1, <1>2, <1>3, PTL DEF Spec

-----------------------------------------------------------------------------
(* The properties. *)

\* The writers are of the kinds and the fields of the types that they should be, and
\* neither ops_writer_pop nor writer_info_delete is ever called on a writer that waits
\* for its end, whatever calls succeed or fail.
THEOREM TypesAlwaysOK == Spec => []TypeOK
<1>1. Init => ReportInv BY InitReportInv
<1>2. ReportInv /\ [Next]_vars => ReportInv' BY ReportStep
<1>3. TypeInv /\ ReportInv => TypeOK
 <2> SUFFICES ASSUME TypeInv, ReportInv PROVE TypeOK OBVIOUS
 <2>1. ASSUME NEW w \in Range(stack)
       PROVE  /\ w.id \in WriterIds /\ {w.pending, w.first} \subseteq BOOLEAN
              /\ w.held \in Seq(PieceSet) /\ (w.held # <<>> => Kind(w) \in Buffering)
  <3>1. phase # "closed"
   <4>1. CASE phase = "closed"
    <5>1. stack = <<>> BY <4>1 DEF TypeInv, StackInv
    <5> QED BY <2>1, <5>1 DEF Range
   <4> QED BY <4>1
  <3>2. stack \in Seq(WriterSet) /\ Stacked(stack, made, Live)
    BY <3>1, StackFacts, WriterStackAssumption
  <3>3. PICK i \in 1 .. Len(stack) : w = stack[i] BY <2>1, <3>2 DEF Range
  <3>4. w \in WriterSet BY <3>2, <3>3
  <3>5. w.held # <<>> => Kind(w) \in Buffering BY <3>2, <3>3 DEF Stacked
  <3> QED BY <3>4, <3>5 DEF WriterSet
 <2>2. out \in Seq(PieceSet) /\ made \in 0 .. MaxWriters /\ accepted \in 0 .. MaxData
   BY DEF TypeInv, StackInv
 <2>3. job \in JobSet BY KeyFacts
 <2>4. phase \in {"open", "finalising", "closed"} /\ at \in 0 .. MaxWriters + 1
   BY DEF TypeInv, StackInv
 <2>5. {good, failed, errors, intact} \subseteq BOOLEAN BY DEF TypeInv, ReportInv
 <2> QED BY <2>1, <2>2, <2>3, <2>4, <2>5 DEF TypeOK, JobSet
<1> QED BY <1>1, <1>2, <1>3, AlwaysWritten, PTL DEF Spec

\* What is out is the beginning of all that has been written.
LEMMA OutFacts ==
  ASSUME TypeInv, NEW v, DataInv(v)
  PROVE  /\ out \in Seq(PieceSet) /\ v[Live] \in Seq(PieceSet) /\ Starts(out, v[Live])
         /\ phase = "closed" => v[Live] = out
<1>1. Flow(stack, Live, out, v) BY DEF DataInv
<1>2. out \in Seq(PieceSet) BY DEF TypeInv
<1>3. CASE phase = "closed"
 <2>1. stack = <<>> BY <1>3 DEF TypeInv, StackInv
 <2>2. Live = 0 BY <1>3, <2>1 DEF Live, Top
 <2>3. v[Live] = out BY <1>1, <2>2 DEF Flow
 <2>4. Starts(out, out) BY <1>2 DEF Starts
 <2> QED BY <1>2, <2>3, <2>4
<1>4. CASE phase # "closed"
 <2>1. stack \in Seq(WriterSet) /\ Live \in 0 .. Top /\ Top = Len(stack) /\ Top \in Nat
   BY <1>4, StackFacts
 <2>2. Live \in 0 .. Len(stack) /\ Live \in Nat /\ Live \in 0 .. Live
  <3> HIDE DEF Live, Top
  <3> QED BY <2>1
 <2>3. Starts(out, v[Live])
  <3> HIDE DEF Live
  <3> QED BY <1>1, <1>2, <2>1, <2>2, FlowStarts
 <2>4. v[Live] \in Seq(PieceSet)
  <3> HIDE DEF Live
  <3> QED BY <1>1, <2>2, FlowTypes
 <2> QED BY <1>2, <1>4, <2>3, <2>4
<1> QED BY <1>3, <1>4

\* What the base writer gets is packets and armour inside each other, ended when all
\* is closed, each sum over just what it is of, for any number of writers, in any
\* order, whatever each of them keeps back (writer.c, writer_info_finalise).
THEOREM AlwaysEnclosed == Spec => []Enclosed
<1>1. TypeInv /\ WrittenInv => Enclosed
 <2> SUFFICES ASSUME TypeInv, WrittenInv, intact
              PROVE  /\ Framed(out) /\ Covering(out) /\ SecretsOnly(out)
                     /\ phase = "closed" => Ended(out)
   BY DEF Enclosed
 <2>1. PICK v : DataInv(v) BY DEF WrittenInv
 <2> DEFINE qs == v[Live]
            L == Ids(stack, Live)
            K == Ids(stack, Top)
 <2>2. Good(qs, made, L, K, Text, Signing) BY <2>1 DEF DataInv
 <2>3. /\ out \in Seq(PieceSet) /\ qs \in Seq(PieceSet) /\ Starts(out, qs)
       /\ phase = "closed" => qs = out
   BY <2>1, OutFacts, WriterStackAssumption
 <2>4. ASSUME phase = "closed" PROVE L = {} /\ Signing = {}
  <3>1. stack = <<>> BY <2>4 DEF TypeInv, StackInv
  <3>2. Live = 0 /\ Top = 0 BY <2>4, <3>1 DEF Live, Top
  <3>3. {i \in 1 .. Top : Kind(stack[i]) = "sign" /\ i <= Live + 1} = {} BY <3>2
  <3> QED BY <3>2, <3>3 DEF Ids, Signing
 <2> HIDE DEF qs, L, K
 <2>5. Framed(qs) /\ Covering(qs) /\ SecretsOnly(qs) /\ Shut(qs) BY <2>2 DEF Good
 <2>6. Framed(out) /\ Covering(out) /\ SecretsOnly(out) BY <2>3, <2>5, GoodStarts
 <2>7. ASSUME phase = "closed" PROVE Ended(out)
  <3>1. WillEnd(qs, L) /\ WillSign(qs, Signing) /\ EndOnce(qs) BY <2>2 DEF Good
  <3>2. WillEnd(out, {}) /\ WillSign(out, {}) /\ EndOnce(out) BY <2>3, <2>4, <2>7, <3>1
  <3> QED BY <3>2, AllEnded
 <2> QED BY <2>6, <2>7
<1> QED BY <1>1, AlwaysWritten, PTL

-----------------------------------------------------------------------------
(* One byte stream. *)

\* The base writer takes nothing back.
Grows == intact /\ Starts(out, out')

\* What is out stays the start of what will be out, whatever a write does.
LEMMA OutcomeGrows ==
  ASSUME TypeInv, phase # "closed", NEW xs \in Seq(PieceSet),
         NEW top \in 0 .. Live, NEW o \in Outcomes(xs, top), NEW report,
         Written(o, top, report), intact'
  PROVE  Grows
<1>1. /\ stack \in Seq(WriterSet) /\ Top \in Nat /\ Top = Len(stack) /\ Live \in 0 .. Top
  BY StackFacts
<1>2. out \in Seq(PieceSet) /\ intact \in BOOLEAN BY DEF TypeInv
<1>3. out' = o.out /\ intact /\ ~o.fails BY WriteTypes
<1> HIDE DEF Live, Top
<1>4. top \in 0 .. Len(stack) BY <1>1
<1>5. PICK keep \in SUBSET {i \in 1 .. top : Kind(stack[i]) \in Buffering} :
        o.out = out \o Arriving(stack, xs, top, keep)[0]
 <2>1. intact /\ ~o.fails =>
         \E keep \in SUBSET {i \in 1 .. top : Kind(stack[i]) \in Buffering} :
           LET to == Arriving(stack, xs, top, keep)
           IN  o.stack = PassDown(stack, to, top, keep) /\ o.out = out \o to[0]
   BY <1>1, <1>2, <1>4, OutcomeFacts
 <2> QED BY <1>3, <2>1
<1>6. Arriving(stack, xs, top, keep)[0] \in Seq(PieceSet)
 <2>1. 0 \in 0 .. top BY <1>4
 <2> QED BY <1>1, <1>4, <2>1, ArrivingTypes
<1>7. Starts(out, out) BY <1>2 DEF Starts
<1>8. Starts(out, out \o Arriving(stack, xs, top, keep)[0]) BY <1>2, <1>6, <1>7, StartsConcat
<1> QED BY <1>3, <1>5, <1>8 DEF Grows

\* A step that writes nothing leaves what is out.
LEMMA QuietGrows ==
  ASSUME TypeInv, out' = out, intact' = intact, intact' PROVE Grows
<1>1. out \in Seq(PieceSet) BY DEF TypeInv
<1> QED BY <1>1 DEF Grows, Starts

\* What writers that are new write of themselves.
LEMMA NewPieces ==
  ASSUME TypeInv, NEW k \in 1 .. 2, made + k <= MaxWriters, NEW kind \in Kinds
  PROVE  /\ <<Header(New(kind, k))>> \in Seq(PieceSet)
         /\ \A what \in {"session_key", "one_pass"} :
              <<Piece(what, New(kind, k).id, 0, <<>>)>> \in Seq(PieceSet)
<1> DEFINE w == New(kind, k)
           x == Header(w)
<1>1. made \in Nat BY DEF TypeInv, StackInv
<1>2. w \in WriterSet /\ w.id \in WriterIds
 <2> HIDE DEF w
 <2>1. w = New(kind, k) BY DEF w
 <2> QED BY <1>1, <2>1, NewWriter
<1>3. x \in PieceSet
 <2> HIDE DEF w
 <2> QED BY <1>2, OwnPieces
<1>4. ASSUME NEW what \in {"session_key", "one_pass"}
      PROVE  <<Piece(what, w.id, 0, <<>>)>> \in Seq(PieceSet)
 <2> DEFINE id == w.id
            xs == <<Piece(what, id, 0, <<>>)>>
            N == {id}
 <2>1. Single(xs, Piece(what, id, 0, <<>>)) /\ id \in N /\ id \in WriterIds BY <1>2 DEF Single
 <2> HIDE DEF id, xs, N
 <2>2. Few(xs, N) BY <2>1, FewPiece
 <2> QED BY <2>2 DEF Few, xs, id
<1> HIDE DEF x
<1>5. <<x>> \in Seq(PieceSet) BY <1>3
<1> QED BY <1>4, <1>5 DEF x

\* In no step does it.
LEMMA OutGrows ==
  ASSUME TypeInv, [Next]_vars, intact' PROVE Grows
<1>1. /\ made \in Nat /\ accepted \in 0 .. MaxData /\ MaxData \in Nat /\ MaxWriters \in Nat
  BY DEF TypeInv, StackInv, WriterStackAssumption
<1>2. phase # "closed" =>
        /\ stack \in Seq(WriterSet) /\ Top \in Nat /\ Top >= 1 /\ Top = Len(stack)
        /\ phase = "open" => Live = Top
  BY StackFacts
<1>3. ASSUME phase = "open" PROVE Top \in 0 .. Live /\ Top - 1 \in 0 .. Live
 <2>1. Top \in Nat /\ Top >= 1 /\ Live = Top BY <1>2, <1>3
 <2> HIDE DEF Top, Live
 <2> QED BY <2>1
<1>4. Len(<<1>>) = 1 /\ \A a, b : Len(<<a, b>>) = 2 /\ Len(<<a>>) = 1 OBVIOUS
<1>5. 1 \in 1 .. 2 /\ 2 \in 1 .. 2 /\ {"base64", "stream_encrypt", "sign", "dash"} \subseteq Kinds
  BY DEF Kinds, Finalised
<1>6. CASE UNCHANGED vars BY <1>6, QuietGrows DEF vars
<1>7. CASE PushArmouredMessage
 <2> DEFINE xs == <<Header(New("base64", 1))>>
 <2>1. PICK o \in Outcomes(xs, Top) :
         Written(o, Top, FALSE) /\ Push(o.stack, <<New("base64", 1)>>)
   BY <1>7 DEF PushArmouredMessage
 <2>2. phase = "open" /\ made + 1 <= MaxWriters
   BY <1>4, <1>7, <2>1 DEF PushArmouredMessage, ReadyFor, Ready, Push, Fits
 <2>3. xs \in Seq(PieceSet) BY <1>5, <2>2, NewPieces
 <2> HIDE DEF xs, Top
 <2> QED BY <1>3, <2>1, <2>2, <2>3, OutcomeGrows
<1>8. CASE PushStreamEncrypt
 <2> DEFINE xs == <<Piece("session_key", New("stream_encrypt", 2).id, 0, <<>>)>>
 <2>1. PICK o \in Outcomes(xs, Top) : \E new1, new2 :
         Written(o, Top, FALSE) /\ Push(o.stack, <<new1, new2>>)
   BY <1>8 DEF PushStreamEncrypt
 <2>2. phase = "open" /\ made + 2 <= MaxWriters
   BY <1>4, <1>8, <2>1 DEF PushStreamEncrypt, ReadyFor, Ready, Push, Fits
 <2>3. xs \in Seq(PieceSet) BY <1>5, <2>2, NewPieces
 <2> HIDE DEF xs, Top
 <2> QED BY <1>3, <2>1, <2>2, <2>3, OutcomeGrows
<1>9. CASE PushCompressed \/ PushLiteral \/ PushEncrypt \/ EndKey \/ Close \/ Delete \/ Pop
 <2>1. out' = out /\ intact' = intact
   BY <1>9 DEF PushCompressed, PushLiteral, PushEncrypt, EndKey, Close, Delete, Pop
 <2> QED BY <2>1, QuietGrows
<1>10. CASE PushSigned
 <2> DEFINE xs == <<Piece("one_pass", New("sign", 2).id, 0, <<>>)>>
 <2>1. PICK o \in Outcomes(xs, Top) : \E new1, new2 :
         Written(o, Top, FALSE) /\ PushIf(o, <<new1, new2>>)
   BY <1>10 DEF PushSigned
 <2>2. phase = "open" /\ made + 2 <= MaxWriters
   BY <1>4, <1>10, <2>1 DEF PushSigned, ReadyFor, Ready, PushIf, Fits
 <2>3. xs \in Seq(PieceSet) BY <1>5, <2>2, NewPieces
 <2> HIDE DEF xs, Top
 <2> QED BY <1>3, <2>1, <2>2, <2>3, OutcomeGrows
<1>11. CASE PushClearsigned
 <2> DEFINE xs == <<Header(New("dash", 1))>>
 <2>1. PICK o \in Outcomes(xs, Top) : \E report, new :
         Written(o, Top, report) /\ PushIf(o, <<new>>)
   BY <1>11 DEF PushClearsigned
 <2>2. phase = "open" /\ made + 1 <= MaxWriters
   BY <1>4, <1>11, <2>1 DEF PushClearsigned, ReadyFor, Ready, PushIf, Fits
 <2>3. xs \in Seq(PieceSet) BY <1>5, <2>2, NewPieces
 <2> HIDE DEF xs, Top
 <2> QED BY <1>3, <2>1, <2>2, <2>3, OutcomeGrows
<1>12. CASE SwitchToArmouredSignature
 <2> DEFINE E == End(stack[Top])
            H == Header(New("base64", 2))
            xs == <<E, H>>
 <2>1. PICK o \in Outcomes(xs, Top - 1) : \E report, q, new1, new2 :
         Written(o, Top - 1, report) /\ PushIf(q, <<new1, new2>>)
   BY <1>12 DEF SwitchToArmouredSignature
 <2>2. phase = "open" /\ made + 2 <= MaxWriters
   BY <1>4, <1>12, <2>1 DEF SwitchToArmouredSignature, Ready, PushIf, Fits
 <2>3. E \in PieceSet
  <3>1. stack[Top] \in WriterSet BY <1>2, <2>2
  <3> QED BY <3>1, OwnPieces
 <2>4. H \in PieceSet
  <3> DEFINE w == New("base64", 2)
  <3>1. w \in WriterSet
   <4> HIDE DEF w
   <4>1. w = New("base64", 2) BY DEF w
   <4> QED BY <1>1, <1>5, <2>2, <4>1, NewWriter
  <3> HIDE DEF w
  <3>2. Header(w) \in PieceSet BY <3>1, OwnPieces
  <3> QED BY <3>2 DEF w
 <2> HIDE DEF E, H
 <2>5. xs \in Seq(PieceSet) BY <2>3, <2>4
 <2> HIDE DEF xs
 <2> DEFINE k == Top - 1
 <2>6. k \in 0 .. Live BY <1>3, <2>2
 <2>7. o \in Outcomes(xs, k) /\ \E report : Written(o, k, report) BY <2>1
 <2> HIDE DEF k, Top
 <2> QED BY <2>2, <2>5, <2>6, <2>7, OutcomeGrows
<1>13. CASE Write \/ KeyPacket
 <2> DEFINE xs == <<Data(accepted')>>
 <2>1. PICK o \in Outcomes(xs, Top) : Written(o, Top, FALSE) BY <1>13 DEF Write, KeyPacket
 <2>2. phase = "open" /\ accepted < MaxData /\ accepted' = accepted + 1
   BY <1>13 DEF Write, KeyPacket, Ready
 <2>3. xs \in Seq(PieceSet)
  <3>1. accepted' \in 0 .. MaxData BY <1>1, <2>2
  <3> DEFINE x == Data(accepted')
  <3>2. x \in PieceSet BY <3>1, DataPieces
  <3> HIDE DEF x
  <3>3. <<x>> \in Seq(PieceSet) BY <3>2
  <3> QED BY <3>3 DEF x
 <2> HIDE DEF xs, Top
 <2> QED BY <1>3, <2>1, <2>2, <2>3, OutcomeGrows
<1>14. CASE SecretPart
 <2> DEFINE xs == <<Secret(accepted')>>
 <2>1. PICK o \in Outcomes(xs, Top) : Written(o, Top, FALSE) BY <1>14 DEF SecretPart
 <2>2. phase = "open" /\ accepted < MaxData /\ accepted' = accepted + 1 BY <1>14 DEF SecretPart
 <2>3. xs \in Seq(PieceSet)
  <3>1. accepted' \in 0 .. MaxData BY <1>1, <2>2
  <3> DEFINE x == Secret(accepted')
  <3>2. x \in PieceSet BY <3>1, DataPieces
  <3> HIDE DEF x
  <3>3. <<x>> \in Seq(PieceSet) BY <3>2
  <3> QED BY <3>3 DEF x
 <2> HIDE DEF xs, Top
 <2> QED BY <1>3, <2>1, <2>2, <2>3, OutcomeGrows
<1>15. CASE \E armoured, secret \in BOOLEAN : BeginKey(armoured, secret)
 <2>1. PICK armoured \in BOOLEAN, secret \in BOOLEAN : BeginKey(armoured, secret) BY <1>15
 <2>2. CASE armoured
  <3> DEFINE xs == <<Header(New("base64", 2))>>
  <3>1. PICK o \in Outcomes(xs, Top) : \E new1, new2 :
          Written(o, Top, FALSE) /\ Push(o.stack, <<new1, new2>>)
    BY <2>1, <2>2 DEF BeginKey
  <3>2. phase = "open" /\ made + 2 <= MaxWriters
    BY <1>4, <2>1, <3>1 DEF BeginKey, Ready, Push, Fits
  <3>3. xs \in Seq(PieceSet) BY <1>5, <3>2, NewPieces
  <3> HIDE DEF xs, Top
  <3> QED BY <1>3, <3>1, <3>2, <3>3, OutcomeGrows
 <2>3. CASE ~armoured
  <3>1. out' = out /\ intact' = intact BY <2>1, <2>3 DEF BeginKey
  <3> QED BY <3>1, QuietGrows
 <2> QED BY <2>2, <2>3
<1>16. CASE Finalise
 <2>1. CASE ~stack[at].pending
  <3>1. out' = out /\ intact' = intact BY <1>16, <2>1 DEF Finalise
  <3> QED BY <3>1, QuietGrows
 <2>2. CASE stack[at].pending
  <3> DEFINE xs == Ending(at)
             k == at - 1
  <3>1. phase = "finalising" /\ at > 0 BY <1>16 DEF Finalise
  <3>2. PICK o \in Outcomes(xs, k) : Written(o, k, FALSE) BY <1>16, <2>2 DEF Finalise
  <3>3. xs \in Seq(PieceSet) BY <2>2, <3>1, EndingTypes
  <3>4. k \in 0 .. Live BY <3>1, TurnFacts
  <3> HIDE DEF xs, k, Live
  <3> QED BY <3>1, <3>2, <3>3, <3>4, OutcomeGrows
 <2> QED BY <2>1, <2>2
<1> QED BY <1>6, <1>7, <1>8, <1>9, <1>10, <1>11, <1>12, <1>13, <1>14, <1>15, <1>16 DEF Next

\* Numbers of data that are in order up to the last.
LEMMA CountInOrder ==
  ASSUME NEW ps \in Seq(PieceSet), NEW qs \in Seq(PieceSet), Starts(ps, qs),
         NEW a \in Nat, Counted(qs, a)
  PROVE  /\ Max(InOrder(ps)) = Count(ps, Len(ps))
         /\ Count(ps, Len(ps)) \in Nat /\ Count(ps, Len(ps)) <= a
<1> DEFINE n == Len(ps)
           c == Count(ps, n)
           N == 0 .. c
<1>1. n \in Nat /\ Len(qs) \in Nat /\ n <= Len(qs) /\ \A k \in 1 .. n : ps[k] = qs[k]
  BY DEF Starts
<1>2. /\ \A k \in 1 .. n : k \in Numbers(ps) <=> k \in Numbers(qs)
      /\ \A k \in 0 .. n : Count(ps, k) = Count(qs, k)
  BY <1>1, CountPrefix
<1>3. c \in Nat /\ c <= a
 <2>1. c \in Nat BY <1>1, CountFacts
 <2>2. Count(qs, n) <= Count(qs, Len(qs)) BY <1>1, CountFacts
 <2>3. Count(qs, Len(qs)) = a BY DEF Counted
 <2>4. c = Count(qs, n) BY <1>1, <1>2
 <2> QED BY <2>1, <2>2, <2>3, <2>4
<1>4. ASSUME NEW k \in Numbers(ps) PROVE ps[k].n = Count(ps, k)
 <2>1. k \in 1 .. n BY DEF Numbers
 <2>2. k \in Numbers(qs) /\ qs[k] = ps[k] /\ Count(ps, k) = Count(qs, k) BY <1>1, <1>2, <2>1
 <2> QED BY <2>2 DEF Counted
<1>5. InOrder(ps) = N BY <1>4 DEF InOrder
<1> HIDE DEF c
<1>6. c \in N /\ \A y \in N : c >= y BY <1>3
<1>7. ASSUME NEW x \in N, \A y \in N : x >= y PROVE x = c BY <1>3, <1>6, <1>7
<1> HIDE DEF N
<1>8. Max(N) = c BY <1>6, <1>7 DEF Max
<1> QED BY <1>3, <1>5, <1>8 DEF c

\* Pieces of data that are out stay out.
LEMMA CountGrows ==
  ASSUME NEW ps \in Seq(PieceSet), NEW qs \in Seq(PieceSet), Starts(ps, qs)
  PROVE  Count(ps, Len(ps)) <= Count(qs, Len(qs))
<1>1. Len(ps) \in Nat /\ Len(qs) \in Nat /\ Len(ps) <= Len(qs) /\ \A k \in 1 .. Len(ps) : ps[k] = qs[k]
  BY DEF Starts
<1>2. Count(ps, Len(ps)) = Count(qs, Len(ps)) BY <1>1, CountPrefix
<1>3. Count(qs, Len(ps)) <= Count(qs, Len(qs)) BY <1>1, CountFacts
<1> QED BY <1>2, <1>3

\* How much has come out, of what has been accepted.
LEMMA OneStream ==
  ASSUME TypeInv, WrittenInv, intact
  PROVE  /\ Max(InOrder(out)) = Count(out, Len(out))
         /\ Count(out, Len(out)) \in Nat /\ Count(out, Len(out)) <= accepted
         /\ phase = "closed" => Count(out, Len(out)) = accepted
<1>1. PICK v : DataInv(v) BY DEF WrittenInv
<1> DEFINE qs == v[Live]
<1>2. Counted(qs, accepted) BY <1>1 DEF DataInv
<1>3. accepted \in Nat BY DEF TypeInv
<1>4. /\ out \in Seq(PieceSet) /\ qs \in Seq(PieceSet) /\ Starts(out, qs)
      /\ phase = "closed" => qs = out
  BY <1>1, OutFacts
<1> HIDE DEF qs
<1>5. phase = "closed" => Count(out, Len(out)) = accepted BY <1>2, <1>4 DEF Counted
<1> QED BY <1>2, <1>3, <1>4, <1>5, CountInOrder

\* What each step does to what is accepted and to whether all is closed.
LEMMA StreamMoves ==
  ASSUME TypeInv, [Next]_vars
  PROVE  /\ accepted <= accepted'
         /\ phase = "closed" => UNCHANGED vars
         /\ phase # "closed" /\ phase' = "closed" => accepted' = accepted
<1>1. accepted \in Nat BY DEF TypeInv
<1>2. CASE UNCHANGED vars BY <1>1, <1>2 DEF vars
<1>3. ASSUME accepted' = accepted, phase # "closed"
      PROVE  /\ accepted <= accepted'
             /\ phase = "closed" => UNCHANGED vars
             /\ phase # "closed" /\ phase' = "closed" => accepted' = accepted
  BY <1>1, <1>3
<1>4. CASE \/ PushArmouredMessage \/ PushStreamEncrypt \/ PushCompressed \/ PushLiteral
           \/ PushSigned \/ PushClearsigned \/ SwitchToArmouredSignature
 <2>1. accepted' = accepted /\ phase = "open"
   BY <1>4 DEF PushArmouredMessage, PushStreamEncrypt, PushCompressed, PushLiteral, PushSigned,
      PushClearsigned, SwitchToArmouredSignature, ReadyFor, Ready, Unmoved
 <2> QED BY <1>3, <2>1
<1>5. CASE Write \/ KeyPacket \/ SecretPart
 <2>1. accepted' = accepted + 1 /\ phase = "open" /\ phase' = phase
   BY <1>5 DEF Write, KeyPacket, SecretPart, Ready
 <2> QED BY <1>1, <2>1
<1>6. CASE PushEncrypt \/ EndKey \/ Close \/ Finalise \/ Delete \/ Pop
 <2>1. accepted' = accepted /\ phase # "closed"
   BY <1>6 DEF PushEncrypt, EndKey, Close, Finalise, Delete, Pop
 <2> QED BY <1>3, <2>1
<1>7. CASE \E armoured, secret \in BOOLEAN : BeginKey(armoured, secret)
 <2>1. accepted' = accepted /\ phase = "open" BY <1>7 DEF BeginKey, Ready
 <2> QED BY <1>3, <2>1
<1> QED BY <1>2, <1>4, <1>5, <1>6, <1>7 DEF Next

\* However many writers are on top of each other, to the application they are one byte
\* stream: what comes out is what went in, in its order, none of it twice and, once all
\* is closed, all of it (ops_write, ops_writer_close, writer_info_finalise).
THEOREM WritersAreByteStream == Spec => IsByteStream
<1> DEFINE vis == Max(InOrder(out))
           shut == phase = "closed"
           broke == ~intact
<1> USE WriterStackAssumption
<1>1. Init => Stream!Init
 <2> SUFFICES ASSUME Init PROVE Stream!Init OBVIOUS
 <2>1. /\ out = <<>> /\ accepted = 0 /\ phase = "open" /\ intact = TRUE BY DEF Init
 <2>2. TypeInv /\ WrittenInv BY InitWritten
 <2>3. vis \in Nat /\ vis <= accepted BY <2>1, <2>2, OneStream
 <2> HIDE DEF vis
 <2>4. vis = 0 BY <2>1, <2>3
 <2> QED BY <2>1, <2>4 DEF Stream!Init, vis
<1> DEFINE Shown == /\ vis = Count(out, Len(out)) /\ Count(out, Len(out)) \in Nat
                    /\ Count(out, Len(out)) <= accepted
                    /\ shut => Count(out, Len(out)) = accepted
<1>2. TypeInv /\ WrittenInv /\ intact => Shown BY OneStream
<1>3. (TypeInv /\ WrittenInv /\ intact => Shown)' BY <1>2, PTL
<1>4. /\ TypeInv /\ WrittenInv /\ (TypeInv /\ WrittenInv)' /\ [Next]_vars
      => [Stream!Next]_<<accepted, vis, shut, broke>>
 <2> SUFFICES ASSUME TypeInv, WrittenInv, TypeInv', WrittenInv', [Next]_vars
              PROVE  [Stream!Next]_<<accepted, vis, shut, broke>>
   OBVIOUS
 <2>1. CASE ~intact' BY <2>1 DEF Stream!Next
 <2>2. CASE intact'
  <3>1. intact /\ Starts(out, out') /\ out \in Seq(PieceSet) /\ out' \in Seq(PieceSet)
    BY <2>2, OutGrows DEF Grows, TypeInv
  <3>2. /\ vis = Count(out, Len(out)) /\ Count(out, Len(out)) \in Nat
        /\ Count(out, Len(out)) <= accepted
    BY <1>2, <3>1
  <3>3. /\ vis' = Count(out', Len(out')) /\ Count(out', Len(out')) \in Nat
        /\ Count(out', Len(out')) <= accepted' /\ (shut' => Count(out', Len(out')) = accepted')
    BY <1>3, <2>2
  <3>4. Count(out, Len(out)) <= Count(out', Len(out')) BY <3>1, CountGrows
  <3>5. /\ accepted <= accepted' /\ (phase = "closed" => UNCHANGED vars)
        /\ phase # "closed" /\ phase' = "closed" => accepted' = accepted
    BY StreamMoves
  <3>6. accepted \in Nat /\ accepted' \in Nat BY DEF TypeInv
  <3>7. CASE shut BY <3>5, <3>7 DEF vars
  <3>8. CASE ~shut /\ ~shut'
   <4>1. Stream!Write BY <3>2, <3>3, <3>4, <3>5, <3>6, <3>8 DEF Stream!Write
   <4> QED BY <2>2, <3>1, <4>1 DEF Stream!Next
  <3>9. CASE ~shut /\ shut'
   <4>1. Stream!Close BY <3>3, <3>5, <3>9 DEF Stream!Close
   <4> QED BY <2>2, <3>1, <4>1 DEF Stream!Next
  <3> QED BY <3>7, <3>8, <3>9
 <2> QED BY <2>1, <2>2
<1> QED BY <1>1, <1>4, AlwaysWritten, PTL DEF Spec, IsByteStream, Stream!Spec

=============================================================================
