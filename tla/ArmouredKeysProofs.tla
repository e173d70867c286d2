------------------------- MODULE ArmouredKeysProofs --------------------------
(***************************************************************************)
(* Two ways of a key into the library: the armour around it, and the       *)
(* judgement of the signatures on it once it is in a keyring.              *)
(*                                                                         *)
(* Reading a keyring and judging its signatures, for keyrings of any       *)
(* length, packets of any size and reads that cut them anyhow.  That a     *)
(* verdict is right rests on two things.  keydata_reader and the parser    *)
(* count the same units (ReaderOK), so that where the reader is says       *)
(* which packet has been parsed; and what the callback remembers is of     *)
(* the packets before that one (RemembersLast).                            *)
(*                                                                         *)
(* Writing and reading armour, for lines, files and reads of any length,   *)
(* texts and damage of any kind.  What either side does with octets is     *)
(* ArmourInv; KnownInv says besides what there can be in the file, and     *)
(* that so a checksum which is right is that of a block written.           *)
(***************************************************************************)
EXTENDS KeyValidation, Armour, FiniteSetTheorems, SequenceTheorems, WellFoundedInduction,
        TLAPS

-----------------------------------------------------------------------------
(* Keyrings *)


Ids == {p.id : p \in Packets}
KeySet == [id : Ids, uids : Seq(Ids), packets : Seq(Packets)]

\* A key begins with the packet that made it, and has no other of that kind.
KeyOK(k) ==
  /\ k \in KeySet /\ k.packets # <<>>
  /\ k.packets[1].kind \in KeyKinds /\ k.packets[1].id = k.id
  /\ \A i \in 2 .. Len(k.packets) : k.packets[i].kind \notin KeyKinds
KeysOK == keys \in Seq(KeySet) /\ \A k \in DOMAIN keys : KeyOK(keys[k])

Lists == {"valid", "invalid", "unknown"}
Spots == Nat \X Nat
Args == [pkey : Ids \cup {None}, subkey : Ids \cup {None}, user_id : Ids \cup {None},
         user_attribute : Ids \cup {None},
         last_seen : {None, "user_id", "attribute"}]

Typed ==
  /\ phase \in {"reading", "validating", "done", "abort"}
  /\ stream \in Seq(Packets) /\ Len(stream) <= MaxPackets
  /\ key \in 0 .. Len(keys) /\ offset \in 0 .. PacketLen /\ got \in 0 .. PacketLen
  /\ packet \in Nat /\ content \in Nat
  /\ carg \in Args
  /\ result \in [Lists -> [count : Nat, sigs : Seq(Spots \cup {None})]]
  /\ \A v \in Lists : Len(result[v].sigs) = result[v].count
  /\ judged \in Seq(Spots \X Lists)
  /\ crossed = FALSE /\ status \in BOOLEAN

\* keydata_reader has moved on in a packet just as far as the parser has got.
ReaderOK ==
  /\ phase = "reading" => key = 0 /\ judged = <<>>
  /\ phase = "done" => key = Len(keys) /\ status = Status(result)
  /\ phase \in {"reading", "done"} => packet = 0 /\ content = 0 /\ got = 0 /\ offset = 0
  /\ phase \in {"validating", "abort"} =>
       /\ key > 0 /\ packet < Len(keys[key].packets)
       /\ content <= Len(keys[key].packets)
  /\ IF got = 0 THEN offset = PacketLen \/ (offset = 0 /\ packet = 0)
                ELSE offset = got /\ content = packet + 1

\* The packet of the key that is parsed or comes next.
Pos ==
  IF got > 0 THEN content ELSE IF offset = PacketLen THEN packet + 2 ELSE packet + 1

\* No packet before place pos is of these kinds, or the last of them is at j.
NoneOf(kinds, ps, pos) == \A j \in 1 .. pos - 1 : ps[j].kind \notin kinds
LastIs(kinds, ps, pos, j) ==
  /\ j \in 1 .. pos - 1 /\ ps[j].kind \in kinds
  /\ \A m \in 1 .. pos - 1 : ps[m].kind \in kinds => m <= j

\* What the callback remembers is of the packets before, the last of a kind.
Remembers(a, k, pos) ==
  /\ pos > 1 => a.pkey = k.id
  /\ \/ NoneOf({"subkey"}, k.packets, pos) /\ a.subkey = None
     \/ \E j \in 1 .. Len(k.packets) :
          LastIs({"subkey"}, k.packets, pos, j) /\ a.subkey = k.packets[j].id
  /\ \/ /\ NoneOf({"user_id", "attribute"}, k.packets, pos)
        /\ a.last_seen = None /\ a.user_attribute = None
     \/ \E j \in 1 .. Len(k.packets) :
          /\ LastIs({"user_id", "attribute"}, k.packets, pos, j)
          /\ a.last_seen = k.packets[j].kind
          /\ k.packets[j].kind = "user_id" => a.user_id = k.packets[j].id
          /\ k.packets[j].kind = "attribute" => a.user_attribute = k.packets[j].id
RemembersLast == phase = "validating" => Remembers(carg, keys[key], Pos)

\* The signatures that have been passed are those that are judged.
Passed(at) == at[1] < key \/ (at[1] = key /\ (phase = "done" \/ at[2] < Pos))
PassedJudged ==
  \A at \in Places : Passed(at) <=> \E n \in DOMAIN judged : judged[n][1] = at

Judgements == PassedJudged /\ InTurn /\ CountsAddUp /\ ValidIffGenuine

KeyInv ==
  /\ Typed /\ KeysOK /\ KeysPartitionStream
  /\ ReaderOK /\ RemembersLast /\ Judgements

USE KeyValidationAssumption DEF KeyValidationAssumption

-----------------------------------------------------------------------------
(* Ranks in a set of numbers. *)

\* Sets of numbers up to a bound are finite.
LEMMA BoundedIsFinite ==
  ASSUME NEW n \in Nat, NEW S \in SUBSET (1 .. n)
  PROVE  IsFiniteSet(S) /\ Cardinality(S) \in Nat
<1>1. IsFiniteSet(1 .. n) BY FS_Interval, 1 \in Int, n \in Int
<1>2. IsFiniteSet(S) BY <1>1, FS_Subset
<1> QED BY <1>2, FS_CardinalityType

\* A number has as many at or below it as its rank says.
LEMMA RankOK ==
  ASSUME NEW n \in Nat, NEW S \in SUBSET (1 .. n), NEW i \in S
  PROVE  /\ IsFiniteSet(S) /\ Cardinality(S) \in Nat
         /\ Rank(i, S) \in 1 .. Cardinality(S)
         /\ Rank(i, S) = Cardinality(S) => \A j \in S : j <= i
<1> DEFINE B == {j \in S : j <= i}
<1>1. IsFiniteSet(S) /\ Cardinality(S) \in Nat BY BoundedIsFinite
<1>2. B \in SUBSET S /\ i \in B OBVIOUS
<1>3. /\ IsFiniteSet(B) /\ Cardinality(B) <= Cardinality(S)
      /\ Cardinality(S) = Cardinality(B) => S = B
 <2> HIDE DEF B
 <2> QED BY <1>1, <1>2, FS_Subset
<1>4. Cardinality(B) \in Nat /\ Cardinality(B) # 0
 <2> HIDE DEF B
 <2> QED BY <1>2, <1>3, FS_CardinalityType, FS_EmptySet
<1>5. Rank(i, S) = Cardinality(B) BY DEF Rank
<1>6. Cardinality(S) = Cardinality(B) => \A j \in S : j <= i BY <1>3
<1> QED BY <1>1, <1>3, <1>4, <1>5, <1>6

\* One more number behind all others changes no rank, and has the last one.
LEMMA RankAdded ==
  ASSUME NEW n \in Nat, NEW S \in SUBSET (1 .. n)
  PROVE  /\ Cardinality(S \cup {n + 1}) = Cardinality(S) + 1
         /\ Rank(n + 1, S \cup {n + 1}) = Cardinality(S) + 1
         /\ \A i \in S : Rank(i, S \cup {n + 1}) = Rank(i, S)
<1>1. IsFiniteSet(S) /\ n + 1 \notin S
 <2>1. IsFiniteSet(S) BY BoundedIsFinite
 <2>2. n + 1 \notin 1 .. n OBVIOUS
 <2> QED BY <2>1, <2>2
<1>2. Cardinality(S \cup {n + 1}) = Cardinality(S) + 1 BY <1>1, FS_AddElement
<1>3. {j \in S \cup {n + 1} : j <= n + 1} = S \cup {n + 1}
 <2>1. \A j \in S \cup {n + 1} : j <= n + 1 OBVIOUS
 <2> QED BY <2>1
<1>4. ASSUME NEW i \in S PROVE {j \in S \cup {n + 1} : j <= i} = {j \in S : j <= i} OBVIOUS
<1> QED BY <1>2, <1>3, <1>4 DEF Rank
-----------------------------------------------------------------------------
(* Reading a packet. *)

\* A packet that is a key begins one; any other goes to the last key, if there
\* is one, and to its user IDs when it is one.
LEMMA KeysAfter ==
  ASSUME KeysOK, NEW p \in Packets
  PROVE  LET after == PacketEnd(Content(keys, p), p)
             n == Len(keys)
             last == [id |-> keys[n].id,
                      uids |-> IF p.kind = "user_id" THEN Append(keys[n].uids, p.id)
                                                     ELSE keys[n].uids,
                      packets |-> Append(keys[n].packets, p)]
         IN  /\ p.kind \in KeyKinds =>
                  after = Append(keys, [id |-> p.id, uids |-> <<>>, packets |-> <<p>>])
             /\ p.kind \notin KeyKinds /\ keys = <<>> => after = keys
             /\ p.kind \notin KeyKinds /\ keys # <<>> => after = [keys EXCEPT ![n] = last]
<1> DEFINE n == Len(keys)
           last == [id |-> keys[n].id,
                    uids |-> IF p.kind = "user_id" THEN Append(keys[n].uids, p.id)
                                                   ELSE keys[n].uids,
                    packets |-> Append(keys[n].packets, p)]
           after == PacketEnd(Content(keys, p), p)
<1>1. keys \in Seq(KeySet) /\ n \in Nat /\ DOMAIN keys = 1 .. n BY LenProperties DEF KeysOK
<1>2. p.kind \in KeyKinds =>
        after = Append(keys, [id |-> p.id, uids |-> <<>>, packets |-> <<p>>])
 <2> SUFFICES ASSUME p.kind \in KeyKinds
              PROVE  after = Append(keys, [id |-> p.id, uids |-> <<>>, packets |-> <<p>>])
   OBVIOUS
 <2> DEFINE new == NewKey(p)
            ks == Append(keys, new)
            full == [id |-> p.id, uids |-> <<>>, packets |-> <<p>>]
 <2>1. p.id \in Ids BY DEF Ids
 <2>2. new = [id |-> p.id, uids |-> <<>>, packets |-> <<>>] /\ new \in KeySet
   BY <2>1 DEF NewKey, KeySet
 <2>3. full \in KeySet BY <2>1 DEF KeySet
 <2>4. Content(keys, p) = ks BY DEF Content, KeyKinds
 <2>5. /\ ks \in Seq(KeySet) /\ ks # <<>> /\ Len(ks) = n + 1
       /\ \A i \in 1 .. n : ks[i] = keys[i]
       /\ ks[n + 1] = new
  <3> HIDE DEF new
  <3> QED BY <1>1, <2>2, AppendProperties
 <2>6. [new EXCEPT !.packets = Append(@, p)] = full
  <3>1. Append(<<>>, p) = <<p>> OBVIOUS
  <3> QED BY <2>2, <3>1
 <2>7. after = [ks EXCEPT ![n + 1].packets = Append(@, p)]
  <3> HIDE DEF ks
  <3> QED BY <2>4, <2>5 DEF PacketEnd
 <2>8. after = [ks EXCEPT ![n + 1] = full]
  <3> HIDE DEF ks, new, full, after
  <3> QED BY <2>5, <2>6, <2>7
 <2>9. DOMAIN ks = 1 .. n + 1
  <3> HIDE DEF ks
  <3> QED BY <2>5, LenProperties
 <2>10. [ks EXCEPT ![n + 1] = full] = Append(keys, full)
  <3> DEFINE a == [ks EXCEPT ![n + 1] = full]
             b == Append(keys, full)
  <3>1. /\ a \in Seq(KeySet) /\ Len(a) = n + 1
        /\ \A j \in 1 .. n + 1 : a[j] = IF j = n + 1 THEN full ELSE ks[j]
   <4> HIDE DEF ks, full
   <4>1. n + 1 \in 1 .. Len(ks) BY <1>1, <2>5
   <4> QED BY <2>3, <2>5, <4>1, ExceptSeq
  <3>2. /\ b \in Seq(KeySet) /\ Len(b) = n + 1
        /\ \A j \in 1 .. n : b[j] = keys[j]
        /\ b[n + 1] = full
   <4> HIDE DEF full
   <4> QED BY <1>1, <2>3, AppendProperties
  <3>3. \A j \in 1 .. n + 1 : a[j] = b[j]
   <4> HIDE DEF a, b, ks, full, n
   <4>1. ASSUME NEW j \in 1 .. n + 1 PROVE a[j] = b[j]
    <5>1. CASE j = n + 1
     <6>1. a[n + 1] = full BY <3>1, <1>1
     <6> QED BY <6>1, <5>1, <3>2
    <5>2. CASE j # n + 1
     <6>1. j \in 1 .. n BY <5>2, <1>1
     <6> QED BY <6>1, <5>2, <3>1, <3>2, <2>5
    <5> QED BY <5>1, <5>2
   <4> QED BY <4>1
  <3> HIDE DEF a, b
  <3>4. a = b BY <3>1, <3>2, <3>3, SeqEqual
  <3> QED BY <3>4 DEF a, b
 <2> QED BY <2>8, <2>10
<1>3. p.kind \notin KeyKinds /\ keys = <<>> => after = keys BY DEF PacketEnd, Content
<1>4. p.kind \notin KeyKinds /\ keys # <<>> => after = [keys EXCEPT ![n] = last]
 <2> SUFFICES ASSUME p.kind \notin KeyKinds, keys # <<>>
              PROVE  after = [keys EXCEPT ![n] = last]
   OBVIOUS
 <2>1. n \in DOMAIN keys /\ keys[n] \in KeySet BY <1>1, EmptySeq DEF KeysOK
 <2>2. keys[n] = [id |-> keys[n].id, uids |-> keys[n].uids, packets |-> keys[n].packets]
   BY <2>1 DEF KeySet
 <2>3. CASE p.kind = "user_id"
  <3> DEFINE mid == [id |-> keys[n].id, uids |-> Append(keys[n].uids, p.id),
                     packets |-> keys[n].packets]
             ks == [keys EXCEPT ![n] = mid]
  <3>1. Content(keys, p) = [keys EXCEPT ![n].uids = Append(@, p.id)]
    BY <2>3 DEF Content, KeyKinds
  <3>2. [keys[n] EXCEPT !.uids = Append(@, p.id)] = mid BY <2>2, SMTT(30)
  <3>3. Content(keys, p) = ks
   <4> HIDE DEF mid
   <4> QED BY <3>1, <3>2, <2>1
  <3>4. ks \in [1 .. n -> KeySet \cup {mid}] /\ ks[n] = mid /\ Len(ks) = n /\ ks # <<>>
   <4> HIDE DEF mid
   <4>1. keys \in [1 .. n -> KeySet] BY <1>1, LenProperties
   <4>2. DOMAIN ks = 1 .. n /\ ks[n] = mid BY <1>1, <2>1
   <4>3. Len(ks) = n BY <4>2, <1>1
   <4> QED BY <1>1, <2>1, <4>1, <4>2, <4>3
  <3>5. after = [ks EXCEPT ![n].packets = Append(@, p)]
   <4> HIDE DEF ks
   <4> QED BY <3>3, <3>4 DEF PacketEnd
  <3>6. [mid EXCEPT !.packets = Append(@, p)] = last
   <4>1. last = [id |-> keys[n].id, uids |-> Append(keys[n].uids, p.id),
                 packets |-> Append(keys[n].packets, p)]
     BY <2>3
   <4>2. mid = [id |-> keys[n].id, uids |-> Append(keys[n].uids, p.id),
                packets |-> keys[n].packets]
     OBVIOUS
   <4>3. [mid EXCEPT !.packets = Append(@, p)]
           = [id |-> keys[n].id, uids |-> Append(keys[n].uids, p.id),
              packets |-> Append(keys[n].packets, p)]
    <5>1. /\ mid \in [id : {mid.id}, uids : {mid.uids}, packets : {mid.packets}]
          /\ mid.id = keys[n].id /\ mid.uids = Append(keys[n].uids, p.id)
          /\ mid.packets = keys[n].packets
      BY <4>2
    <5> HIDE DEF mid
    <5> DEFINE q == Append(mid.packets, p)
    <5>2. [mid EXCEPT !.packets = Append(@, p)] = [mid EXCEPT !.packets = q] OBVIOUS
    <5>3. [mid EXCEPT !.packets = q]
            = [id |-> mid.id, uids |-> mid.uids, packets |-> q]
     <6> HIDE DEF q
     <6> QED BY <5>1, SMTT(30)
    <5> QED BY <5>1, <5>2, <5>3
   <4> QED BY <4>1, <4>3
  <3>7. after = [ks EXCEPT ![n] = last]
   <4> HIDE DEF ks, mid, last, after
   <4> QED BY <3>4, <3>5, <3>6, <2>1, <1>1
  <3>8. [ks EXCEPT ![n] = last] = [keys EXCEPT ![n] = last]
   <4> HIDE DEF mid, last
   <4> QED BY <1>1, <2>1
  <3> QED BY <3>7, <3>8
 <2>4. CASE p.kind # "user_id"
  <3>1. Content(keys, p) = keys BY <2>4 DEF Content
  <3>2. after = [keys EXCEPT ![n].packets = Append(@, p)] BY <3>1 DEF PacketEnd
  <3>3. [keys[n] EXCEPT !.packets = Append(@, p)] = last
   <4>1. last = [id |-> keys[n].id, uids |-> keys[n].uids,
                 packets |-> Append(keys[n].packets, p)]
     BY <2>4
   <4>2. [keys[n] EXCEPT !.packets = Append(@, p)]
           = [id |-> keys[n].id, uids |-> keys[n].uids,
              packets |-> Append(keys[n].packets, p)]
    <5> DEFINE q == Append(keys[n].packets, p)
    <5>1. [keys[n] EXCEPT !.packets = Append(@, p)] = [keys[n] EXCEPT !.packets = q] OBVIOUS
    <5>2. [keys[n] EXCEPT !.packets = q]
            = [id |-> keys[n].id, uids |-> keys[n].uids, packets |-> q]
     <6> HIDE DEF q, n
     <6> QED BY <2>1 DEF KeySet
    <5> QED BY <5>1, <5>2
   <4> QED BY <4>1, <4>2
  <3> HIDE DEF last, after
  <3> QED BY <3>2, <3>3, <2>1
 <2> QED BY <2>3, <2>4
<1> QED BY <1>2, <1>3, <1>4

\* One more packet at the end of a sequence of them.
LEMMA PacketAppended ==
  ASSUME NEW s \in Seq(Packets), NEW p \in Packets
  PROVE  /\ Append(s, p) \in Seq(Packets) /\ Len(Append(s, p)) = Len(s) + 1
         /\ \A i \in 1 .. Len(s) : Append(s, p)[i] = s[i]
         /\ Append(s, p)[Len(s) + 1] = p
         /\ \A kinds : OfKind(Append(s, p), kinds)
              = OfKind(s, kinds) \cup (IF p.kind \in kinds THEN {Len(s) + 1} ELSE {})
         /\ \A kinds : OfKind(s, kinds) \in SUBSET (1 .. Len(s))
         /\ \A i \in 1 .. Len(s), j \in 0 .. Len(s) :
              SubSeq(Append(s, p), i, j) = SubSeq(s, i, j)
         /\ \A i \in 1 .. Len(s) + 1 :
              SubSeq(Append(s, p), i, Len(s) + 1) = Append(SubSeq(s, i, Len(s)), p)
<1> DEFINE n == Len(s)
           t == Append(s, p)
<1>1. /\ t \in Seq(Packets) /\ Len(t) = n + 1 /\ n \in Nat
      /\ \A i \in 1 .. n : t[i] = s[i]
      /\ t[n + 1] = p
      /\ DOMAIN t = 1 .. n + 1 /\ DOMAIN s = 1 .. n
      /\ \A i \in 1 .. n : s[i] \in Packets
      /\ \A i \in 1 .. n + 1 : t[i] \in Packets
  BY AppendProperties, LenProperties, ElementOfSeq
<1> HIDE DEF t, n
<1>2. ASSUME NEW kinds
      PROVE  /\ OfKind(t, kinds)
                  = OfKind(s, kinds) \cup (IF p.kind \in kinds THEN {n + 1} ELSE {})
             /\ OfKind(s, kinds) \in SUBSET (1 .. n)
 <2>1. 1 .. n + 1 = (1 .. n) \cup {n + 1} BY <1>1
 <2> QED BY <1>1, <2>1 DEF OfKind
<1>3. ASSUME NEW i \in 1 .. n, NEW j \in 0 .. n PROVE SubSeq(t, i, j) = SubSeq(s, i, j)
 <2> DEFINE a == SubSeq(t, i, j)
            b == SubSeq(s, i, j)
 <2>1. /\ \A m \in i .. j : t[m] \in Packets /\ s[m] \in Packets /\ t[m] = s[m]
       /\ i \in Int /\ j \in Int
   BY <1>1
 <2>2. /\ a \in Seq(Packets) /\ Len(a) = IF i <= j THEN j - i + 1 ELSE 0
       /\ \A m \in 1 .. j - i + 1 : a[m] = t[i + m - 1]
   BY <2>1, SubSeqProperties
 <2>3. /\ b \in Seq(Packets) /\ Len(b) = IF i <= j THEN j - i + 1 ELSE 0
       /\ \A m \in 1 .. j - i + 1 : b[m] = s[i + m - 1]
   BY <2>1, SubSeqProperties
 <2>4. \A m \in 1 .. Len(a) : a[m] = b[m]
  <3> HIDE DEF a, b
  <3> QED BY <2>1, <2>2, <2>3, SMTT(30)
 <2> HIDE DEF a, b
 <2>5. a = b BY <2>2, <2>3, <2>4, SeqEqual
 <2> QED BY <2>5 DEF a, b
<1>4. ASSUME NEW i \in 1 .. n + 1 PROVE SubSeq(t, i, n + 1) = Append(SubSeq(s, i, n), p)
 <2> DEFINE a == SubSeq(t, i, n + 1)
            b == SubSeq(s, i, n)
            c == Append(b, p)
 <2>1. /\ \A m \in i .. n + 1 : t[m] \in Packets
       /\ \A m \in i .. n : s[m] \in Packets /\ t[m] = s[m]
       /\ i \in Int /\ n \in Int /\ n + 1 \in Int /\ i <= n + 1
   BY <1>1
 <2>2. /\ a \in Seq(Packets) /\ Len(a) = n + 1 - i + 1
       /\ \A m \in 1 .. n + 1 - i + 1 : a[m] = t[i + m - 1]
  <3> HIDE DEF a
  <3>1. /\ a \in Seq(Packets) /\ Len(a) = IF i <= n + 1 THEN n + 1 - i + 1 ELSE 0
        /\ \A m \in 1 .. n + 1 - i + 1 : a[m] = t[i + m - 1]
    BY <2>1, SubSeqProperties DEF a
  <3> QED BY <3>1, <2>1
 <2>3. /\ b \in Seq(Packets) /\ Len(b) = n - i + 1
       /\ \A m \in 1 .. n - i + 1 : b[m] = s[i + m - 1]
  <3> HIDE DEF b
  <3>1. /\ b \in Seq(Packets) /\ Len(b) = IF i <= n THEN n - i + 1 ELSE 0
        /\ \A m \in 1 .. n - i + 1 : b[m] = s[i + m - 1]
    BY <2>1, SubSeqProperties DEF b
  <3> QED BY <3>1, <2>1
 <2> HIDE DEF a, b
 <2>4. /\ c \in Seq(Packets) /\ Len(c) = Len(b) + 1
       /\ \A m \in 1 .. Len(b) : c[m] = b[m]
       /\ c[Len(b) + 1] = p
   BY <2>3, AppendProperties
 <2> HIDE DEF c
 <2>5. ASSUME NEW m \in 1 .. Len(a) PROVE a[m] = c[m]
  <3>1. CASE m = n + 1 - i + 1 BY <3>1, <1>1, <2>1, <2>2, <2>3, <2>4
  <3>2. CASE m # n + 1 - i + 1
   <4>1. m \in 1 .. n - i + 1 /\ i + m - 1 \in i .. n BY <3>2, <1>1, <2>1, <2>2
   <4> QED BY <4>1, <2>1, <2>2, <2>3, <2>4
  <3> QED BY <3>1, <3>2
 <2>6. Len(a) = Len(c) BY <2>2, <2>3, <2>4, <1>1
 <2>7. a = c BY <2>2, <2>4, <2>5, <2>6, SeqEqual
 <2> QED BY <2>7 DEF a, b, c
<1> QED BY <1>1, <1>2, <1>3, <1>4 DEF t, n

\* A key of one packet.
LEMMA KeyMade ==
  ASSUME NEW p \in Packets, p.kind \in KeyKinds
  PROVE  /\ KeyOK([id |-> p.id, uids |-> <<>>, packets |-> <<p>>])
         /\ UserIDsKept([id |-> p.id, uids |-> <<>>, packets |-> <<p>>])
<1> DEFINE k == [id |-> p.id, uids |-> <<>>, packets |-> <<p>>]
<1>1. k \in KeySet BY DEF KeySet, Ids
<1>2. Len(<<p>>) = 1 /\ <<p>>[1] = p /\ DOMAIN <<p>> = 1 .. 1 OBVIOUS
<1>3. OfKind(<<p>>, {"user_id"}) = {} BY <1>2 DEF OfKind, KeyKinds
<1>4. Len(<<>>) = 0 /\ Cardinality({}) = 0 BY FS_EmptySet
<1>5. k.id = p.id /\ k.uids = <<>> /\ k.packets = <<p>> OBVIOUS
<1> HIDE DEF k
<1>6. KeyOK(k) BY <1>1, <1>2, <1>5 DEF KeyOK
<1>7. UserIDsKept(k) BY <1>3, <1>4, <1>5 DEF UserIDsKept
<1> QED BY <1>6, <1>7 DEF k

\* A key that gets another packet, of a kind that begins no key.
LEMMA KeyGrows ==
  ASSUME NEW k, KeyOK(k), UserIDsKept(k), NEW p \in Packets, p.kind \notin KeyKinds
  PROVE  LET more == [id |-> k.id,
                      uids |-> IF p.kind = "user_id" THEN Append(k.uids, p.id) ELSE k.uids,
                      packets |-> Append(k.packets, p)]
         IN  KeyOK(more) /\ UserIDsKept(more)
<1> DEFINE n == Len(k.packets)
           ids == OfKind(k.packets, {"user_id"})
           uids == IF p.kind = "user_id" THEN Append(k.uids, p.id) ELSE k.uids
           packets == Append(k.packets, p)
           more == [id |-> k.id, uids |-> uids, packets |-> packets]
           ids2 == OfKind(packets, {"user_id"})
<1>1. k.id \in Ids /\ k.uids \in Seq(Ids) /\ k.packets \in Seq(Packets) /\ p.id \in Ids
  BY DEF KeyOK, KeySet, Ids
<1>2. /\ packets \in Seq(Packets) /\ Len(packets) = n + 1
      /\ \A i \in 1 .. n : packets[i] = k.packets[i]
      /\ packets[n + 1] = p
      /\ ids2 = ids \cup (IF p.kind \in {"user_id"} THEN {n + 1} ELSE {})
      /\ ids \in SUBSET (1 .. n)
      /\ n \in Nat \ {0}
  BY <1>1, PacketAppended, EmptySeq DEF KeyOK
<1>3. uids \in Seq(Ids) BY <1>1, AppendProperties
<1>4. more \in KeySet
 <2> HIDE DEF uids, packets
 <2> QED BY <1>1, <1>2, <1>3 DEF KeySet
<1>5. KeyOK(more)
 <2>1. packets # <<>> /\ packets[1] = k.packets[1]
  <3> HIDE DEF packets, n
  <3> QED BY <1>2
 <2>2. ASSUME NEW i \in 2 .. Len(packets) PROVE packets[i].kind \notin KeyKinds
  <3> HIDE DEF packets
  <3>1. CASE i = n + 1 BY <1>2, <3>1
  <3>2. CASE i # n + 1
   <4>1. i \in 2 .. n BY <1>2, <3>2
   <4> QED BY <4>1, <1>2 DEF KeyOK
  <3> QED BY <3>1, <3>2
 <2>3. more.id = k.id /\ more.packets = packets OBVIOUS
 <2> HIDE DEF packets, more
 <2> QED BY <1>4, <2>1, <2>2, <2>3 DEF KeyOK
<1>6. UserIDsKept(more)
 <2>1. more.uids = uids /\ more.packets = packets OBVIOUS
 <2>2. /\ Len(k.uids) = Cardinality(ids)
       /\ \A i \in ids : k.uids[Rank(i, ids)] = k.packets[i].id
   BY DEF UserIDsKept
 <2>3. Len(uids) = Cardinality(ids2) /\ \A i \in ids2 : uids[Rank(i, ids2)] = packets[i].id
  <3> HIDE DEF packets, ids, ids2, n
  <3>1. CASE p.kind # "user_id"
   <4>1. ids2 = ids /\ uids = k.uids BY <1>2, <3>1
   <4>2. \A i \in ids : packets[i] = k.packets[i] BY <1>2
   <4> HIDE DEF uids
   <4> QED BY <2>2, <4>1, <4>2
  <3>2. CASE p.kind = "user_id"
   <4>1. ids2 = ids \cup {n + 1} BY <1>2, <3>2
   <4>2. /\ Cardinality(ids2) = Cardinality(ids) + 1
         /\ Rank(n + 1, ids2) = Cardinality(ids) + 1
         /\ \A i \in ids : Rank(i, ids2) = Rank(i, ids)
    <5>1. n \in Nat /\ ids \in SUBSET (1 .. n) BY <1>2
    <5>2. /\ Cardinality(ids \cup {n + 1}) = Cardinality(ids) + 1
          /\ Rank(n + 1, ids \cup {n + 1}) = Cardinality(ids) + 1
          /\ \A i \in ids : Rank(i, ids \cup {n + 1}) = Rank(i, ids)
      BY <5>1, RankAdded
    <5> QED BY <4>1, <5>2
   <4>3. \A i \in ids : Rank(i, ids) \in 1 .. Cardinality(ids) BY <1>2, RankOK
   <4>4. /\ Len(uids) = Len(k.uids) + 1
         /\ \A i \in 1 .. Len(k.uids) : uids[i] = k.uids[i]
         /\ uids[Len(k.uids) + 1] = p.id
     BY <1>1, <3>2, AppendProperties
   <4>5. \A i \in ids : packets[i] = k.packets[i] BY <1>2
   <4> HIDE DEF uids
   <4>6. ASSUME NEW i \in ids2 PROVE uids[Rank(i, ids2)] = packets[i].id
    <5>1. CASE i = n + 1 BY <5>1, <1>2, <2>2, <4>2, <4>4
    <5>2. CASE i \in ids BY <5>2, <2>2, <4>2, <4>3, <4>4, <4>5
    <5> QED BY <4>1, <5>1, <5>2
   <4> QED BY <2>2, <4>2, <4>4, <4>6
  <3> QED BY <3>1, <3>2
 <2> HIDE DEF uids, packets, more
 <2> QED BY <2>1, <2>3 DEF UserIDsKept, ids2
<1> QED BY <1>5, <1>6

\* The keyring after a packet: its keys are as they should be, and share what
\* has been read.
LEMMA ReadPacketKeeps ==
  ASSUME Typed, KeysOK, KeysPartitionStream, NEW p \in Packets, ReadPacket(p)
  PROVE  KeysOK' /\ KeysPartitionStream'
<1> DEFINE n == Len(stream)
           m == Len(keys)
<1>1. /\ stream \in Seq(Packets) /\ keys \in Seq(KeySet)
      /\ n \in Nat /\ m \in Nat /\ DOMAIN keys = 1 .. m
      /\ \A k \in 1 .. m : keys[k] \in KeySet /\ KeyOK(keys[k]) /\ UserIDsKept(keys[k])
  BY LenProperties, ElementOfSeq DEF Typed, KeysOK, KeysPartitionStream
<1>2. stream' = Append(stream, p) /\ keys' = PacketEnd(Content(keys, p), p) BY DEF ReadPacket
<1>3. /\ stream' \in Seq(Packets) /\ Len(stream') = n + 1
      /\ \A i \in 1 .. n : stream'[i] = stream[i]
      /\ stream'[n + 1] = p
      /\ Firsts' = Firsts \cup (IF p.kind \in KeyKinds THEN {n + 1} ELSE {})
      /\ Firsts \in SUBSET (1 .. n)
      /\ \A i \in 1 .. n, j \in 0 .. n : SubSeq(stream', i, j) = SubSeq(stream, i, j)
      /\ \A i \in 1 .. n + 1 :
           SubSeq(stream', i, n + 1) = Append(SubSeq(stream, i, n), p)
  BY <1>1, <1>2, PacketAppended, SMTT(30) DEF Firsts
<1>4. \A i \in Firsts : Rank(i, Firsts) \in 1 .. m BY <1>1, <1>3, RankOK DEF KeysPartitionStream
<1>5. m = Cardinality(Firsts) BY DEF KeysPartitionStream
<1>6. \A i \in Firsts : HoldsFrom(keys[Rank(i, Firsts)], i) BY DEF KeysPartitionStream
<1>7. CASE p.kind \in KeyKinds
 <2> DEFINE new == [id |-> p.id, uids |-> <<>>, packets |-> <<p>>]
 <2>1. KeyOK(new) /\ UserIDsKept(new) /\ new.id = p.id /\ new.packets = <<p>> BY <1>7, KeyMade
 <2>2. keys' = Append(keys, new) BY <1>2, <1>7, KeysAfter
 <2> HIDE DEF new
 <2>3. new \in KeySet BY <2>1 DEF KeyOK
 <2>4. /\ keys' \in Seq(KeySet) /\ Len(keys') = m + 1 /\ DOMAIN keys' = 1 .. m + 1
       /\ \A k \in 1 .. m : keys'[k] = keys[k]
       /\ keys'[m + 1] = new
   BY <1>1, <2>2, <2>3, AppendProperties, LenProperties
 <2>5. \A k \in 1 .. m + 1 : KeyOK(keys'[k]) /\ UserIDsKept(keys'[k])
  <3> SUFFICES ASSUME NEW k \in 1 .. m + 1 PROVE KeyOK(keys'[k]) /\ UserIDsKept(keys'[k])
    OBVIOUS
  <3>1. CASE k = m + 1 BY <3>1, <2>1, <2>4
  <3>2. CASE k # m + 1
   <4>1. k \in 1 .. m BY <3>2, <1>1
   <4> QED BY <4>1, <1>1, <2>4
  <3> QED BY <3>1, <3>2
 <2>6. Firsts' = Firsts \cup {n + 1} BY <1>3, <1>7
 <2>7. /\ Cardinality(Firsts') = m + 1
       /\ Rank(n + 1, Firsts') = m + 1
       /\ \A i \in Firsts : Rank(i, Firsts') = Rank(i, Firsts)
  <3>1. /\ Cardinality(Firsts \cup {n + 1}) = m + 1
        /\ Rank(n + 1, Firsts \cup {n + 1}) = m + 1
        /\ \A i \in Firsts : Rank(i, Firsts \cup {n + 1}) = Rank(i, Firsts)
   <4>1. n \in Nat /\ Firsts \in SUBSET (1 .. n) BY <1>1, <1>3
   <4> HIDE DEF n, m
   <4> QED BY <4>1, <1>5, RankAdded
  <3> QED BY <3>1, <2>6
 <2>8. ASSUME NEW i \in Firsts, NEW k, HoldsFrom(k, i) PROVE HoldsFrom(k, i)'
  <3>1. PICK end \in i .. n : /\ \A j \in i + 1 .. end : j \notin Firsts
                              /\ end = n \/ end + 1 \in Firsts
                              /\ k.packets = SubSeq(stream, i, end)
    BY <2>8 DEF HoldsFrom
  <3>2. i \in 1 .. n /\ end \in 0 .. n BY <1>1, <1>3
  <3>3. end \in i .. n + 1 /\ \A j \in i + 1 .. end : j \notin Firsts' BY <3>1, <3>2, <2>6, <1>1
  <3>4. end + 1 \in Firsts' BY <3>1, <2>6
  <3>5. k.packets = SubSeq(stream', i, end) BY <3>1, <3>2, <1>3
  <3>6. k.id = stream'[i].id BY <2>8, <3>2, <1>3 DEF HoldsFrom
  <3> QED BY <3>3, <3>4, <3>5, <3>6, <1>3 DEF HoldsFrom
 <2>9. ASSUME NEW i, i = n + 1 PROVE HoldsFrom(new, i)'
  <3>1. SubSeq(stream', n + 1, n + 1) = <<p>>
   <4>1. SubSeq(stream, n + 1, n) = <<>> BY <1>1, SubSeqEmpty
   <4>2. Append(<<>>, p) = <<p>> OBVIOUS
   <4>3. n + 1 \in 1 .. n + 1 BY <1>1
   <4>4. SubSeq(stream', n + 1, n + 1) = Append(SubSeq(stream, n + 1, n), p) BY <4>3, <1>3
   <4> HIDE DEF n
   <4> QED BY <4>1, <4>2, <4>4
  <3>2. /\ Len(stream') \in i .. Len(stream')
        /\ \A j \in i + 1 .. Len(stream') : j \notin Firsts'
        /\ new.packets = SubSeq(stream', i, Len(stream'))
        /\ new.id = stream'[i].id
   <4>1. Len(stream') = i /\ i \in Nat BY <1>1, <1>3, <2>9
   <4>2. SubSeq(stream', i, i) = <<p>> /\ stream'[i] = p BY <3>1, <1>3, <2>9
   <4> QED BY <4>1, <4>2, <2>1
  <3> QED BY <3>2 DEF HoldsFrom
 <2>10. ASSUME NEW i \in Firsts' PROVE HoldsFrom(keys[Rank(i, Firsts)], i)'
  <3>1. CASE i = n + 1 BY <3>1, <2>4, <2>7, <2>9
  <3>2. CASE i \in Firsts
   <4>1. keys'[Rank(i, Firsts')] = keys[Rank(i, Firsts)] BY <3>2, <1>4, <2>4, <2>7
   <4>2. HoldsFrom(keys[Rank(i, Firsts)], i) BY <3>2, <1>6
   <4> QED BY <4>1, <4>2, <2>8, <3>2
  <3> QED BY <2>6, <3>1, <3>2
 <2> QED BY <2>4, <2>5, <2>7, <2>10 DEF KeysOK, KeysPartitionStream
<1>8. CASE p.kind \notin KeyKinds /\ keys = <<>>
 <2>1. keys' = keys /\ Firsts' = Firsts BY <1>2, <1>3, <1>8, KeysAfter
 <2>2. m = 0 /\ DOMAIN keys = {} BY <1>1, <1>8
 <2>3. Firsts = {} BY <1>4, <2>2
 <2> QED BY <1>1, <1>5, <2>1, <2>2, <2>3 DEF KeysOK, KeysPartitionStream
<1>9. CASE p.kind \notin KeyKinds /\ keys # <<>>
 <2> DEFINE more == [id |-> keys[m].id,
                     uids |-> IF p.kind = "user_id" THEN Append(keys[m].uids, p.id)
                                                    ELSE keys[m].uids,
                     packets |-> Append(keys[m].packets, p)]
 <2>1. m \in 1 .. m BY <1>1, <1>9, EmptySeq
 <2>2. KeyOK(more) /\ UserIDsKept(more) BY <2>1, <1>1, <1>9, KeyGrows
 <2>3. keys' = [keys EXCEPT ![m] = more] BY <1>2, <1>9, KeysAfter
 <2>4. more.id = keys[m].id /\ more.packets = Append(keys[m].packets, p) OBVIOUS
 <2> HIDE DEF more
 <2>5. more \in KeySet BY <2>2 DEF KeyOK
 <2>6. /\ keys' \in Seq(KeySet) /\ Len(keys') = m /\ DOMAIN keys' = 1 .. m
       /\ \A k \in 1 .. m : keys'[k] = IF k = m THEN more ELSE keys[k]
   BY <1>1, <2>1, <2>3, <2>5, ExceptSeq, LenProperties
 <2>7. \A k \in 1 .. m : KeyOK(keys'[k]) /\ UserIDsKept(keys'[k]) BY <1>1, <2>2, <2>6
 <2>8. Firsts' = Firsts BY <1>3, <1>9
 <2>9. ASSUME NEW i \in Firsts' PROVE HoldsFrom(keys[Rank(i, Firsts)], i)'
  <3> DEFINE k == Rank(i, Firsts)
  <3>1. k \in 1 .. m /\ i \in 1 .. n /\ Rank(i, Firsts') = k BY <1>3, <1>4, <2>8, <2>9
  <3>2. HoldsFrom(keys[k], i) BY <1>6, <2>8
  <3>3. PICK end \in i .. n : /\ \A j \in i + 1 .. end : j \notin Firsts
                              /\ end = n \/ end + 1 \in Firsts
                              /\ keys[k].packets = SubSeq(stream, i, end)
    BY <3>2 DEF HoldsFrom
  <3>4. end \in Nat /\ i \in Nat BY <1>1, <3>1
  <3>5. keys[k].id = stream'[i].id BY <3>1, <3>2, <1>3 DEF HoldsFrom
  <3>6. CASE k = m
   <4>1. \A j \in Firsts : j <= i
    <5>1. i \in Firsts /\ n \in Nat /\ Firsts \in SUBSET (1 .. n) BY <1>1, <1>3, <2>8
    <5>2. Rank(i, Firsts) = Cardinality(Firsts) BY <3>6, <1>5
    <5> QED BY <5>1, <5>2, RankOK
   <4>2. end = n BY <4>1, <3>3, <3>4, <1>1
   <4>3. keys'[k] = more /\ more.id = keys[k].id
         /\ more.packets = SubSeq(stream', i, n + 1)
    <5>1. keys'[k] = more BY <3>1, <3>6, <2>6
    <5>2. i \in 1 .. n + 1 BY <3>1, <1>1
    <5>3. SubSeq(stream', i, n + 1) = Append(SubSeq(stream, i, n), p) BY <5>2, <1>3
    <5>4. keys[m].packets = SubSeq(stream, i, n) BY <3>3, <3>6, <4>2
    <5>5. more.id = keys[k].id BY <3>6, <2>4
    <5> QED BY <5>1, <5>3, <5>4, <5>5, <2>4
   <4>4. n + 1 \in i .. n + 1 /\ \A j \in i + 1 .. n + 1 : j \notin Firsts'
     BY <4>1, <2>8, <3>1, <1>1
   <4> QED BY <3>1, <3>5, <4>3, <4>4, <1>3 DEF HoldsFrom
  <3>7. CASE k # m
   <4>1. keys'[k] = keys[k] BY <3>1, <3>7, <2>6
   <4>2. PICK j \in Firsts : ~(j <= i)
    <5>1. i \in Firsts /\ n \in Nat /\ Firsts \in SUBSET (1 .. n) BY <1>1, <1>3, <2>8
    <5>2. Rank(i, Firsts) # Cardinality(Firsts) BY <3>7, <1>5
    <5>3. CASE \A j \in Firsts : j <= i
     <6>1. {j \in Firsts : j <= i} = Firsts BY <5>3
     <6> QED BY <6>1, <5>2 DEF Rank
    <5> QED BY <5>3
   <4>3. end + 1 \in Firsts
    <5>1. j \in 1 .. n /\ j > i BY <4>2, <3>4, <1>3
    <5> QED BY <5>1, <3>3, <3>4, <1>1
   <4>4. end \in i .. n + 1 /\ end \in 0 .. n BY <3>3, <3>4, <1>1
   <4>5. keys[k].packets = SubSeq(stream', i, end) BY <3>1, <3>3, <4>4, <1>3
   <4>6. /\ \A h \in i + 1 .. end : h \notin Firsts'
         /\ end + 1 \in Firsts'
     BY <3>3, <4>3, <2>8
   <4> QED BY <3>1, <3>5, <4>1, <4>4, <4>5, <4>6, <1>3 DEF HoldsFrom
  <3> QED BY <3>6, <3>7
 <2> QED BY <1>5, <2>6, <2>7, <2>8, <2>9 DEF KeysOK, KeysPartitionStream
<1> QED BY <1>7, <1>8, <1>9

-----------------------------------------------------------------------------
(* Moving on through the packets of a key. *)

\* Of the key that is validated.
LEMMA TheKey ==
  ASSUME Typed, KeysOK, key > 0
  PROVE  /\ key \in Nat /\ key \in DOMAIN keys /\ KeyOK(keys[key])
         /\ keys[key].packets \in Seq(Packets)
         /\ Len(keys[key].packets) \in Nat \ {0}
         /\ DOMAIN keys[key].packets = 1 .. Len(keys[key].packets)
         /\ \A i \in 1 .. Len(keys[key].packets) : keys[key].packets[i] \in Packets
<1>1. keys \in Seq(KeySet) /\ Len(keys) \in Nat /\ DOMAIN keys = 1 .. Len(keys)
  BY LenProperties DEF KeysOK
<1>2. key \in Nat /\ key \in 1 .. Len(keys) BY <1>1 DEF Typed
<1>3. KeyOK(keys[key]) BY <1>1, <1>2 DEF KeysOK
<1>4. keys[key].packets \in Seq(Packets) /\ keys[key].packets # <<>> BY <1>3 DEF KeyOK, KeySet
<1>5. Len(keys[key].packets) \in Nat \ {0} BY <1>4, EmptySeq
<1>6. /\ DOMAIN keys[key].packets = 1 .. Len(keys[key].packets)
      /\ \A i \in 1 .. Len(keys[key].packets) : keys[key].packets[i] \in Packets
  BY <1>4, LenProperties, ElementOfSeq
<1> QED BY <1>1, <1>2, <1>3, <1>4, <1>5, <1>6

\* As long as no signature is passed, nothing changes for the judgements.
LEMMA JudgementsSame ==
  ASSUME Judgements, keys' = keys, result' = result, judged' = judged,
         \A at \in Places : Passed(at)' <=> Passed(at)
  PROVE  Judgements'
<1>1. Places' = Places BY DEF Places
<1>2. PassedJudged' BY <1>1 DEF Judgements, PassedJudged
<1>3. InTurn' BY <1>1 DEF Judgements, InTurn
<1>4. CountsAddUp' BY DEF Judgements, CountsAddUp, Judged
<1>5. ValidIffGenuine'
 <2>1. ASSUME NEW k, NEW i, NEW kinds PROVE LastOf(k, i, kinds)' = LastOf(k, i, kinds)
   BY DEF LastOf
 <2>2. \A k, i : Genuine(k, i)' <=> Genuine(k, i) BY <2>1 DEF Genuine
 <2>3. \A p : KnownSigner(p)' <=> KnownSigner(p) BY DEF KnownSigner
 <2> QED BY <2>2, <2>3 DEF Judgements, ValidIffGenuine
<1> QED BY <1>2, <1>3, <1>4, <1>5 DEF Judgements

\* The partition does not depend on more than the stream and the keys.
LEMMA KeysSame ==
  ASSUME KeysOK, KeysPartitionStream, keys' = keys, stream' = stream
  PROVE  KeysOK' /\ KeysPartitionStream'
<1>1. Firsts' = Firsts BY DEF Firsts
<1>2. \A k, i : HoldsFrom(k, i)' <=> HoldsFrom(k, i) BY <1>1 DEF HoldsFrom
<1>3. KeysOK' BY DEF KeysOK
<1>4. KeysPartitionStream' BY <1>1 DEF KeysPartitionStream, HoldsFrom
<1> QED BY <1>3, <1>4

\* Before any key is validated nothing is judged.
LEMMA ReadPacketStep == ASSUME KeyInv, NEW p \in Packets, ReadPacket(p) PROVE KeyInv'
<1>1. KeysOK' /\ KeysPartitionStream' BY ReadPacketKeeps DEF KeyInv
<1>2. /\ phase = "reading" /\ key = 0 /\ judged = <<>>
      /\ UNCHANGED <<phase, key, readerVars, carg, result, judged, crossed, status>>
  BY DEF KeyInv, ReaderOK, ReadPacket
<1>3. Typed'
 <2>1. stream' \in Seq(Packets) /\ Len(stream') = Len(stream) + 1 /\ Len(stream) < MaxPackets
       /\ Len(stream) \in Nat
   BY PacketAppended, LenProperties DEF KeyInv, Typed, ReadPacket
 <2>2. key' \in 0 .. Len(keys')
  <3>1. Len(keys') \in Nat BY <1>1, LenProperties DEF KeysOK
  <3> QED BY <3>1, <1>2
 <2> QED BY <1>2, <2>1, <2>2 DEF KeyInv, Typed, readerVars
<1>4. ReaderOK' BY <1>2 DEF KeyInv, ReaderOK, readerVars
<1>5. RemembersLast' BY <1>2 DEF RemembersLast
<1>6. PassedJudged'
 <2> SUFFICES ASSUME NEW at \in Places'
              PROVE  Passed(at)' <=> \E n \in DOMAIN judged' : judged'[n][1] = at
   BY DEF PassedJudged
 <2>1. PICK k \in DOMAIN keys' : at \in {k} \X DOMAIN keys'[k].packets BY DEF Places
 <2>2. keys' \in Seq(KeySet) BY <1>1 DEF KeysOK
 <2>3. k \in 1 .. Len(keys') /\ Len(keys') \in Nat BY <2>1, <2>2, LenProperties
 <2>4. at[1] = k BY <2>1
 <2>5. ~Passed(at)' BY <1>2, <2>3, <2>4 DEF Passed
 <2>6. DOMAIN judged' = {} BY <1>2
 <2> QED BY <2>5, <2>6
<1>7. InTurn' /\ ValidIffGenuine'
 <2>1. DOMAIN judged' = {} BY <1>2
 <2> QED BY <2>1 DEF InTurn, ValidIffGenuine
<1>8. CountsAddUp' BY <1>2 DEF KeyInv, Judgements, CountsAddUp, Judged
<1> QED BY <1>1, <1>3, <1>4, <1>5, <1>6, <1>7, <1>8 DEF KeyInv, Judgements

\* A read stays in its packet, and does not change which packet is parsed.
LEMMA ReadDataStep ==
  ASSUME KeyInv, NEW n \in 1 .. PacketLen, ReadData(n) PROVE KeyInv'
<1> DEFINE ps == keys[key].packets
<1>1. Typed /\ KeysOK /\ ReaderOK BY DEF KeyInv
<1>2. /\ phase = "validating" /\ ~AtEnd /\ n <= PacketLen - got
      /\ UNCHANGED <<stream, keys, key, carg, result, judged, status>>
  BY DEF ReadData
<1>3. key > 0 /\ packet < Len(ps) /\ content <= Len(ps) BY <1>1, <1>2 DEF ReaderOK
<1>4. Len(ps) \in Nat BY <1>1, <1>3, TheKey
<1>5. got \in 0 .. PacketLen /\ offset \in 0 .. PacketLen /\ packet \in Nat /\ content \in Nat
  BY <1>1 DEF Typed
<1>6. CASE got = 0
 <2>1. /\ Moved.offset = 0 /\ Moved.packet \in Nat /\ Moved.packet < Len(ps)
       /\ Pos = Moved.packet + 1
  <3>1. offset = PacketLen \/ (offset = 0 /\ packet = 0) BY <1>1, <1>6 DEF ReaderOK
  <3>2. CASE offset = PacketLen
   <4>1. Moved.packet = packet + 1 /\ Moved.offset = 0 BY <3>2 DEF Moved, Position
   <4>2. packet + 1 # Len(ps) BY <1>2, <4>1 DEF AtEnd
   <4>3. Pos = packet + 2 BY <1>6, <3>2 DEF Pos
   <4> HIDE DEF ps
   <4> QED BY <4>1, <4>2, <4>3, <1>3, <1>4, <1>5
  <3>3. CASE offset = 0 /\ packet = 0 /\ offset # PacketLen
   <4>1. Moved.packet = packet /\ Moved.offset = 0 BY <3>3 DEF Moved, Position
   <4>2. Pos = packet + 1 BY <1>6, <3>3 DEF Pos
   <4> QED BY <4>1, <4>2, <1>3, <1>5
  <3> QED BY <3>1, <3>2, <3>3
 <2>2. /\ packet' = Moved.packet /\ offset' = n /\ got' = n /\ content' = Moved.packet + 1
       /\ UNCHANGED <<phase, crossed>>
  <3>1. Moved.offset + n <= PacketLen BY <2>1, <1>2, <1>5
  <3>2. \A i, o : Position(i, o).packet = i /\ Position(i, o).offset = o BY DEF Position
  <3> QED BY <3>1, <3>2, <2>1, <1>6, <1>5 DEF ReadData, After
 <2>3. Pos' = Pos /\ got' > 0 /\ offset' = got' /\ content' = packet' + 1 BY <2>1, <2>2 DEF Pos
 <2>4. packet' \in Nat /\ packet' < Len(ps) /\ content' \in Nat /\ content' <= Len(ps)
  <3> HIDE DEF ps
  <3> QED BY <2>1, <2>2, <1>4
 <2>5. Typed' BY <2>2, <2>4, <1>1, <1>2 DEF Typed
 <2>6. ReaderOK' BY <2>2, <2>3, <2>4, <1>1, <1>2, <1>3 DEF ReaderOK
 <2>7. RemembersLast' BY <2>2, <2>3, <1>2 DEF KeyInv, RemembersLast
 <2>8. \A at \in Places : Passed(at)' <=> Passed(at) BY <2>2, <2>3, <1>2 DEF Passed
 <2>9. Judgements' BY <2>8, <1>2, JudgementsSame DEF KeyInv
 <2> QED BY <2>5, <2>6, <2>7, <2>9, <1>2, KeysSame DEF KeyInv
<1>7. CASE got # 0
 <2>1. offset = got /\ content = packet + 1 /\ got < PacketLen
   BY <1>1, <1>2, <1>5, <1>7 DEF ReaderOK
 <2>2. Moved.packet = packet /\ Moved.offset = offset BY <2>1, <1>5 DEF Moved, Position
 <2>3. /\ packet' = packet /\ offset' = offset + n /\ got' = got + n /\ content' = content
       /\ UNCHANGED <<phase, crossed>>
  <3>1. Moved.offset + n <= PacketLen BY <2>1, <2>2, <1>2, <1>5
  <3>2. \A i, o : Position(i, o).packet = i /\ Position(i, o).offset = o BY DEF Position
  <3> QED BY <3>1, <3>2, <2>2, <1>7 DEF ReadData, After
 <2>4. Pos' = Pos /\ got' > 0 /\ offset' = got' /\ got' \in 0 .. PacketLen
   BY <2>1, <2>3, <1>2, <1>5, <1>7 DEF Pos
 <2>5. Typed' BY <2>3, <2>4, <1>1, <1>2 DEF Typed
 <2>6. ReaderOK' BY <2>1, <2>3, <2>4, <1>1, <1>2, <1>3 DEF ReaderOK
 <2>7. RemembersLast' BY <2>3, <2>4, <1>2 DEF KeyInv, RemembersLast
 <2>8. \A at \in Places : Passed(at)' <=> Passed(at) BY <2>3, <2>4, <1>2 DEF Passed
 <2>9. Judgements' BY <2>8, <1>2, JudgementsSame DEF KeyInv
 <2> QED BY <2>5, <2>6, <2>7, <2>9, <1>2, KeysSame DEF KeyInv
<1> QED BY <1>6, <1>7

\* Where a signature may be.
LEMMA PlaceFacts ==
  ASSUME Typed, KeysOK, NEW at \in Places
  PROVE  /\ at[1] \in 1 .. Len(keys) /\ at[2] \in 1 .. Len(keys[at[1]].packets)
         /\ at[1] \in Nat /\ at[2] \in Nat /\ Len(keys[at[1]].packets) \in Nat
         /\ at = <<at[1], at[2]>> /\ keys[at[1]].packets[at[2]].kind = "signature"
<1>1. keys \in Seq(KeySet) /\ Len(keys) \in Nat /\ DOMAIN keys = 1 .. Len(keys)
  BY LenProperties DEF KeysOK
<1>2. PICK k \in DOMAIN keys : at \in {k} \X DOMAIN keys[k].packets BY DEF Places
<1>3. at[1] = k /\ at[2] \in DOMAIN keys[k].packets /\ at = <<at[1], at[2]>> BY <1>2
<1>4. keys[k].packets \in Seq(Packets) BY DEF KeysOK, KeyOK, KeySet
<1>5. DOMAIN keys[k].packets = 1 .. Len(keys[k].packets) /\ Len(keys[k].packets) \in Nat
  BY <1>4, LenProperties
<1>6. keys[at[1]].packets[at[2]].kind = "signature" BY DEF Places, IsSignature
<1> QED BY <1>1, <1>2, <1>3, <1>5, <1>6

\* A key is left when all its signatures are passed, and the next one begins with
\* nothing remembered.
LEMMA NextKeyStep ==
  ASSUME KeyInv, NextKey,
         \/ phase = "reading"
         \/ phase = "validating" /\ got = 0 /\ Pos > Len(keys[key].packets)
  PROVE  KeyInv'
<1>1. Typed /\ KeysOK /\ ReaderOK BY DEF KeyInv
<1>2. /\ packet' = 0 /\ offset' = 0 /\ got' = 0 /\ content' = 0 /\ carg' = NoArg
      /\ UNCHANGED <<stream, keys, result, judged, crossed>>
  BY DEF NextKey
<1>3. keys \in Seq(KeySet) /\ Len(keys) \in Nat /\ DOMAIN keys = 1 .. Len(keys)
  BY <1>1, LenProperties DEF KeysOK
<1>4. key \in Nat /\ key <= Len(keys) BY <1>1, <1>3 DEF Typed
<1>5. Pos' = 1 BY <1>2 DEF Pos
<1>6. ASSUME NEW at \in Places PROVE Passed(at) <=> at[1] <= key
 <2>1. /\ at[1] \in 1 .. Len(keys) /\ at[2] \in 1 .. Len(keys[at[1]].packets)
       /\ at[1] \in Nat /\ at[2] \in Nat /\ Len(keys[at[1]].packets) \in Nat
   BY <1>1, PlaceFacts
 <2>2. CASE phase = "reading"
  <3>1. key = 0 BY <2>2, <1>1 DEF ReaderOK
  <3> QED BY <3>1, <2>1 DEF Passed
 <2>3. CASE phase = "validating" /\ got = 0 /\ Pos > Len(keys[key].packets)
  <3>1. Pos \in Nat BY <2>3, <1>1 DEF Pos, Typed
  <3>2. at[1] = key => at[2] < Pos BY <2>1, <2>3, <3>1
  <3> QED BY <3>2, <2>1, <1>4 DEF Passed
 <2> QED BY <2>2, <2>3
<1>7. ASSUME NEW at \in Places PROVE Passed(at)' <=> at[1] <= key
 <2>1. at[1] \in 1 .. Len(keys) /\ at[1] \in Nat /\ at[2] \in Nat /\ at[2] >= 1
   BY <1>1, <1>3, PlaceFacts
 <2>2. CASE key < Len(keys)
  <3>1. key' = key + 1 /\ phase' = "validating" BY <2>2 DEF NextKey
  <3> QED BY <3>1, <2>1, <1>4, <1>5 DEF Passed
 <2>3. CASE ~(key < Len(keys))
  <3>1. key' = key /\ phase' = "done" BY <2>3 DEF NextKey
  <3> QED BY <3>1, <2>1, <1>4 DEF Passed
 <2> QED BY <2>2, <2>3
<1>8. Judgements' BY <1>2, <1>6, <1>7, JudgementsSame DEF KeyInv
<1>9. KeysOK' /\ KeysPartitionStream' BY <1>2, KeysSame DEF KeyInv
<1>10. carg' \in Args BY <1>2 DEF NoArg, Args
<1>11. CASE key < Len(keys)
 <2>1. key' = key + 1 /\ phase' = "validating" /\ status' = status BY <1>11 DEF NextKey
 <2>2. Typed' BY <2>1, <1>1, <1>2, <1>3, <1>4, <1>10, <1>11 DEF Typed
 <2>3. Len(keys'[key'].packets) \in Nat \ {0} /\ key' > 0
  <3>1. key' > 0 BY <2>1, <1>4
  <3>2. key' \in DOMAIN keys BY <2>1, <1>3, <1>4, <1>11
  <3>3. KeyOK(keys[key']) BY <3>2, <1>1 DEF KeysOK
  <3> QED BY <3>1, <3>3, <1>2, EmptySeq DEF KeyOK, KeySet
 <2>4. ReaderOK' BY <2>1, <2>3, <1>2 DEF ReaderOK
 <2>5. Remembers(carg', keys'[key'], 1) BY <1>2 DEF Remembers, NoneOf, NoArg
 <2>6. RemembersLast' BY <2>5, <1>5 DEF RemembersLast
 <2> QED BY <2>2, <2>4, <2>6, <1>8, <1>9 DEF KeyInv
<1>12. CASE ~(key < Len(keys))
 <2>1. key' = key /\ phase' = "done" /\ status' = Status(result) BY <1>12 DEF NextKey
 <2>2. status' \in BOOLEAN BY <2>1 DEF Status
 <2>3. Typed' BY <2>1, <2>2, <1>1, <1>2, <1>10 DEF Typed
 <2>4. status' = Status(result') BY <2>1, <1>2
 <2>5. ReaderOK'
  <3>1. key' = Len(keys')
   <4>1. key = Len(keys)
    <5>1. \A m, n \in Nat : m <= n /\ ~(m < n) => m = n OBVIOUS
    <5>2. Len(keys) \in Nat BY <1>3
    <5> QED BY <5>1, <5>2, <1>4, <1>12
   <4>2. keys' = keys BY <1>2
   <4> QED BY <4>1, <4>2, <2>1
  <3>2. phase' = "done" => key' = Len(keys') /\ status' = Status(result') BY <3>1, <2>4
  <3>3. phase' \notin {"reading", "validating", "abort"} BY <2>1
  <3>4. packet' = 0 /\ content' = 0 /\ got' = 0 /\ offset' = 0 BY <1>2
  <3> QED BY <3>2, <3>3, <3>4, Zenon DEF ReaderOK
 <2>6. RemembersLast' BY <2>1 DEF RemembersLast
 <2> QED BY <2>3, <2>5, <2>6, <1>8, <1>9 DEF KeyInv
<1> QED BY <1>11, <1>12

\* Validation begins with the first key.
LEMMA StartValidationStep == ASSUME KeyInv, StartValidation PROVE KeyInv'
BY NextKeyStep DEF StartValidation

\* The packets of a key come to their end between two packets for the parser, too.
LEMMA ReadEOFStep == ASSUME KeyInv, ReadEOF PROVE KeyInv'
<1>1. Typed /\ KeysOK /\ ReaderOK BY DEF KeyInv
<1>2. phase = "validating" /\ got < PacketLen /\ AtEnd /\ NextKey BY DEF ReadEOF
<1>3. key > 0 /\ packet < Len(keys[key].packets) BY <1>1, <1>2 DEF ReaderOK
<1>4. Len(keys[key].packets) \in Nat /\ packet \in Nat /\ got \in 0 .. PacketLen
  BY <1>1, <1>3, TheKey DEF Typed
<1>5. offset = PacketLen /\ packet + 1 = Len(keys[key].packets)
 <2>1. CASE offset # PacketLen
  <3>1. Moved.packet = packet BY <2>1 DEF Moved, Position
  <3>2. packet = Len(keys[key].packets) BY <3>1, <1>2 DEF AtEnd
  <3> QED BY <3>2, <1>3, <1>4
 <2>2. CASE offset = PacketLen
  <3>1. Moved.packet = packet + 1 BY <2>2 DEF Moved, Position
  <3> QED BY <2>2, <3>1, <1>2 DEF AtEnd
 <2> QED BY <2>1, <2>2
<1>6. got = 0 BY <1>1, <1>2, <1>4, <1>5 DEF ReaderOK
<1>7. Pos > Len(keys[key].packets) BY <1>4, <1>5, <1>6 DEF Pos
<1> QED BY <1>2, <1>6, <1>7, NextKeyStep

-----------------------------------------------------------------------------
(* The packet that is parsed. *)

\* A packet the callback gets is whole, and is the one keydata_reader is behind.
LEMMA GotPacketFacts ==
  ASSUME KeyInv, NEW kinds, GotPacket(kinds)
  PROVE  /\ Pos = content /\ content = packet + 1 /\ offset = PacketLen
         /\ content \in 1 .. Len(keys[key].packets) /\ content \in Nat
         /\ Parsed = keys[key].packets[content] /\ Parsed \in Packets /\ Parsed.kind \in kinds
         /\ key > 0 /\ Len(keys[key].packets) \in Nat
         /\ Remembers(carg, keys[key], content)
         /\ content = 1 <=> Parsed.kind \in KeyKinds
<1>1. Typed /\ KeysOK /\ ReaderOK /\ RemembersLast BY DEF KeyInv
<1>2. phase = "validating" /\ got = PacketLen /\ Parsed.kind \in kinds BY DEF GotPacket
<1>3. key > 0 /\ packet < Len(keys[key].packets) /\ content <= Len(keys[key].packets)
  BY <1>1, <1>2 DEF ReaderOK
<1>4. offset = PacketLen /\ content = packet + 1 /\ got > 0 BY <1>1, <1>2 DEF ReaderOK
<1>5. Pos = content BY <1>4 DEF Pos
<1>6. content \in Nat /\ packet \in Nat BY <1>1 DEF Typed
<1>7. /\ Len(keys[key].packets) \in Nat \ {0} /\ KeyOK(keys[key])
      /\ \A i \in 1 .. Len(keys[key].packets) : keys[key].packets[i] \in Packets
  BY <1>1, <1>3, TheKey
<1>8. content \in 1 .. Len(keys[key].packets) BY <1>3, <1>4, <1>6, <1>7
<1>9. Parsed = keys[key].packets[content] /\ Parsed \in Packets BY <1>7, <1>8 DEF Parsed
<1>10. content = 1 <=> Parsed.kind \in KeyKinds
 <2>1. CASE content = 1 BY <2>1, <1>7, <1>9 DEF KeyOK
 <2>2. CASE content # 1
  <3>1. content \in 2 .. Len(keys[key].packets) BY <2>2, <1>8
  <3> QED BY <3>1, <2>2, <1>7, <1>9 DEF KeyOK
 <2> QED BY <2>1, <2>2
<1>11. Remembers(carg, keys[key], content) BY <1>1, <1>2, <1>5 DEF RemembersLast
<1> QED BY <1>2, <1>3, <1>4, <1>5, <1>6, <1>7, <1>8, <1>9, <1>10, <1>11

\* One packet further, the last one of some kinds is that packet or the same as before.
LEMMA LastMoves ==
  ASSUME NEW kinds, NEW ps, NEW pos \in Nat \ {0}
  PROVE  /\ ps[pos].kind \in kinds => LastIs(kinds, ps, pos + 1, pos)
         /\ ps[pos].kind \notin kinds =>
              /\ NoneOf(kinds, ps, pos) => NoneOf(kinds, ps, pos + 1)
              /\ \A j : LastIs(kinds, ps, pos, j) => LastIs(kinds, ps, pos + 1, j)
<1>1. 1 .. pos + 1 - 1 = (1 .. pos - 1) \cup {pos} /\ \A m \in 1 .. pos : m <= pos OBVIOUS
<1>2. ps[pos].kind \in kinds => LastIs(kinds, ps, pos + 1, pos) BY <1>1 DEF LastIs
<1>3. ps[pos].kind \notin kinds /\ NoneOf(kinds, ps, pos) => NoneOf(kinds, ps, pos + 1)
  BY <1>1 DEF NoneOf
<1>4. ASSUME NEW j, ps[pos].kind \notin kinds, LastIs(kinds, ps, pos, j)
      PROVE  LastIs(kinds, ps, pos + 1, j)
  BY <1>1, <1>4 DEF LastIs
<1> QED BY <1>2, <1>3, <1>4

\* What a packet changes of what is remembered.
LEMMA RememberedFacts ==
  ASSUME carg \in Args, NEW p \in Packets
  PROVE  LET a == Remembered(p)
         IN  /\ a \in Args
             /\ a.pkey = IF p.kind \in KeyKinds THEN p.id ELSE carg.pkey
             /\ a.subkey = IF p.kind = "subkey" THEN p.id ELSE carg.subkey
             /\ p.kind \in {"user_id", "attribute"} => a.last_seen = p.kind
             /\ p.kind = "user_id" => a.user_id = p.id
             /\ p.kind = "attribute" => a.user_attribute = p.id
             /\ p.kind \notin {"user_id", "attribute"} =>
                  /\ a.last_seen = carg.last_seen /\ a.user_id = carg.user_id
                  /\ a.user_attribute = carg.user_attribute
<1>0. p.id \in Ids BY DEF Ids
<1>1. CASE p.kind \in KeyKinds
 <2>1. Remembered(p) = [carg EXCEPT !.pkey = p.id] BY <1>1 DEF Remembered, KeyKinds
 <2>2. p.kind \notin {"subkey", "user_id", "attribute"} BY <1>1 DEF KeyKinds
 <2>3. /\ Remembered(p) \in Args /\ Remembered(p).pkey = p.id
       /\ Remembered(p).subkey = carg.subkey
       /\ Remembered(p).last_seen = carg.last_seen
       /\ Remembered(p).user_id = carg.user_id
       /\ Remembered(p).user_attribute = carg.user_attribute
   BY <1>0, <2>1 DEF Args
 <2> QED BY <1>1, <2>2, <2>3
<1>2. CASE p.kind = "subkey"
 <2>1. Remembered(p) = [carg EXCEPT !.subkey = p.id] BY <1>2 DEF Remembered, KeyKinds
 <2> QED BY <1>0, <1>2, <2>1 DEF Args, KeyKinds
<1>3. CASE p.kind = "user_id"
 <2>1. Remembered(p) = [carg EXCEPT !.user_id = p.id, !.last_seen = "user_id"]
   BY <1>3 DEF Remembered, KeyKinds
 <2> QED BY <1>0, <1>3, <2>1 DEF Args, KeyKinds
<1>4. CASE p.kind = "attribute"
 <2>1. Remembered(p) = [carg EXCEPT !.user_attribute = p.id, !.last_seen = "attribute"]
   BY <1>4 DEF Remembered, KeyKinds
 <2> QED BY <1>0, <1>4, <2>1 DEF Args, KeyKinds
<1>5. CASE p.kind \notin KeyKinds \cup {"subkey", "user_id", "attribute"}
 <2>1. Remembered(p) = carg BY <1>5 DEF Remembered
 <2> QED BY <1>5, <2>1
<1> QED BY <1>1, <1>2, <1>3, <1>4, <1>5

\* It is still the last of its kind, one packet further.
LEMMA RememberedLast ==
  ASSUME carg \in Args, NEW k, NEW pos \in Nat \ {0}, pos <= Len(k.packets),
         Len(k.packets) \in Nat, NEW p \in Packets, p = k.packets[pos],
         k.packets[1].id = k.id, pos = 1 <=> p.kind \in KeyKinds,
         Remembers(carg, k, pos)
  PROVE  Remembers(Remembered(p), k, pos + 1)
<1> DEFINE a == Remembered(p)
           ps == k.packets
           named == {"user_id", "attribute"}
<1>1. /\ a.pkey = IF p.kind \in KeyKinds THEN p.id ELSE carg.pkey
      /\ a.subkey = IF p.kind = "subkey" THEN p.id ELSE carg.subkey
      /\ p.kind \in named => a.last_seen = p.kind
      /\ p.kind = "user_id" => a.user_id = p.id
      /\ p.kind = "attribute" => a.user_attribute = p.id
      /\ p.kind \notin named =>
           /\ a.last_seen = carg.last_seen /\ a.user_id = carg.user_id
           /\ a.user_attribute = carg.user_attribute
  BY RememberedFacts
<1> HIDE DEF a
<1>2. pos \in 1 .. Len(ps) OBVIOUS
<1>3. a.pkey = k.id
 <2>1. CASE pos = 1 BY <2>1, <1>1
 <2>2. CASE pos # 1
  <3>1. pos > 1 BY <2>2
  <3> QED BY <2>2, <3>1, <1>1 DEF Remembers
 <2> QED BY <2>1, <2>2
<1>4. \/ NoneOf({"subkey"}, ps, pos + 1) /\ a.subkey = None
      \/ \E j \in 1 .. Len(ps) :
           LastIs({"subkey"}, ps, pos + 1, j) /\ a.subkey = ps[j].id
 <2>1. CASE p.kind = "subkey"
  <3>1. LastIs({"subkey"}, ps, pos + 1, pos) BY <2>1, LastMoves
  <3> QED BY <3>1, <2>1, <1>1, <1>2
 <2>2. CASE p.kind # "subkey"
  <3>1. /\ NoneOf({"subkey"}, ps, pos) => NoneOf({"subkey"}, ps, pos + 1)
        /\ \A j : LastIs({"subkey"}, ps, pos, j) => LastIs({"subkey"}, ps, pos + 1, j)
    BY <2>2, LastMoves
  <3> QED BY <3>1, <2>2, <1>1 DEF Remembers
 <2> QED BY <2>1, <2>2
<1>5. \/ NoneOf(named, ps, pos + 1) /\ a.last_seen = None /\ a.user_attribute = None
      \/ \E j \in 1 .. Len(ps) :
           /\ LastIs(named, ps, pos + 1, j)
           /\ a.last_seen = ps[j].kind
           /\ ps[j].kind = "user_id" => a.user_id = ps[j].id
           /\ ps[j].kind = "attribute" => a.user_attribute = ps[j].id
 <2>1. CASE p.kind \in named
  <3>1. LastIs(named, ps, pos + 1, pos) BY <2>1, LastMoves
  <3> QED BY <3>1, <2>1, <1>1, <1>2
 <2>2. CASE p.kind \notin named
  <3>1. /\ NoneOf(named, ps, pos) => NoneOf(named, ps, pos + 1)
        /\ \A j : LastIs(named, ps, pos, j) => LastIs(named, ps, pos + 1, j)
    BY <2>2, LastMoves
  <3> QED BY <3>1, <2>2, <1>1 DEF Remembers
 <2> QED BY <2>1, <2>2
<1> QED BY <1>3, <1>4, <1>5 DEF Remembers, a

\* Of a packet that is no signature something is remembered.
LEMMA RememberStep == ASSUME KeyInv, Remember PROVE KeyInv'
<1>1. Typed /\ KeysOK /\ ReaderOK BY DEF KeyInv
<1>2. /\ phase = "validating" /\ got' = 0 /\ carg' = Remembered(Parsed)
      /\ GotPacket(Kinds \ {"signature"})
      /\ UNCHANGED <<stream, keys, key, packet, offset, content, crossed, status,
                     phase, result, judged>>
  BY DEF Remember, GotPacket
<1>3. /\ Pos = content /\ content = packet + 1 /\ offset = PacketLen
      /\ content \in 1 .. Len(keys[key].packets) /\ content \in Nat
      /\ Parsed = keys[key].packets[content] /\ Parsed \in Packets
      /\ Parsed.kind \in Kinds \ {"signature"}
      /\ key > 0 /\ Len(keys[key].packets) \in Nat
      /\ Remembers(carg, keys[key], content)
      /\ content = 1 <=> Parsed.kind \in KeyKinds
  BY <1>2, GotPacketFacts
<1>4. carg \in Args /\ packet \in Nat BY <1>1 DEF Typed
<1>5. Pos' = content + 1 BY <1>2, <1>3, <1>4 DEF Pos
<1>6. Typed'
 <2>1. carg' \in Args BY <1>2, <1>3, <1>4, RememberedFacts
 <2> QED BY <2>1, <1>1, <1>2 DEF Typed
<1>7. ReaderOK' BY <1>1, <1>2, <1>3 DEF ReaderOK
<1>8. Remembers(carg', keys[key], content + 1)
 <2>1. keys[key].packets[1].id = keys[key].id BY <1>1, <1>3, TheKey DEF KeyOK
 <2>2. content \in Nat \ {0} /\ content <= Len(keys[key].packets) BY <1>3
 <2> QED BY <2>1, <2>2, <1>2, <1>3, <1>4, RememberedLast
<1>9. RemembersLast' BY <1>8, <1>5, <1>2 DEF RemembersLast
<1>10. ASSUME NEW at \in Places PROVE Passed(at)' <=> Passed(at)
 <2>1. /\ at[2] \in Nat
       /\ at[1] = key => at[2] # content
   BY <1>1, <1>3, PlaceFacts
 <2>2. Passed(at) <=> at[1] < key \/ (at[1] = key /\ at[2] < content) BY <1>2, <1>3 DEF Passed
 <2>3. Passed(at)' <=> at[1] < key \/ (at[1] = key /\ at[2] < content + 1)
   BY <1>2, <1>5 DEF Passed
 <2> QED BY <2>1, <2>2, <2>3, <1>3
<1>11. Judgements' BY <1>2, <1>10, JudgementsSame DEF KeyInv
<1> QED BY <1>6, <1>7, <1>9, <1>11, <1>2, KeysSame DEF KeyInv

\* The callback gives up, and all stays as it is.
LEMMA AbortStep ==
  ASSUME KeyInv, phase = "validating", phase' = "abort",
         UNCHANGED <<stream, keys, key, readerVars, carg, result, judged, crossed, status>>
  PROVE  KeyInv'
<1>1. Typed' /\ ReaderOK' BY DEF KeyInv, Typed, ReaderOK, readerVars
<1>2. RemembersLast' BY DEF RemembersLast
<1>3. Pos' = Pos BY DEF Pos, readerVars
<1>4. \A at \in Places : Passed(at)' <=> Passed(at) BY <1>3 DEF Passed
<1>5. Judgements' BY <1>4, JudgementsSame DEF KeyInv
<1> QED BY <1>1, <1>2, <1>5, KeysSame DEF KeyInv

-----------------------------------------------------------------------------
(* Judging a signature. *)

\* The last packet of some kinds, found.
LEMMA LastOfFacts ==
  ASSUME NEW k, NEW pos \in Nat, NEW kinds
  PROVE  LET ps == keys[k].packets
         IN  /\ NoneOf(kinds, ps, pos) => LastOf(k, pos, kinds) = <<>>
             /\ \A j : LastIs(kinds, ps, pos, j) =>
                  LastOf(k, pos, kinds) = <<ps[j].kind, ps[j].id>>
<1> DEFINE ps == keys[k].packets
           before == {j \in 1 .. pos - 1 : ps[j].kind \in kinds}
           last == CHOOSE j \in before : \A m \in before : m <= j
<1>1. LastOf(k, pos, kinds) = IF before = {} THEN <<>> ELSE <<ps[last].kind, ps[last].id>>
  BY DEF LastOf
<1>2. ASSUME NoneOf(kinds, ps, pos) PROVE before = {} BY <1>2 DEF NoneOf
<1>3. ASSUME NEW j, LastIs(kinds, ps, pos, j) PROVE before # {} /\ last = j
 <2>1. j \in before /\ \A m \in before : m <= j BY <1>3 DEF LastIs
 <2>2. \A m \in before : m \in Nat OBVIOUS
 <2> HIDE DEF before
 <2>3. last \in before /\ \A m \in before : m <= last BY <2>1
 <2>4. last <= j /\ j <= last /\ last \in Nat /\ j \in Nat BY <2>1, <2>2, <2>3
 <2>5. \A m, n \in Nat : m <= n /\ n <= m => m = n OBVIOUS
 <2> HIDE DEF last
 <2> QED BY <2>1, <2>4, <2>5
<1> HIDE DEF before, last
<1> QED BY <1>1, <1>2, <1>3

\* What is hashed is what a genuine signature of this place was made over.
LEMMA GoodIffGenuine ==
  ASSUME KeyInv, GotPacket({"signature"}), KnownSigner(Parsed), ~NoSubkey(Parsed)
  PROVE  Good(Parsed) <=> Genuine(key, content)
<1> DEFINE p == Parsed
           ps == keys[key].packets
           named == {"user_id", "attribute"}
           what == p.over[2]
<1>1. /\ content = packet + 1 /\ content \in Nat /\ packet \in Nat
      /\ p = ps[content] /\ p \in Packets /\ p.kind = "signature"
      /\ Remembers(carg, keys[key], content)
      /\ content = 1 <=> p.kind \in KeyKinds
 <2>1. packet \in Nat BY DEF KeyInv, Typed
 <2>2. GotPacket({"signature"}) OBVIOUS
 <2> HIDE DEF ps, p, named, what
 <2>3. /\ content = packet + 1 /\ content \in Nat
       /\ Parsed = keys[key].packets[content] /\ Parsed \in Packets
       /\ Parsed.kind \in {"signature"}
       /\ Remembers(carg, keys[key], content)
       /\ content = 1 <=> Parsed.kind \in KeyKinds
   BY <2>2, GotPacketFacts
 <2> QED BY <2>1, <2>3 DEF p, ps
<1>2. carg.pkey = keys[key].id
 <2>1. content # 1 /\ content >= 1 BY <1>1 DEF KeyKinds
 <2>2. content > 1 BY <2>1, <1>1
 <2> QED BY <2>2, <1>1 DEF Remembers
<1>3. /\ p.type \in {"cert", "subkey", "direct", "other"}
      /\ p.over = <<p.over[1], p.over[2]>> /\ what # <<"attribute", None>>
  BY <1>1, PacketsAssumption DEF PacketsAssumption
<1> DEFINE thing ==
             CASE p.type = "cert" /\ carg.last_seen = "user_id" -> <<"user_id", carg.user_id>>
               [] p.type = "cert" /\ carg.last_seen # "user_id" ->
                    <<"attribute", carg.user_attribute>>
               [] p.type = "subkey" -> <<"subkey", carg.subkey>>
               [] OTHER -> <<>>
<1>4. Hashed(p) = <<carg.pkey, thing>> BY DEF Hashed
<1>5. Good(p) <=> p.type # "other" /\ p.over[1] = keys[key].id /\ what = thing
 <2> HIDE DEF thing, p
 <2>1. Good(p) <=> p.type # "other" /\ p.over = <<carg.pkey, thing>> BY <1>1, <1>4 DEF Good
 <2>2. p.over = <<carg.pkey, thing>> <=> p.over[1] = carg.pkey /\ p.over[2] = thing BY <1>3
 <2> QED BY <2>1, <2>2, <1>2
<1>6. Genuine(key, content) <=>
        /\ p.over[1] = keys[key].id
        /\ \/ p.type = "cert" /\ what # <<>> /\ what = LastOf(key, content, named)
           \/ p.type = "subkey" /\ what # <<>> /\ what = LastOf(key, content, {"subkey"})
           \/ p.type = "direct" /\ what = <<>>
  BY <1>1 DEF Genuine
<1>7. CASE p.type = "cert"
 <2>1. CASE NoneOf(named, ps, content) /\ carg.last_seen = None
            /\ carg.user_attribute = None
  <3>1. LastOf(key, content, named) = <<>> BY <2>1, <1>1, LastOfFacts
  <3>2. thing = <<"attribute", None>> BY <2>1, <1>7, PacketsAssumption DEF PacketsAssumption
  <3>3. ~Good(p) BY <3>2, <1>3, <1>5
  <3>4. ~Genuine(key, content) BY <3>1, <1>6, <1>7
  <3> QED BY <3>3, <3>4
 <2>2. CASE \E j \in 1 .. Len(ps) :
              /\ LastIs(named, ps, content, j)
              /\ carg.last_seen = ps[j].kind
              /\ ps[j].kind = "user_id" => carg.user_id = ps[j].id
              /\ ps[j].kind = "attribute" => carg.user_attribute = ps[j].id
  <3>1. PICK j \in 1 .. Len(ps) :
             /\ LastIs(named, ps, content, j)
             /\ carg.last_seen = ps[j].kind
             /\ ps[j].kind = "user_id" => carg.user_id = ps[j].id
             /\ ps[j].kind = "attribute" => carg.user_attribute = ps[j].id
    BY <2>2
  <3>2. LastOf(key, content, named) = <<ps[j].kind, ps[j].id>> BY <3>1, <1>1, LastOfFacts
  <3>3. ps[j].kind \in named BY <3>1 DEF LastIs
  <3>4. thing = <<ps[j].kind, ps[j].id>>
   <4>1. CASE ps[j].kind = "user_id" BY <4>1, <3>1, <1>7
   <4>2. CASE ps[j].kind = "attribute" BY <4>2, <3>1, <1>7
   <4> QED BY <4>1, <4>2, <3>3
  <3>5. <<ps[j].kind, ps[j].id>> # <<>> OBVIOUS
  <3> HIDE DEF thing, ps, named, what
  <3> QED BY <3>2, <3>4, <3>5, <1>5, <1>6, <1>7
 <2> QED BY <2>1, <2>2, <1>1 DEF Remembers
<1>8. CASE p.type = "subkey"
 <2>1. carg.subkey # None BY <1>8 DEF NoSubkey
 <2>2. PICK j \in 1 .. Len(ps) :
            LastIs({"subkey"}, ps, content, j) /\ carg.subkey = ps[j].id
   BY <2>1, <1>1 DEF Remembers
 <2>3. LastOf(key, content, {"subkey"}) = <<ps[j].kind, ps[j].id>> BY <2>2, <1>1, LastOfFacts
 <2>4. ps[j].kind = "subkey" BY <2>2 DEF LastIs
 <2>5. thing = <<"subkey", carg.subkey>> /\ thing # <<>> BY <1>8
 <2> HIDE DEF thing, ps, named, what
 <2> QED BY <2>2, <2>3, <2>4, <2>5, <1>5, <1>6, <1>8
<1>9. CASE p.type = "direct"
 <2>1. thing = <<>> BY <1>9
 <2> HIDE DEF thing, ps, named, what
 <2> QED BY <2>1, <1>5, <1>6, <1>9
<1>10. CASE p.type = "other"
 <2> HIDE DEF thing, ps, named, what
 <2> QED BY <1>5, <1>6, <1>10
<1> QED BY <1>3, <1>7, <1>8, <1>9, <1>10

\* A list grows by one, wherever the element is written.
LEMMA AddSigFacts ==
  ASSUME NEW list \in [count : Nat, sigs : Seq(Spots \cup {None})],
         Len(list.sigs) = list.count, NEW sig \in Spots, NEW scale
  PROVE  /\ AddSig(list, sig, scale) \in [count : Nat, sigs : Seq(Spots \cup {None})]
         /\ AddSig(list, sig, scale).count = list.count + 1
         /\ Len(AddSig(list, sig, scale).sigs) = list.count + 1
<1> DEFINE n == list.count
           f == [i \in 1 .. n + 1 |-> IF i = scale * n + 1 THEN sig
                                      ELSE IF i <= n THEN list.sigs[i] ELSE None]
<1>1. n \in Nat /\ list.sigs \in Seq(Spots \cup {None}) /\ Len(list.sigs) = n OBVIOUS
<1>2. \A i \in 1 .. n : list.sigs[i] \in Spots \cup {None} BY <1>1, ElementOfSeq
<1>3. f \in [1 .. n + 1 -> Spots \cup {None}]
 <2> SUFFICES ASSUME NEW i \in 1 .. n + 1 PROVE f[i] \in Spots \cup {None} OBVIOUS
 <2>1. f[i] = IF i = scale * n + 1 THEN sig
              ELSE IF i <= n THEN list.sigs[i] ELSE None
   OBVIOUS
 <2>2. CASE i = scale * n + 1 BY <2>1, <2>2
 <2>3. CASE i # scale * n + 1 /\ i <= n
  <3>1. i \in 1 .. n BY <2>3, <1>1
  <3> QED BY <2>1, <2>3, <3>1, <1>2
 <2>4. CASE i # scale * n + 1 /\ ~(i <= n) BY <2>1, <2>4
 <2> QED BY <2>2, <2>3, <2>4
<1>4. AddSig(list, sig, scale) = [count |-> n + 1, sigs |-> f] BY DEF AddSig
<1> HIDE DEF f
<1>5. f \in Seq(Spots \cup {None}) /\ Len(f) = n + 1 BY <1>1, <1>3
<1> HIDE DEF n
<1> QED BY <1>1, <1>4, <1>5

\* One more judgement, of the signature that is next, and the judgements are as
\* they should be when its verdict is right and its list has one more.
LEMMA JudgementAdded ==
  ASSUME Typed, KeysOK, Judgements, keys' = keys, NEW at \in Places, NEW v \in Lists,
         judged' = Append(judged, <<at, v>>),
         \A b \in Places : Passed(b) <=> Precedes(b, at),
         \A b \in Places : Passed(b)' <=> Passed(b) \/ b = at,
         DOMAIN result' = DOMAIN result,
         \A w \in DOMAIN result :
           result'[w].count = IF w = v THEN result[w].count + 1 ELSE result[w].count,
         v = LET p == keys[at[1]].packets[at[2]]
             IN  IF ~KnownSigner(p) THEN "unknown"
                 ELSE IF Genuine(at[1], at[2]) THEN "valid" ELSE "invalid"
  PROVE  Judgements'
<1> DEFINE L == Len(judged)
<1>1. judged \in Seq(Spots \X Lists) /\ L \in Nat /\ DOMAIN judged = 1 .. L
  BY LenProperties DEF Typed
<1>2. at \in Spots /\ <<at, v>> \in Spots \X Lists
 <2>1. at = <<at[1], at[2]>> /\ at[1] \in Nat /\ at[2] \in Nat BY PlaceFacts
 <2>2. at \in Spots BY <2>1 DEF Spots
 <2> QED BY <2>2
<1>3. /\ Len(judged') = L + 1 /\ DOMAIN judged' = 1 .. L + 1
      /\ \A n \in 1 .. L : judged'[n] = judged[n]
      /\ judged'[L + 1] = <<at, v>>
 <2> DEFINE e == <<at, v>>
 <2>1. e \in Spots \X Lists BY <1>2
 <2> HIDE DEF e
 <2>2. judged' = Append(judged, e) BY DEF e
 <2>3. /\ judged' \in Seq(Spots \X Lists) /\ Len(judged') = L + 1
       /\ \A n \in 1 .. L : judged'[n] = judged[n]
       /\ judged'[L + 1] = e
   BY <1>1, <2>1, <2>2, AppendProperties
 <2> QED BY <2>3, LenProperties DEF e
<1> HIDE DEF L
<1>4. judged'[L + 1][1] = at /\ judged'[L + 1][2] = v /\ L + 1 \in 1 .. L + 1 BY <1>1, <1>3
<1>5. \A n \in 1 .. L + 1 : n \in 1 .. L \/ n = L + 1 BY <1>1
<1>6. 1 .. L \subseteq 1 .. L + 1 BY <1>1
<1>7. Places' = Places BY DEF Places
<1>8. PassedJudged'
 <2>1. \A b : (\E n \in 1 .. L + 1 : judged'[n][1] = b)
              <=> (\E n \in 1 .. L : judged[n][1] = b) \/ b = at
   BY <1>3, <1>4, <1>5, <1>6
 <2> QED BY <2>1, <1>1, <1>3, <1>7 DEF Judgements, PassedJudged
<1>9. InTurn'
 <2> SUFFICES ASSUME NEW n \in 1 .. L + 1
              PROVE  /\ judged'[n][1] \in Places
                     /\ \A b \in Places :
                          Precedes(b, judged'[n][1])
                            <=> \E m \in 1 .. n - 1 : judged'[m][1] = b
   BY <1>3, <1>7 DEF InTurn, Precedes
 <2>1. CASE n \in 1 .. L
  <3>1. \A m \in 1 .. n - 1 : judged'[m] = judged[m]
   <4>1. \A m \in 1 .. n - 1 : m \in 1 .. L BY <2>1, <1>1
   <4> QED BY <4>1, <1>3
  <3>2. /\ judged[n][1] \in Places
        /\ \A b \in Places :
             Precedes(b, judged[n][1]) <=> \E m \in 1 .. n - 1 : judged[m][1] = b
    BY <2>1, <1>1 DEF Judgements, InTurn
  <3>3. judged'[n] = judged[n] BY <2>1, <1>3
  <3>4. \A b : (\E m \in 1 .. n - 1 : judged'[m][1] = b)
               <=> \E m \in 1 .. n - 1 : judged[m][1] = b
    BY <3>1
  <3>5. ASSUME NEW b \in Places
        PROVE  Precedes(b, judged'[n][1]) <=> \E m \in 1 .. n - 1 : judged'[m][1] = b
   <4>1. Precedes(b, judged[n][1]) <=> \E m \in 1 .. n - 1 : judged[m][1] = b BY <3>2
   <4> QED BY <4>1, <3>3, <3>4
  <3> QED BY <3>2, <3>3, <3>5
 <2>2. CASE n = L + 1
  <3>1. 1 .. n - 1 = 1 .. L BY <2>2, <1>1
  <3>2. \A b \in Places : Precedes(b, at) <=> \E m \in 1 .. L : judged[m][1] = b
    BY <1>1 DEF Judgements, PassedJudged
  <3>3. judged'[n][1] = at BY <2>2, <1>4
  <3>4. \A b : (\E m \in 1 .. n - 1 : judged'[m][1] = b)
               <=> \E m \in 1 .. L : judged[m][1] = b
    BY <3>1, <1>3
  <3> QED BY <3>2, <3>3, <3>4, ZenonT(60) DEF Precedes
 <2> QED BY <2>1, <2>2, <1>5
<1>10. CountsAddUp'
 <2> SUFFICES ASSUME NEW w \in DOMAIN result
              PROVE  result'[w].count = Cardinality(Judged(w)')
   BY DEF CountsAddUp
 <2>1. result[w].count = Cardinality(Judged(w)) BY DEF Judgements, CountsAddUp
 <2>2. CASE w = v
  <3>1. Judged(w)' = Judged(w) \cup {L + 1} BY <2>2, <1>1, <1>3, <1>4, <1>5, <1>6 DEF Judged
  <3>2. Judged(w) \in SUBSET (1 .. L) BY <1>1 DEF Judged
  <3>3. Cardinality(Judged(w) \cup {L + 1}) = Cardinality(Judged(w)) + 1
   <4> HIDE DEF Judged
   <4> QED BY <3>2, <1>1, RankAdded
  <3> QED BY <2>1, <2>2, <3>1, <3>3
 <2>3. CASE w # v
  <3>1. Judged(w)' = Judged(w) BY <2>3, <1>1, <1>3, <1>4, <1>5, <1>6 DEF Judged
  <3> QED BY <2>1, <2>3, <3>1
 <2> QED BY <2>2, <2>3
<1>11. ValidIffGenuine'
 <2>1. ASSUME NEW k, NEW i, NEW kinds PROVE LastOf(k, i, kinds)' = LastOf(k, i, kinds)
   BY DEF LastOf
 <2>2. \A k, i : Genuine(k, i)' <=> Genuine(k, i) BY <2>1, ZenonT(60) DEF Genuine
 <2>3. \A p : KnownSigner(p)' <=> KnownSigner(p) BY DEF KnownSigner
 <2>4. ASSUME NEW n \in 1 .. L + 1
       PROVE  LET b == judged'[n][1]
                  p == keys[b[1]].packets[b[2]]
              IN  judged'[n][2] = IF ~KnownSigner(p) THEN "unknown"
                                  ELSE IF Genuine(b[1], b[2]) THEN "valid" ELSE "invalid"
  <3>1. CASE n \in 1 .. L BY <3>1, <1>1, <1>3, ZenonT(60) DEF Judgements, ValidIffGenuine
  <3>2. CASE n = L + 1 BY <3>2, <1>4
  <3> QED BY <3>1, <3>2, <1>5
 <2> HIDE DEF Genuine, KnownSigner
 <2> QED BY <2>2, <2>3, <2>4, <1>3 DEF ValidIffGenuine
<1> QED BY <1>8, <1>9, <1>10, <1>11 DEF Judgements

\* A signature is judged for what it is, and the parser goes on; only a subkey
\* that has not come stops it.
LEMMA JudgeSignatureStep == ASSUME KeyInv, JudgeSignature PROVE KeyInv'
<1> DEFINE ps == keys[key].packets
           at == <<key, content>>
           v == IF ~KnownSigner(Parsed) THEN "unknown"
                ELSE IF Good(Parsed) THEN "valid" ELSE "invalid"
<1>1. Typed /\ KeysOK /\ ReaderOK /\ Judgements BY DEF KeyInv
<1>2. /\ phase = "validating" /\ GotPacket({"signature"})
      /\ UNCHANGED <<stream, keys, key, packet, offset, content, crossed, status, carg>>
  BY DEF JudgeSignature, GotPacket
<1>3. /\ Pos = content /\ content = packet + 1 /\ offset = PacketLen
      /\ content \in 1 .. Len(keys[key].packets) /\ content \in Nat
      /\ Parsed = keys[key].packets[content] /\ Parsed \in Packets
      /\ Parsed.kind \in {"signature"}
      /\ key > 0 /\ Len(keys[key].packets) \in Nat
      /\ Remembers(carg, keys[key], content)
  BY <1>2, GotPacketFacts
<1>4. CASE NoSubkey(Parsed)
 <2>1. phase' = "abort" /\ UNCHANGED <<got, result, judged>> BY <1>4 DEF JudgeSignature
 <2> QED BY <2>1, <1>2, AbortStep DEF readerVars
<1>5. CASE ~NoSubkey(Parsed)
 <2> HIDE DEF ps
 <2>1. Verdicts(Parsed) = <<v>> BY DEF Verdicts
 <2>2. v \in Lists BY DEF Lists
 <2>3. \A w : Contains(<<v>>, w) <=> w = v
  <3> HIDE DEF v
  <3> QED BY DEF Contains
 <2> HIDE DEF v
 <2>4. /\ got' = 0 /\ phase' = phase
       /\ judged' = judged \o [i \in DOMAIN <<v>> |-> <<at, <<v>>[i]>>]
       /\ result' = [w \in DOMAIN result |->
                       IF Contains(<<v>>, w) THEN AddSig(result[w], at, Scale(w))
                                             ELSE result[w]]
   BY <1>5, <2>1 DEF JudgeSignature
 <2>5. /\ result' = [w \in DOMAIN result |->
                       IF w = v THEN AddSig(result[w], at, Scale(w)) ELSE result[w]]
   BY <2>3, <2>4
 <2>6. key \in Nat /\ at \in Spots /\ key \in DOMAIN keys /\ DOMAIN ps = 1 .. Len(ps)
  <3>1. key \in Nat /\ key \in DOMAIN keys /\ DOMAIN ps = 1 .. Len(ps)
    BY <1>1, <1>3, TheKey DEF ps
  <3> QED BY <3>1, <1>3 DEF Spots
 <2>7. judged' = Append(judged, <<at, v>>)
  <3>1. [i \in DOMAIN <<v>> |-> <<at, <<v>>[i]>>] = << <<at, v>> >> OBVIOUS
  <3>2. judged \in Seq(Spots \X Lists) BY <1>1 DEF Typed
  <3>3. <<at, v>> \in Spots \X Lists BY <2>2, <2>6
  <3> QED BY <2>4, <3>1, <3>2, <3>3
 <2>8. at \in Places BY <2>6, <1>3 DEF Places, IsSignature, ps
 <2>9. /\ result' \in [Lists -> [count : Nat, sigs : Seq(Spots \cup {None})]]
       /\ \A w \in Lists :
            /\ Len(result'[w].sigs) = result'[w].count
            /\ result'[w].count = IF w = v THEN result[w].count + 1 ELSE result[w].count
  <3> DEFINE ListSet == [count : Nat, sigs : Seq(Spots \cup {None})]
  <3>1. result \in [Lists -> ListSet] /\ \A w \in Lists : Len(result[w].sigs) = result[w].count
    BY <1>1 DEF Typed
  <3>2. ASSUME NEW w \in Lists
        PROVE  LET l == IF w = v THEN AddSig(result[w], at, Scale(w)) ELSE result[w]
               IN  /\ l \in ListSet /\ Len(l.sigs) = l.count
                   /\ l.count = IF w = v THEN result[w].count + 1 ELSE result[w].count
   <4>1. result[w] \in ListSet /\ Len(result[w].sigs) = result[w].count BY <3>1
   <4>2. LET l == AddSig(result[w], at, Scale(w))
         IN  l \in ListSet /\ l.count = result[w].count + 1 /\ Len(l.sigs) = l.count
     BY <4>1, <2>6, AddSigFacts
   <4> QED BY <4>1, <4>2
  <3> HIDE DEF ListSet
  <3>3. DOMAIN result = Lists BY <3>1
  <3> QED BY <2>5, <3>2, <3>3 DEF ListSet
 <2>10. judged' \in Seq(Spots \X Lists)
  <3>1. judged \in Seq(Spots \X Lists) /\ <<at, v>> \in Spots \X Lists
    BY <1>1, <2>2, <2>6 DEF Typed
  <3> QED BY <2>7, <3>1, AppendProperties
 <2>11. Typed'
  <3> HIDE DEF at
  <3>1. /\ phase' \in {"reading", "validating", "done", "abort"}
        /\ stream' \in Seq(Packets) /\ Len(stream') <= MaxPackets
        /\ key' \in 0 .. Len(keys') /\ offset' \in 0 .. PacketLen
        /\ packet' \in Nat /\ content' \in Nat /\ carg' \in Args
        /\ crossed' = FALSE /\ status' \in BOOLEAN
    BY <2>4, <1>1, <1>2 DEF Typed
  <3>2. got' \in 0 .. PacketLen BY <2>4
  <3> QED BY <2>9, <2>10, <3>1, <3>2 DEF Typed
 <2>12. ReaderOK' BY <2>4, <1>1, <1>2, <1>3 DEF ReaderOK
 <2>13. Pos' = content + 1
  <3>1. packet \in Nat /\ packet' = packet /\ offset' = offset BY <1>1, <1>2 DEF Typed
  <3> QED BY <2>4, <3>1, <1>3 DEF Pos
 <2>14. RemembersLast'
  <3>1. ps[content].kind \notin KeyKinds \cup {"subkey", "user_id", "attribute"}
    BY <1>3 DEF KeyKinds, ps
  <3>2. \A kinds \in SUBSET (KeyKinds \cup {"subkey", "user_id", "attribute"}) :
          /\ NoneOf(kinds, ps, content) => NoneOf(kinds, ps, content + 1)
          /\ \A j : LastIs(kinds, ps, content, j) => LastIs(kinds, ps, content + 1, j)
   <4> HIDE DEF ps, at
   <4>1. content \in Nat \ {0} BY <1>3
   <4> QED BY <3>1, <4>1, LastMoves
  <3>3. {"subkey"} \in SUBSET (KeyKinds \cup {"subkey", "user_id", "attribute"})
        /\ {"user_id", "attribute"} \in SUBSET (KeyKinds \cup {"subkey", "user_id", "attribute"})
    OBVIOUS
  <3>4. content > 1
   <4>1. content = 1 <=> Parsed.kind \in KeyKinds BY <1>2, GotPacketFacts
   <4>2. content # 1 BY <4>1, <1>3 DEF KeyKinds
   <4> QED BY <4>2, <1>3
  <3>5. Remembers(carg, keys[key], content + 1)
   <4> HIDE DEF at
   <4> QED BY <3>2, <3>3, <3>4, <1>3 DEF Remembers, ps
  <3> QED BY <3>5, <2>13, <1>2 DEF RemembersLast
 <2>15. ASSUME NEW b \in Places
        PROVE  /\ Passed(b) <=> Precedes(b, at)
               /\ Passed(b)' <=> Passed(b) \/ b = at
  <3>1. b[1] \in Nat /\ b[2] \in Nat /\ b = <<b[1], b[2]>> BY <1>1, PlaceFacts
  <3>2. at[1] = key /\ at[2] = content OBVIOUS
  <3>3. b = at <=> b[1] = key /\ b[2] = content BY <3>1
  <3> HIDE DEF at
  <3>4. Passed(b) <=> b[1] < key \/ (b[1] = key /\ b[2] < content) BY <1>2, <1>3 DEF Passed
  <3>5. Passed(b)' <=> b[1] < key \/ (b[1] = key /\ b[2] < content + 1)
    BY <1>2, <2>4, <2>13 DEF Passed
  <3>6. Passed(b) <=> Precedes(b, at) BY <3>2, <3>4 DEF Precedes
  <3> QED BY <3>1, <3>3, <3>4, <3>5, <3>6, <2>6, <1>3
 <2>16. v = LET p == keys[at[1]].packets[at[2]]
            IN  IF ~KnownSigner(p) THEN "unknown"
                ELSE IF Genuine(at[1], at[2]) THEN "valid" ELSE "invalid"
  <3>1. at[1] = key /\ at[2] = content OBVIOUS
  <3> HIDE DEF at
  <3>2. KnownSigner(Parsed) => (Good(Parsed) <=> Genuine(key, content))
    BY <1>2, <1>5, GoodIffGenuine
  <3> QED BY <3>1, <3>2, <1>3 DEF v
 <2>17. Judgements'
  <3> HIDE DEF at
  <3>1. DOMAIN result = Lists /\ DOMAIN result' = Lists BY <1>1, <2>9 DEF Typed
  <3> QED BY <1>1, <1>2, <2>2, <2>7, <2>8, <2>9, <2>15, <2>16, <3>1, JudgementAdded
 <2> QED BY <2>11, <2>12, <2>14, <2>17, <1>1, <1>2, KeysSame DEF KeyInv
<1> QED BY <1>4, <1>5

-----------------------------------------------------------------------------
(* The invariant and what follows from it. *)

\* At first there is nothing.
LEMMA InvInit == ASSUME Init PROVE KeyInv
<1>1. Typed
 <2>1. NoArg \in Args BY DEF NoArg, Args
 <2>2. NoList \in [count : Nat, sigs : Seq(Spots \cup {None})] /\ Len(NoList.sigs) = NoList.count
   BY DEF NoList
 <2>3. result = [v \in Lists |-> NoList] BY DEF Init, Lists
 <2> HIDE DEF NoList, NoArg
 <2>4. /\ result \in [Lists -> [count : Nat, sigs : Seq(Spots \cup {None})]]
       /\ \A v \in Lists : Len(result[v].sigs) = result[v].count
   BY <2>2, <2>3
 <2>5. stream \in Seq(Packets) /\ Len(stream) = 0 /\ Len(keys) = 0
       /\ judged \in Seq(Spots \X Lists)
   BY DEF Init
 <2>6. /\ phase = "reading" /\ key = 0 /\ offset = 0 /\ got = 0 /\ packet = 0 /\ content = 0
       /\ carg \in Args /\ crossed = FALSE /\ status = FALSE
   BY <2>1 DEF Init
 <2>7. /\ phase \in {"reading", "validating", "done", "abort"} /\ Len(stream) <= MaxPackets
       /\ key \in 0 .. Len(keys) /\ offset \in 0 .. PacketLen /\ got \in 0 .. PacketLen
       /\ packet \in Nat /\ content \in Nat /\ status \in BOOLEAN
  <3>1. PacketLen \in Nat /\ MaxPackets \in Nat OBVIOUS
  <3>2. status \in BOOLEAN /\ phase \in {"reading", "validating", "done", "abort"} BY <2>6
  <3>3. key \in 0 .. Len(keys) /\ Len(stream) <= MaxPackets BY <3>1, <2>5, <2>6
  <3>4. offset \in 0 .. PacketLen /\ got \in 0 .. PacketLen
        /\ packet \in Nat /\ content \in Nat
    BY <3>1, <2>6
  <3> QED BY <3>2, <3>3, <3>4
 <2> QED BY <2>4, <2>5, <2>6, <2>7 DEF Typed
<1>2. KeysOK /\ keys = <<>> /\ DOMAIN keys = {} /\ Len(keys) = 0 BY DEF Init, KeysOK
<1>3. KeysPartitionStream
 <2>1. Firsts = {} BY DEF Firsts, OfKind, Init
 <2>2. Cardinality(Firsts) = 0 BY <2>1, FS_EmptySet
 <2> QED BY <2>1, <2>2, <1>2 DEF KeysPartitionStream
<1>4. ReaderOK BY DEF Init, ReaderOK
<1>5. RemembersLast BY DEF Init, RemembersLast
<1>6. Places = {} BY <1>2 DEF Places
<1>7. judged = <<>> /\ DOMAIN judged = {} BY DEF Init
<1>8. PassedJudged /\ InTurn /\ ValidIffGenuine
  BY <1>6, <1>7 DEF PassedJudged, InTurn, ValidIffGenuine
<1>9. CountsAddUp
 <2>1. \A v : Judged(v) = {} BY <1>7 DEF Judged
 <2>2. \A v \in DOMAIN result : result[v].count = 0 BY DEF Init, NoList
 <2>3. Cardinality({}) = 0 BY FS_EmptySet
 <2> QED BY <2>1, <2>2, <2>3 DEF CountsAddUp
<1> QED BY <1>1, <1>2, <1>3, <1>4, <1>5, <1>8, <1>9 DEF KeyInv, Judgements

\* A step that changes nothing keeps it.
LEMMA StutterStep == ASSUME KeyInv, UNCHANGED vars PROVE KeyInv'
<1>1. UNCHANGED <<phase, stream, keys, key, packet, offset, got, content, carg, result,
                  judged, crossed, status>>
  BY DEF vars, readerVars
<1>2. Typed' /\ ReaderOK' BY <1>1 DEF KeyInv, Typed, ReaderOK
<1>3. Pos' = Pos BY <1>1 DEF Pos
<1>4. RemembersLast' BY <1>1, <1>3 DEF KeyInv, RemembersLast
<1>5. \A at \in Places : Passed(at)' <=> Passed(at) BY <1>1, <1>3 DEF Passed
<1>6. Judgements' BY <1>1, <1>5, JudgementsSame DEF KeyInv
<1> QED BY <1>1, <1>2, <1>4, <1>6, KeysSame DEF KeyInv

\* The two counts of the units agree, and what is remembered and what is judged is of
\* the packets that were passed, in every reachable state.
THEOREM Invariance == Spec => []KeyInv
<1>1. Init => KeyInv BY InvInit
<1>2. KeyInv /\ [Next]_vars => KeyInv'
 <2> SUFFICES ASSUME KeyInv, [Next]_vars PROVE KeyInv' OBVIOUS
 <2>1. CASE \E p \in Packets : ReadPacket(p) BY <2>1, ReadPacketStep
 <2>2. CASE StartValidation BY <2>2, StartValidationStep
 <2>3. CASE \E n \in 1 .. PacketLen : ReadData(n) BY <2>3, ReadDataStep
 <2>4. CASE ReadEOF BY <2>4, ReadEOFStep
 <2>5. CASE Remember BY <2>5, RememberStep
 <2>6. CASE NoPassphrase
  <3>1. /\ phase = "validating" /\ phase' = "abort"
        /\ UNCHANGED <<stream, keys, key, readerVars, carg, result, judged, crossed, status>>
    BY <2>6 DEF NoPassphrase, GotPacket, readerVars
  <3> QED BY <3>1, AbortStep
 <2>7. CASE JudgeSignature BY <2>7, JudgeSignatureStep
 <2>8. CASE UNCHANGED vars BY <2>8, StutterStep
 <2> QED BY <2>1, <2>2, <2>3, <2>4, <2>5, <2>6, <2>7, <2>8 DEF Next
<1> QED BY <1>1, <1>2, PTL DEF Spec

\* keydata_reader stays in the packets of the key that is validated, the parser's count
\* of what it has read never exceeds a packet, and the counts of the lists are those of
\* their arrays.
THEOREM KeysTypeCorrect == Spec => []TypeOK
<1>1. KeyInv => TypeOK
 <2> SUFFICES ASSUME KeyInv PROVE TypeOK OBVIOUS
 <2>1. Typed /\ KeysOK /\ ReaderOK BY DEF KeyInv
 <2>2. DOMAIN result = Lists BY <2>1 DEF Typed
 <2>3. /\ phase \in {"reading", "validating", "done", "abort"}
       /\ stream \in Seq(Packets) /\ Len(stream) <= MaxPackets
       /\ key \in 0 .. Len(keys) /\ offset \in 0 .. PacketLen /\ got \in 0 .. PacketLen
       /\ crossed \in BOOLEAN /\ status \in BOOLEAN
       /\ \A v \in DOMAIN result : Len(result[v].sigs) = result[v].count
   BY <2>1, <2>2 DEF Typed
 <2>4. packet \in Nat /\ content \in Nat BY <2>1 DEF Typed
 <2>5. /\ packet \in 0 .. (IF key = 0 THEN 0 ELSE Len(keys[key].packets))
       /\ content \in 0 .. (IF key = 0 THEN 0 ELSE Len(keys[key].packets))
  <3>1. CASE phase \in {"reading", "done"}
   <4>1. packet = 0 /\ content = 0 BY <3>1, <2>1 DEF ReaderOK
   <4>2. key # 0 => Len(keys[key].packets) \in Nat
    <5>1. Len(keys) \in Nat BY <2>1, LenProperties DEF KeysOK
    <5>2. key # 0 => key > 0 BY <5>1, <2>3
    <5> QED BY <5>2, <2>1, TheKey
   <4> QED BY <4>1, <4>2
  <3>2. CASE phase \in {"validating", "abort"}
   <4>1. key > 0 /\ packet < Len(keys[key].packets) /\ content <= Len(keys[key].packets)
     BY <3>2, <2>1 DEF ReaderOK
   <4>2. Len(keys[key].packets) \in Nat /\ key \in Nat BY <4>1, <2>1, TheKey
   <4> DEFINE l == Len(keys[key].packets)
   <4> HIDE DEF l
   <4>3. packet < l /\ content <= l /\ l \in Nat BY <4>1, <4>2 DEF l
   <4>4. packet \in 0 .. l /\ content \in 0 .. l BY <4>3, <2>4
   <4> QED BY <4>1, <4>2, <4>4 DEF l
  <3> QED BY <3>1, <3>2, <2>3
 <2> QED BY <2>3, <2>5 DEF TypeOK
<1> QED BY <1>1, Invariance, PTL

\* However many packets come and of whatever kinds, the keys of a ring are the packets
\* of the stream, shared among them at those that begin a key (accumulate_cb), and the
\* user IDs of a key are those of its packets.
THEOREM KeysShareTheStream == Spec => []KeysPartitionStream
<1>1. KeyInv => KeysPartitionStream BY DEF KeyInv
<1> QED BY <1>1, Invariance, PTL

\* In the end every signature is judged, and what is returned says whether all are good.
LEMMA DoneFollows ==
  ASSUME KeyInv, phase = "done"
  PROVE  /\ \A at \in Places : \E n \in DOMAIN judged : judged[n][1] = at
         /\ status = (judged # <<>> /\ Judged("valid") = DOMAIN judged)
<1>1. Typed /\ KeysOK /\ PassedJudged /\ CountsAddUp
      /\ key = Len(keys) /\ status = Status(result)
  BY DEF KeyInv, Judgements, ReaderOK
<1>2. ASSUME NEW at \in Places PROVE Passed(at)
 <2>1. at[1] \in 1 .. Len(keys) /\ at[1] \in Nat BY <1>1, PlaceFacts
 <2>2. Len(keys) \in Nat BY <1>1, LenProperties DEF KeysOK
 <2> QED BY <2>1, <2>2, <1>1 DEF Passed
<1>3. \A at \in Places : \E n \in DOMAIN judged : judged[n][1] = at BY <1>1, <1>2 DEF PassedJudged
<1>4. judged \in Seq(Spots \X Lists) /\ Len(judged) \in Nat /\ DOMAIN judged = 1 .. Len(judged)
  BY <1>1, LenProperties DEF Typed
<1>5. \A n \in DOMAIN judged : judged[n][2] \in Lists BY <1>4, ElementOfSeq
<1>6. \A v \in Lists : Judged(v) \in SUBSET (1 .. Len(judged)) BY <1>4 DEF Judged
<1>7. ASSUME NEW v \in Lists
      PROVE  result[v].count \in Nat /\ (result[v].count = 0 <=> Judged(v) = {})
 <2>1. result[v].count = Cardinality(Judged(v)) BY <1>1 DEF Typed, CountsAddUp
 <2>2. IsFiniteSet(Judged(v)) /\ Cardinality(Judged(v)) \in Nat BY <1>4, <1>6, BoundedIsFinite
 <2> QED BY <2>1, <2>2, FS_EmptySet
<1>8. Status(result) <=> /\ Judged("invalid") = {} /\ Judged("unknown") = {}
                         /\ Judged("valid") # {}
 <2>1. {"valid", "invalid", "unknown"} \subseteq Lists BY DEF Lists
 <2> HIDE DEF Judged
 <2>2. /\ result["invalid"].count = 0 <=> Judged("invalid") = {}
       /\ result["unknown"].count = 0 <=> Judged("unknown") = {}
       /\ result["valid"].count > 0 <=> Judged("valid") # {}
   BY <2>1, <1>7
 <2> QED BY <2>2 DEF Status
<1>9. /\ Judged("invalid") = {} /\ Judged("unknown") = {} /\ Judged("valid") # {}
      <=> (judged # <<>> /\ Judged("valid") = DOMAIN judged)
 <2>1. judged # <<>> <=> DOMAIN judged # {}
  <3>1. judged = <<>> <=> Len(judged) = 0 BY <1>4, EmptySeq
  <3>2. Len(judged) # 0 => 1 \in 1 .. Len(judged) BY <1>4
  <3>3. Len(judged) = 0 => 1 .. Len(judged) = {} BY <1>4
  <3> QED BY <3>1, <3>2, <3>3, <1>4
 <2>2. /\ Judged("invalid") = {} /\ Judged("unknown") = {}
       <=> Judged("valid") = DOMAIN judged
   BY <1>5 DEF Judged, Lists
 <2> HIDE DEF Judged
 <2> QED BY <2>1, <2>2
<1>10. Status(result) \in BOOLEAN BY DEF Status
<1> HIDE DEF Judged
<1> QED BY <1>1, <1>3, <1>8, <1>9, <1>10

\* ops_validate_all_signatures judges the signatures in order, each once, counts them
\* right and returns what the counts say; a signature is valid exactly when it was made
\* over what is before it in the key; and no read of keydata_reader is across a packet.
THEOREM SignaturesJudgedRight == Spec => []JudgedRight
<1>1. KeyInv => JudgedRight
 <2> SUFFICES ASSUME KeyInv PROVE JudgedRight OBVIOUS
 <2>1. InTurn /\ CountsAddUp /\ ValidIffGenuine BY DEF KeyInv, Judgements
 <2>2. NeverCrosses BY DEF KeyInv, Typed, NeverCrosses
 <2> QED BY <2>1, <2>2, DoneFollows DEF JudgedRight, JudgedInOrder
<1> QED BY <1>1, Invariance, PTL

HIDE KeyValidationAssumption DEF KeyValidationAssumption

-----------------------------------------------------------------------------
(* Sequences of anything. *)

IsSequence(s) == s \in Seq(Range(s))

LEMMA SequenceOf ==
  ASSUME NEW S, NEW s \in Seq(S) PROVE IsSequence(s)
BY SeqOfRange DEF IsSequence

LEMMA SequenceMade ==
  ASSUME NEW n \in Nat, NEW f, f = [k \in 1 .. n |-> f[k]] PROVE IsSequence(f) /\ Len(f) = n
<1> DEFINE S == {f[k] : k \in 1 .. n}
<1>1. f \in [1 .. n -> S]
 <2>1. \A k \in 1 .. n : f[k] \in S OBVIOUS
 <2> HIDE DEF S
 <2> QED BY <2>1
<1>2. f \in Seq(S) BY <1>1, SeqDef
<1> QED BY <1>1, <1>2, SequenceOf

LEMMA SequenceEmpty == IsSequence(<<>>) /\ Len(<<>>) = 0
<1>1. <<>> \in Seq({}) OBVIOUS
<1> QED BY <1>1, SequenceOf

LEMMA SequenceFacts ==
  ASSUME NEW s, IsSequence(s)
  PROVE  Len(s) \in Nat /\ DOMAIN s = 1 .. Len(s) /\ (Len(s) = 0 <=> s = <<>>)
<1>1. s \in Seq(Range(s)) BY DEF IsSequence
<1> HIDE DEF IsSequence
<1>2. Len(s) \in Nat /\ DOMAIN s = 1 .. Len(s) BY <1>1, LenProperties
<1>3. Len(s) = 0 <=> s = <<>> BY <1>1, EmptySeq
<1> QED BY <1>2, <1>3

\* Two sequences, three even, have a set in common.
LEMMA SequenceCommon ==
  ASSUME NEW s, NEW t, NEW u, IsSequence(s), IsSequence(t), IsSequence(u)
  PROVE  \E S : s \in Seq(S) /\ t \in Seq(S) /\ u \in Seq(S)
<1> DEFINE S == Range(s) \cup Range(t) \cup Range(u)
<1>1. Range(s) \subseteq S /\ Range(t) \subseteq S /\ Range(u) \subseteq S OBVIOUS
<1>2. s \in Seq(Range(s)) /\ t \in Seq(Range(t)) /\ u \in Seq(Range(u)) BY DEF IsSequence
<1> HIDE DEF S
<1>3. s \in Seq(S) /\ t \in Seq(S) /\ u \in Seq(S) BY <1>1, <1>2, SeqMonotonic
<1> QED BY <1>3

LEMMA SequenceConcat ==
  ASSUME NEW s, NEW t, IsSequence(s), IsSequence(t)
  PROVE  /\ IsSequence(s \o t) /\ Len(s \o t) = Len(s) + Len(t)
         /\ s \o <<>> = s /\ <<>> \o s = s
<1>1. PICK S : s \in Seq(S) /\ t \in Seq(S) BY SequenceCommon
<1>2. s \o t \in Seq(S) /\ Len(s \o t) = Len(s) + Len(t) BY <1>1, ConcatProperties
<1>3. s \o <<>> = s /\ <<>> \o s = s BY <1>1, ConcatEmptySeq
<1> QED BY <1>2, <1>3, SequenceOf

LEMMA SequenceAssociative ==
  ASSUME NEW s, NEW t, NEW u, IsSequence(s), IsSequence(t), IsSequence(u)
  PROVE  (s \o t) \o u = s \o (t \o u)
<1>1. PICK S : s \in Seq(S) /\ t \in Seq(S) /\ u \in Seq(S) BY SequenceCommon
<1> QED BY <1>1, ConcatAssociative

LEMMA SequenceAppend ==
  ASSUME NEW s, NEW e, IsSequence(s)
  PROVE  /\ IsSequence(Append(s, e)) /\ Append(s, e) # <<>>
         /\ Len(Append(s, e)) = Len(s) + 1
         /\ \A i \in 1 .. Len(s) : Append(s, e)[i] = s[i]
         /\ Append(s, e)[Len(s) + 1] = e
         /\ Append(s, e) = s \o <<e>> /\ IsSequence(<<e>>)
<1> DEFINE S == Range(s) \cup {e}
<1>1. Range(s) \subseteq S /\ e \in S OBVIOUS
<1>2. s \in Seq(Range(s)) BY DEF IsSequence
<1> HIDE DEF S
<1>3. s \in Seq(S) BY <1>1, <1>2, SeqMonotonic
<1>4. /\ Append(s, e) \in Seq(S) /\ Append(s, e) # <<>>
      /\ Len(Append(s, e)) = Len(s) + 1
      /\ \A i \in 1 .. Len(s) : Append(s, e)[i] = s[i]
      /\ Append(s, e)[Len(s) + 1] = e
  BY <1>1, <1>3, AppendProperties
<1>5. Append(s, e) = s \o <<e>> BY <1>1, <1>3, AppendIsConcat
<1>6. <<e>> \in Seq(S) BY <1>1
<1> QED BY <1>4, <1>5, <1>6, SequenceOf

-----------------------------------------------------------------------------
(* FlattenSeq and the fold of linebreak_writer are defined by recursion.  What *)
(* they do is shown with the least place where they would not.                 *)

LEMMA Smallest ==
  ASSUME NEW T, T \subseteq Nat, T # {} PROVE \E n \in T : \A m \in T : n <= m
<1>1. PICK n \in T : \A m \in T : ~ (<<m, n>> \in OpToRel(<, Nat))
  BY NatLessThanWellFounded, WFMin
<1>2. \A m \in T : ~ (m < n) BY <1>1 DEF OpToRel
<1> QED BY <1>2

\* What FlattenSeq has put together up to every place.
Joins(f, s, n) == \A i \in 1 .. n : f[i] = IF i = 1 THEN s[i] ELSE f[i - 1] \o s[i]

LEMMA JoinsType ==
  ASSUME NEW S, NEW s \in Seq(Seq(S)), NEW f, NEW n \in 0 .. Len(s), Joins(f, s, n)
  PROVE  \A i \in 1 .. n : f[i] \in Seq(S)
<1> SUFFICES ASSUME NEW k \in 1 .. n, f[k] \notin Seq(S) PROVE FALSE OBVIOUS
<1> DEFINE Wrong == {i \in 1 .. n : f[i] \notin Seq(S)}
<1>1. PICK i \in Wrong : \A m \in Wrong : i <= m
 <2>1. Wrong \subseteq Nat /\ k \in Wrong OBVIOUS
 <2> QED BY <2>1, Smallest
<1>2. i \in 1 .. n /\ f[i] \notin Seq(S) /\ s[i] \in Seq(S)
 <2>1. i \in 1 .. n /\ f[i] \notin Seq(S) OBVIOUS
 <2>2. n <= Len(s) /\ Len(s) \in Nat OBVIOUS
 <2> QED BY <2>1, <2>2
<1>3. CASE i = 1 BY <1>2, <1>3 DEF Joins
<1>4. CASE i # 1
 <2>1. i - 1 \in 1 .. n BY <1>2, <1>4
 <2>2. f[i - 1] \in Seq(S)
  <3> SUFFICES ASSUME f[i - 1] \notin Seq(S) PROVE FALSE OBVIOUS
  <3>1. i - 1 \in Wrong BY <2>1
  <3>2. i <= i - 1 BY <1>1, <3>1
  <3> QED BY <3>2, <1>2
 <2>3. f[i] = f[i - 1] \o s[i] BY <1>2, <1>4 DEF Joins
 <2>4. f[i - 1] \o s[i] \in Seq(S) BY <2>2, <1>2
 <2> QED BY <2>3, <2>4, <1>2
<1> QED BY <1>3, <1>4

LEMMA JoinsExists ==
  ASSUME NEW S, NEW s \in Seq(Seq(S)), NEW n \in 1 .. Len(s)
  PROVE  \E f \in [1 .. n -> Seq(S)] : Joins(f, s, n)
<1> DEFINE Wrong == {k \in 1 .. Len(s) : ~ \E f \in [1 .. k -> Seq(S)] : Joins(f, s, k)}
<1> SUFFICES ASSUME n \in Wrong PROVE FALSE OBVIOUS
<1>1. PICK k \in Wrong : \A m \in Wrong : k <= m
 <2>1. Wrong \subseteq Nat OBVIOUS
 <2> QED BY <2>1, Smallest
<1>2. k \in 1 .. Len(s) /\ s[k] \in Seq(S) /\ k \in Nat
 <2>1. k \in 1 .. Len(s) /\ Len(s) \in Nat OBVIOUS
 <2> QED BY <2>1
<1>3. CASE k = 1
 <2> DEFINE g == [i \in 1 .. k |-> s[i]]
 <2>1. g \in [1 .. k -> Seq(S)] BY <1>2, <1>3
 <2>2. Joins(g, s, k) BY <1>3 DEF Joins
 <2> QED BY <2>1, <2>2
<1>4. CASE k # 1
 <2>1. k - 1 \in 1 .. Len(s) /\ k - 1 \notin Wrong
  <3>1. k - 1 \in 1 .. Len(s) BY <1>2, <1>4
  <3>2. ASSUME k - 1 \in Wrong PROVE FALSE
   <4>1. k <= k - 1 BY <1>1, <3>2
   <4> QED BY <4>1, <1>2
  <3> QED BY <3>1, <3>2
 <2>2. PICK f \in [1 .. k - 1 -> Seq(S)] : Joins(f, s, k - 1) BY <2>1
 <2> DEFINE g == [i \in 1 .. k |-> IF i = k THEN f[k - 1] \o s[k] ELSE f[i]]
 <2>3. f[k - 1] \in Seq(S) BY <2>1, <2>2, <1>2
 <2>4. f[k - 1] \o s[k] \in Seq(S) BY <2>3, <1>2
 <2>5. g \in [1 .. k -> Seq(S)]
  <3> SUFFICES ASSUME NEW i \in 1 .. k PROVE g[i] \in Seq(S) OBVIOUS
  <3>1. CASE i = k BY <3>1, <2>4
  <3>2. CASE i # k
   <4>1. i \in 1 .. k - 1 BY <3>2, <1>2
   <4> QED BY <3>2, <4>1, <2>2
  <3> QED BY <3>1, <3>2
 <2>6. Joins(g, s, k)
  <3> SUFFICES ASSUME NEW i \in 1 .. k
               PROVE  g[i] = IF i = 1 THEN s[i] ELSE g[i - 1] \o s[i]
    BY DEF Joins
  <3>1. CASE i = k
   <4>1. k - 1 \in 1 .. k /\ k - 1 # k /\ k \in 1 .. k BY <2>1, <1>2
   <4>2. g[k - 1] = f[k - 1] /\ g[k] = f[k - 1] \o s[k] BY <4>1
   <4> QED BY <3>1, <4>2, <1>4
  <3>2. CASE i # k
   <4>1. i \in 1 .. k - 1 /\ (i # 1 => i - 1 \in 1 .. k /\ i - 1 # k) BY <3>2, <1>2
   <4>2. g[i] = f[i] /\ (i # 1 => g[i - 1] = f[i - 1]) BY <3>2, <4>1
   <4>3. f[i] = IF i = 1 THEN s[i] ELSE f[i - 1] \o s[i] BY <4>1, <2>2 DEF Joins
   <4> QED BY <4>2, <4>3
  <3> QED BY <3>1, <3>2
 <2> QED BY <2>5, <2>6
<1> QED BY <1>3, <1>4

LEMMA FlattenIsJoin ==
  ASSUME NEW S, NEW s \in Seq(Seq(S)), Len(s) # 0
  PROVE  \E f : Joins(f, s, Len(s)) /\ Writer!FlattenSeq(s) = f[Len(s)]
<1> DEFINE P(f) == f = [i \in 1 .. Len(s) |-> IF i = 1 THEN s[i] ELSE f[i - 1] \o s[i]]
<1>1. Len(s) \in 1 .. Len(s) /\ Len(s) \in Nat OBVIOUS
<1>2. PICK g \in [1 .. Len(s) -> Seq(S)] : Joins(g, s, Len(s)) BY <1>1, JoinsExists
<1>3. g = [i \in 1 .. Len(s) |-> g[i]] OBVIOUS
<1>4. P(g)
 <2> DEFINE h == [i \in 1 .. Len(s) |-> IF i = 1 THEN s[i] ELSE g[i - 1] \o s[i]]
 <2>1. \A i \in 1 .. Len(s) : g[i] = h[i] BY <1>2 DEF Joins
 <2>2. h = [i \in 1 .. Len(s) |-> h[i]] OBVIOUS
 <2>3. g = h BY <2>1, <2>2, <1>3
 <2> QED BY <2>3
<1> DEFINE f == CHOOSE x : P(x)
<1>5. P(f) BY <1>4
<1>6. Joins(f, s, Len(s)) BY <1>5 DEF Joins
<1>7. Writer!FlattenSeq(s) = f[Len(s)] BY <1>1 DEF Writer!FlattenSeq
<1> QED BY <1>6, <1>7

\* FlattenSeq puts one part after the other.
LEMMA FlattenType ==
  ASSUME NEW S, NEW s \in Seq(Seq(S)) PROVE Writer!FlattenSeq(s) \in Seq(S)
<1>1. CASE Len(s) = 0
 <2>1. s = <<>> BY <1>1
 <2>2. <<>> \in Seq(S) OBVIOUS
 <2> QED BY <1>1, <2>1, <2>2 DEF Writer!FlattenSeq
<1>2. CASE Len(s) # 0
 <2>1. PICK f : Joins(f, s, Len(s)) /\ Writer!FlattenSeq(s) = f[Len(s)] BY <1>2, FlattenIsJoin
 <2>2. Len(s) \in 1 .. Len(s) /\ Len(s) \in 0 .. Len(s) BY <1>2
 <2> QED BY <2>1, <2>2, JoinsType
<1> QED BY <1>1, <1>2

LEMMA FlattenSequence ==
  ASSUME NEW s, IsSequence(s), \A i \in 1 .. Len(s) : IsSequence(s[i])
  PROVE  IsSequence(Writer!FlattenSeq(s))
<1> DEFINE S == UNION {Range(s[i]) : i \in 1 .. Len(s)}
<1>1. \A i \in 1 .. Len(s) : s[i] \in Seq(S)
 <2> TAKE i \in 1 .. Len(s)
 <2>1. s[i] \in Seq(Range(s[i])) BY DEF IsSequence
 <2>2. Range(s[i]) \subseteq S OBVIOUS
 <2> HIDE DEF S
 <2> QED BY <2>1, <2>2, SeqMonotonic
<1> HIDE DEF S
<1>2. s \in Seq(Seq(S))
 <2>1. s \in Seq(Range(s)) BY DEF IsSequence
 <2>2. s \in [1 .. Len(s) -> Range(s)] /\ Len(s) \in Nat BY <2>1, LenProperties
 <2>3. s \in [1 .. Len(s) -> Seq(S)] BY <1>1, <2>2
 <2> QED BY <2>2, <2>3, SeqDef
<1>3. Writer!FlattenSeq(s) \in Seq(S) BY <1>2, FlattenType
<1> QED BY <1>3, SequenceOf

-----------------------------------------------------------------------------
(* linebreak_writer *)

\* Columns, and what goes out, of characters of a set.
Lines(S) == [column : 0 .. BreakPos, out : Seq(S)]

LEMMA BreakType ==
  ASSUME NEW S, CR \in S, NL \in S, NEW b \in Lines(S), NEW c \in S
  PROVE  Writer!Break(b, c) \in Lines(S)
<1> DEFINE at == IF c \in {CR, NL} THEN 0 ELSE b.column
<1>1. BreakPos \in Nat \ {0} BY ArmourAssumption
<1>2. b.column \in 0 .. BreakPos /\ b.out \in Seq(S) BY DEF Lines
<1>3. at \in 0 .. BreakPos BY <1>1, <1>2
<1>4. Writer!CR = CR /\ Writer!NL = NL /\ Writer!Newline = <<CR, NL>>
  BY DEF Writer!CR, Writer!NL, Writer!Newline, CR, NL
<1> HIDE DEF CR, NL
<1>5. Writer!Break(b, c) = IF at = BreakPos
                             THEN [column |-> 1, out |-> b.out \o <<CR, NL>> \o <<c>>]
                             ELSE [column |-> at + 1, out |-> Append(b.out, c)]
  BY <1>4 DEF Writer!Break
<1> HIDE DEF at
<1>6. CASE at = BreakPos
 <2>1. b.out \o <<CR, NL>> \o <<c>> \in Seq(S)
  <3>1. <<CR, NL>> \in Seq(S) /\ <<c>> \in Seq(S) OBVIOUS
  <3>2. b.out \o <<CR, NL>> \in Seq(S) BY <1>2, <3>1, ConcatProperties
  <3> QED BY <3>1, <3>2, ConcatProperties
 <2>2. 1 \in 0 .. BreakPos BY <1>1
 <2> QED BY <1>5, <1>6, <2>1, <2>2 DEF Lines
<1>7. CASE at # BreakPos
 <2>1. Append(b.out, c) \in Seq(S) BY <1>2
 <2>2. at + 1 \in 0 .. BreakPos BY <1>1, <1>3, <1>7
 <2> QED BY <1>5, <1>7, <2>1, <2>2 DEF Lines
<1> QED BY <1>6, <1>7

LEMMA LargestIs ==
  ASSUME NEW k \in Nat, NEW s \in SUBSET (1 .. k + 1), k + 1 \in s
  PROVE  Writer!Max(s) = k + 1
<1>1. \A y \in s : k + 1 >= y OBVIOUS
<1>2. \A x \in s : (\A y \in s : x >= y) => x = k + 1 OBVIOUS
<1> QED BY <1>1, <1>2 DEF Writer!Max

\* The fold up to the largest place of a set of places.
Folds(f, base, cs, k) ==
  \A s \in SUBSET (1 .. k) :
    f[s] = IF s = {} THEN base
           ELSE Writer!Break(f[s \ {Writer!Max(s)}], cs[Writer!Max(s)])

LEMMA FoldsExists ==
  ASSUME NEW S, CR \in S, NL \in S, NEW cs \in Seq(S), NEW base \in Lines(S),
         NEW n \in 0 .. Len(cs)
  PROVE  \E f \in [SUBSET (1 .. n) -> Lines(S)] : Folds(f, base, cs, n)
<1> DEFINE Wrong == {k \in 0 .. Len(cs) :
                       ~ \E f \in [SUBSET (1 .. k) -> Lines(S)] : Folds(f, base, cs, k)}
<1> SUFFICES ASSUME n \in Wrong PROVE FALSE OBVIOUS
<1>0. Len(cs) \in Nat OBVIOUS
<1>1. PICK k \in Wrong : \A m \in Wrong : k <= m
 <2>1. Wrong \subseteq Nat BY <1>0
 <2> QED BY <2>1, Smallest
<1>2. k \in 0 .. Len(cs) OBVIOUS
<1>3. CASE k = 0
 <2> DEFINE g == [s \in SUBSET (1 .. k) |-> base]
 <2>1. g \in [SUBSET (1 .. k) -> Lines(S)] OBVIOUS
 <2>2. \A s \in SUBSET (1 .. k) : s = {} /\ g[s] = base BY <1>3
 <2>3. Folds(g, base, cs, k) BY <2>2 DEF Folds
 <2> QED BY <2>1, <2>3
<1>4. CASE k # 0
 <2> DEFINE j == k - 1
 <2>1. j \in 0 .. Len(cs) /\ j \in Nat /\ j + 1 = k /\ k \in 1 .. Len(cs) BY <1>0, <1>2, <1>4
 <2>2. j \notin Wrong
  <3> SUFFICES ASSUME j \in Wrong PROVE FALSE OBVIOUS
  <3>1. k <= j BY <1>1
  <3> QED BY <2>1, <3>1
 <2>3. PICK f \in [SUBSET (1 .. j) -> Lines(S)] : Folds(f, base, cs, j) BY <2>1, <2>2
 <2> HIDE DEF j
 <2>4. cs[k] \in S BY <2>1, ElementOfSeq
 <2> DEFINE g == [s \in SUBSET (1 .. k) |->
                    IF k \in s THEN Writer!Break(f[s \ {k}], cs[k]) ELSE f[s]]
 <2>5. \A s \in SUBSET (1 .. k) :
         /\ s \ {k} \in SUBSET (1 .. j) /\ k \notin s \ {k}
         /\ k \notin s => s \in SUBSET (1 .. j)
  <3>1. \A i \in 1 .. k : i # k => i \in 1 .. j BY <2>1
  <3> QED BY <3>1
 <2>6. g \in [SUBSET (1 .. k) -> Lines(S)]
  <3> SUFFICES ASSUME NEW s \in SUBSET (1 .. k)
               PROVE  (IF k \in s THEN Writer!Break(f[s \ {k}], cs[k]) ELSE f[s]) \in Lines(S)
    OBVIOUS
  <3>1. CASE k \in s
   <4>1. f[s \ {k}] \in Lines(S) BY <2>3, <2>5
   <4> QED BY <3>1, <4>1, <2>4, BreakType
  <3>2. CASE k \notin s BY <3>2, <2>3, <2>5
  <3> QED BY <3>1, <3>2
 <2>7. Folds(g, base, cs, k)
  <3> SUFFICES ASSUME NEW s \in SUBSET (1 .. k)
               PROVE  g[s] = IF s = {} THEN base
                             ELSE Writer!Break(g[s \ {Writer!Max(s)}], cs[Writer!Max(s)])
    BY DEF Folds
  <3>1. CASE k \in s
   <4>1. Writer!Max(s) = k BY <2>1, <3>1, LargestIs
   <4>2. s \ {k} \in SUBSET (1 .. k) /\ k \notin s \ {k} OBVIOUS
   <4>3. g[s \ {k}] = f[s \ {k}] BY <4>2
   <4>4. g[s] = Writer!Break(f[s \ {k}], cs[k]) BY <3>1
   <4>5. s # {} BY <3>1
   <4> QED BY <4>1, <4>3, <4>4, <4>5
  <3>2. CASE k \notin s
   <4> DEFINE x == Writer!Max(s)
   <4>1. s \in SUBSET (1 .. j) /\ s \ {x} \in SUBSET (1 .. k) /\ k \notin s \ {x} BY <3>2, <2>5
   <4>2. g[s] = f[s] /\ g[s \ {x}] = f[s \ {x}] BY <3>2, <4>1
   <4>3. f[s] = IF s = {} THEN base ELSE Writer!Break(f[s \ {x}], cs[x])
     BY <2>3, <4>1 DEF Folds
   <4> HIDE DEF x
   <4>4. g[s] = IF s = {} THEN base ELSE Writer!Break(g[s \ {x}], cs[x]) BY <4>2, <4>3
   <4> QED BY <4>4 DEF x
  <3> QED BY <3>1, <3>2
 <2> QED BY <2>6, <2>7
<1> QED BY <1>3, <1>4

\* linebreak_writer keeps its column and adds nothing but line ends.
LEMMA BreakFold ==
  ASSUME NEW cs, IsSequence(cs), NEW c \in 0 .. BreakPos
  PROVE  Writer!FoldLeft(Writer!Break, [column |-> c, out |-> <<>>], cs)
           \in Lines(Range(cs) \cup {CR, NL})
<1> DEFINE S    == Range(cs) \cup {CR, NL}
           base == [column |-> c, out |-> <<>>]
           n    == Len(cs)
<1>1. cs \in Seq(S) /\ CR \in S /\ NL \in S
 <2>1. cs \in Seq(Range(cs)) /\ Range(cs) \subseteq S /\ CR \in S /\ NL \in S BY DEF IsSequence
 <2> HIDE DEF S
 <2> QED BY <2>1, SeqMonotonic
<1> HIDE DEF S
<1>2. base \in Lines(S) BY DEF Lines
<1>3. n \in Nat /\ DOMAIN cs = 1 .. n /\ n \in 0 .. n BY <1>1
<1> HIDE DEF base, n
<1> DEFINE P(f) == f = [s \in SUBSET (1 .. n) |->
                          IF s = {} THEN base
                          ELSE Writer!Break(f[s \ {Writer!Max(s)}], cs[Writer!Max(s)])]
           f == CHOOSE x : P(x)
<1>4. Writer!FoldLeft(Writer!Break, base, cs) = f[1 .. n]
 <2>1. Writer!FoldLeft(Writer!Break, base, cs)
         = (CHOOSE x : x = [s \in SUBSET (DOMAIN cs) |->
              IF s = {} THEN base
              ELSE Writer!Break(x[s \ {Writer!Max(s)}], cs[Writer!Max(s)])])[DOMAIN cs]
   BY DEF Writer!FoldLeft, Writer!MapThenFoldSet
 <2> QED BY <2>1, <1>3
<1>5. \E g : P(g)
 <2>1. PICK g \in [SUBSET (1 .. n) -> Lines(S)] : Folds(g, base, cs, n)
   BY <1>1, <1>2, <1>3, FoldsExists DEF n
 <2>2. P(g) BY <2>1 DEF Folds
 <2> QED BY <2>2
<1>6. P(f) BY <1>5
<1>7. Folds(f, base, cs, n) BY <1>6 DEF Folds
<1> HIDE DEF f
<1>8. \A k \in 0 .. n : f[1 .. k] \in Lines(S)
 <2> DEFINE Wrong == {k \in 0 .. n : f[1 .. k] \notin Lines(S)}
 <2> SUFFICES ASSUME NEW m \in Wrong PROVE FALSE OBVIOUS
 <2>1. PICK k \in Wrong : \A i \in Wrong : k <= i
  <3>1. Wrong \subseteq Nat BY <1>3
  <3> QED BY <3>1, Smallest
 <2>2. k \in 0 .. n /\ f[1 .. k] \notin Lines(S) /\ 1 .. k \in SUBSET (1 .. n) BY <1>3
 <2>3. CASE k = 0
  <3>1. 1 .. k = {} BY <2>3
  <3> QED BY <2>2, <3>1, <1>2, <1>7 DEF Folds
 <2>4. CASE k # 0
  <3>1. k - 1 \in 0 .. n /\ k - 1 \in Nat /\ (k - 1) + 1 = k /\ k \in 1 .. k /\ k \in 1 .. n
    BY <1>3, <2>2, <2>4
  <3>2. Writer!Max(1 .. k) = k
   <4>1. 1 .. k \in SUBSET (1 .. (k - 1) + 1) /\ (k - 1) + 1 \in 1 .. k BY <3>1
   <4>2. Writer!Max(1 .. k) = (k - 1) + 1 BY <3>1, <4>1, LargestIs
   <4> QED BY <4>2, <3>1
  <3>3. (1 .. k) \ {k} = 1 .. k - 1 /\ 1 .. k # {} BY <3>1
  <3>4. f[1 .. k] = Writer!Break(f[(1 .. k) \ {k}], cs[k]) BY <2>2, <3>2, <3>3, <1>7 DEF Folds
  <3>5. f[1 .. k - 1] \in Lines(S)
   <4> SUFFICES ASSUME f[1 .. k - 1] \notin Lines(S) PROVE FALSE OBVIOUS
   <4>1. k - 1 \in Wrong BY <3>1
   <4>2. k <= k - 1 BY <2>1, <4>1
   <4> QED BY <3>1, <4>2
  <3>6. cs[k] \in S BY <1>1, <3>1, ElementOfSeq DEF n
  <3>7. f[1 .. k] \in Lines(S) BY <3>3, <3>4, <3>5, <3>6, <1>1, BreakType, ZenonT(60)
  <3> QED BY <2>2, <3>7
 <2> QED BY <2>3, <2>4
<1>9. f[1 .. n] \in Lines(S) BY <1>3, <1>8
<1>10. Writer!FoldLeft(Writer!Break, base, cs) \in Lines(S) BY <1>4, <1>9
<1> QED BY <1>10 DEF base, S

-----------------------------------------------------------------------------
(* The writer *)

WriterInv ==
  /\ stage \in {"between", "block", "read"}
  /\ IsSequence(pending) /\ Len(pending) \in 0 .. 2
  /\ digits \in Nat /\ column \in 0 .. BreakPos
  /\ IsSequence(sum) /\ IsSequence(written)
  /\ \A k \in 1 .. Len(written) :
       written[k] = [type |-> written[k].type, octets |-> written[k].octets]
  /\ stage = "block" =>
       /\ written # <<>>
       /\ sum = written[Len(written)].octets
       /\ 3 * digits + Len(pending) = 4 * Len(sum)

LEMMA WriterInit == ArmourInit => WriterInv
<1> SUFFICES ASSUME ArmourInit PROVE WriterInv OBVIOUS
<1>1. /\ stage = "between" /\ written = <<>>
      /\ pending = <<>> /\ digits = 0 /\ sum = <<>> /\ column = 0
  BY DEF ArmourInit, Writer!Init
<1>2. 0 \in 0 .. BreakPos /\ 0 \in 0 .. 2 BY ArmourAssumption
<1>3. 1 .. 0 = {} OBVIOUS
<1> QED BY <1>1, <1>2, <1>3, SequenceEmpty DEF WriterInv

\* An octet has four crumbs and completes a digit or two.
LEMMA CrumbsOfOctet ==
  ASSUME NEW p \in 0 .. 2
  PROVE  /\ 3 - p \in Nat
         /\ p + 4 \in 4 .. 6 /\ (p + 4) \div 3 \in 1 .. 2
         /\ 3 * ((p + 4) \div 3) <= p + 4 /\ (p + 4) - 3 * ((p + 4) \div 3) \in 0 .. 2
<1>1. p = 0 \/ p = 1 \/ p = 2 OBVIOUS
<1> QED BY <1>1

\* So the digits and what is pending stay what the octets make.
LEMMA CrumbsCounted ==
  ASSUME NEW d \in Nat, NEW p \in 0 .. 2, NEW n \in Nat, NEW m \in 1 .. 2,
         3 * d + p = 4 * n
  PROVE  d + m \in Nat /\ 3 * (d + m) + ((p + 4) - 3 * m) = 4 * (n + 1)
OBVIOUS

\* What is stacked below moves the column and nothing else of the writer's.
LEMMA StackedKeeps ==
  ASSUME NEW cs, IsSequence(cs), Writer!Stacked(cs), column \in 0 .. BreakPos
  PROVE  column' \in 0 .. BreakPos
<1>1. Writer!FoldLeft(Writer!Break, [column |-> column, out |-> <<>>], cs).column \in 0 .. BreakPos
  BY BreakFold DEF Lines
<1>2. column' = IF type = "MESSAGE" THEN column
                ELSE Writer!FoldLeft(Writer!Break, [column |-> column, out |-> <<>>], cs).column
  BY DEF Writer!Stacked
<1> QED BY <1>1, <1>2

LEMMA DigitsSequence ==
  ASSUME NEW s, IsSequence(s)
  PROVE  IsSequence(Writer!Digits(s)) /\ Len(Writer!Digits(s)) = Len(s) \div 3
<1>1. Len(s) \div 3 \in Nat
 <2>1. Len(s) \in Nat BY SequenceFacts
 <2> QED BY <2>1
<1>2. Writer!Digits(s) = [i \in 1 .. Len(s) \div 3 |-> Writer!Digits(s)[i]] BY DEF Writer!Digits
<1> HIDE DEF Writer!Digits
<1> QED BY <1>1, <1>2, SequenceMade

LEMMA LinesSequence ==
  ASSUME NEW ds, IsSequence(ds) PROVE IsSequence(Writer!Lines(ds))
<1> DEFINE line(i) == <<ds[i]>> \o (IF (digits + i) % LineLength = 0 THEN Writer!Newline ELSE <<>>)
           f == [i \in 1 .. Len(ds) |-> line(i)]
<1>1. Len(ds) \in Nat /\ DOMAIN ds = 1 .. Len(ds) BY SequenceFacts
<1>2. IsSequence(f) /\ Len(f) = Len(ds)
 <2>1. f = [i \in 1 .. Len(ds) |-> f[i]] OBVIOUS
 <2> HIDE DEF f
 <2> QED BY <1>1, <2>1, SequenceMade
<1>3. ASSUME NEW i \in 1 .. Len(f) PROVE IsSequence(f[i])
 <2>1. IsSequence(<<ds[i]>>)
  <3>1. <<ds[i]>> \in Seq({ds[i]}) OBVIOUS
  <3> QED BY <3>1, SequenceOf
 <2>2. IsSequence(Writer!Newline)
  <3>1. Writer!Newline \in Seq({Writer!CR, Writer!NL}) BY DEF Writer!Newline
  <3> QED BY <3>1, SequenceOf
 <2>3. IsSequence(line(i)) BY <2>1, <2>2, SequenceEmpty, SequenceConcat
 <2> QED BY <1>2, <2>3
<1>4. Writer!Lines(ds) = Writer!FlattenSeq(f) BY <1>1 DEF Writer!Lines
<1> HIDE DEF f
<1> QED BY <1>2, <1>3, <1>4, FlattenSequence

LEMMA PaddingSequence ==
  ASSUME IsSequence(pending), Len(pending) \in 0 .. 2 PROVE IsSequence(Writer!Padding)
<1> DEFINE n == 3 - Len(pending)
           z == [k \in 1 .. n |-> Writer!ZERO]
           e == [k \in 1 .. n |-> Writer!EQ]
<1>1. n \in Nat BY CrumbsOfOctet
<1>2. IsSequence(z) /\ IsSequence(e)
 <2>1. z = [k \in 1 .. n |-> z[k]] /\ e = [k \in 1 .. n |-> e[k]] OBVIOUS
 <2> HIDE DEF z, e
 <2> QED BY <1>1, <2>1, SequenceMade
<1>3. Writer!Padding = IF pending = <<>> THEN <<>> ELSE <<pending \o z>> \o e
  BY DEF Writer!Padding
<1>4. IsSequence(<<pending \o z>>)
 <2>1. <<pending \o z>> \in Seq({pending \o z}) OBVIOUS
 <2> QED BY <2>1, SequenceOf
<1> HIDE DEF z, e, n
<1> QED BY <1>2, <1>3, <1>4, SequenceEmpty, SequenceConcat

LEMMA FinaliserSequence == IsSequence(Writer!Finaliser)
<1> DEFINE c == Writer!ChecksumOctets(sum)
           s == Writer!FlattenSeq(c)
<1>1. IsSequence(c) /\ Len(c) = 3 /\ \A i \in 1 .. 3 : c[i] = Writer!Octet(sum, i)
 <2>1. c = [i \in 1 .. 3 |-> c[i]] /\ \A i \in 1 .. 3 : c[i] = Writer!Octet(sum, i)
   BY DEF Writer!ChecksumOctets
 <2> HIDE DEF c
 <2> QED BY <2>1, SequenceMade
<1>2. \A i \in 1 .. 3 : IsSequence(Writer!Octet(sum, i))
 <2> TAKE i \in 1 .. 3
 <2> DEFINE o == Writer!Octet(sum, i)
 <2>1. o = [k \in 1 .. 4 |-> o[k]] BY DEF Writer!Octet
 <2> HIDE DEF o
 <2>2. IsSequence(o) BY <2>1, SequenceMade
 <2> QED BY <2>2 DEF o
<1> HIDE DEF c
<1>3. IsSequence(s) BY <1>1, <1>2, FlattenSequence
<1>4. Writer!Finaliser = Writer!Digits(s) BY DEF Writer!Finaliser, c
<1> HIDE DEF s
<1> QED BY <1>3, <1>4, DigitsSequence

LEMMA PushKeeps ==
  ASSUME WriterInv, NEW t, Push(t) PROVE WriterInv'
<1> DEFINE b == [type |-> t, octets |-> <<>>]
<1>1. /\ pending' = <<>> /\ digits' = 0 /\ sum' = <<>> /\ column' = 0
      /\ stage' = "block" /\ written' = Append(written, b)
  BY DEF Push, Writer!Push
<1>2. IsSequence(written) /\ Len(written) \in Nat BY SequenceFacts DEF WriterInv
<1>3. /\ IsSequence(written') /\ written' # <<>> /\ Len(written') = Len(written) + 1
      /\ \A i \in 1 .. Len(written) : written'[i] = written[i]
      /\ written'[Len(written) + 1] = b
 <2> HIDE DEF b
 <2> QED BY <1>1, <1>2, SequenceAppend
<1>4. written'[Len(written')].octets = <<>> BY <1>3
<1>5. \A k \in 1 .. Len(written') :
        written'[k] = [type |-> written'[k].type, octets |-> written'[k].octets]
 <2> TAKE k \in 1 .. Len(written')
 <2>1. CASE k = Len(written) + 1 BY <2>1, <1>3
 <2>2. CASE k # Len(written) + 1
  <3>1. k \in 1 .. Len(written) BY <2>2, <1>2, <1>3
  <3> QED BY <3>1, <1>3 DEF WriterInv
 <2> QED BY <2>1, <2>2
<1>6. 0 \in 0 .. BreakPos /\ 0 \in 0 .. 2 /\ 3 * 0 + 0 = 4 * 0 /\ 0 \in Nat BY ArmourAssumption
<1> HIDE DEF b
<1> QED BY <1>1, <1>3, <1>4, <1>5, <1>6, SequenceEmpty DEF WriterInv

LEMMA WriteOctetKeeps ==
  ASSUME WriterInv, WriteOctet PROVE WriterInv'
<1> DEFINE n      == Len(written)
           octet  == Octet(Block(n), Len(written[n].octets) + 1)
           crumbs == pending \o octet
           ds     == Writer!Digits(crumbs)
<1>1. /\ stage = "block" /\ stage' = "block"
      /\ written' = [written EXCEPT ![n].octets = Append(@, octet)]
      /\ Writer!Stacked(Writer!Lines(ds))
      /\ digits' = digits + Len(ds)
      /\ pending' = SubSeq(crumbs, 3 * Len(ds) + 1, Len(crumbs))
      /\ sum' = Append(sum, octet)
  BY DEF WriteOctet, Writer!WriteOctet
<1>2. IsSequence(octet) /\ Len(octet) = 4
 <2>1. octet = [k \in 1 .. 4 |-> octet[k]] BY DEF Octet
 <2> HIDE DEF octet
 <2> QED BY <2>1, SequenceMade
<1> HIDE DEF octet
<1>3. /\ IsSequence(pending) /\ Len(pending) \in 0 .. 2 /\ digits \in Nat
      /\ column \in 0 .. BreakPos /\ IsSequence(sum) /\ IsSequence(written)
      /\ written # <<>> /\ sum = written[n].octets
      /\ 3 * digits + Len(pending) = 4 * Len(sum)
  BY <1>1 DEF WriterInv
<1>4. IsSequence(crumbs) /\ Len(crumbs) = Len(pending) + 4 BY <1>2, <1>3, SequenceConcat
<1> HIDE DEF crumbs
<1>5. IsSequence(ds) /\ Len(ds) = Len(crumbs) \div 3 BY <1>4, DigitsSequence
<1> HIDE DEF ds
<1>6. /\ Len(crumbs) \in 4 .. 6 /\ Len(ds) \in 1 .. 2
      /\ 3 * Len(ds) <= Len(crumbs) /\ Len(crumbs) - 3 * Len(ds) \in 0 .. 2
 <2>1. Len(pending) \in 0 .. 2 /\ Len(crumbs) = Len(pending) + 4 /\ Len(ds) = Len(crumbs) \div 3
   BY <1>3, <1>4, <1>5
 <2> QED BY <2>1, CrumbsOfOctet
<1>7. IsSequence(pending') /\ Len(pending') = Len(crumbs) - 3 * Len(ds)
 <2>1. crumbs \in Seq(Range(crumbs)) BY <1>4 DEF IsSequence
 <2>2. 3 * Len(ds) + 1 \in 1 .. Len(crumbs) + 1 /\ Len(crumbs) \in Nat BY <1>6
 <2>3. pending' \in Seq(Range(crumbs)) /\ Len(pending') = Len(crumbs) - 3 * Len(ds)
  <3> DEFINE c == Len(crumbs)
             a == 3 * Len(ds)
  <3>1. c \in 4 .. 6 /\ a \in Nat /\ a <= c /\ a + 1 \in 1 .. c + 1 BY <1>6
  <3>2. pending' = SubSeq(crumbs, a + 1, c) BY <1>1
  <3> HIDE DEF a
  <3>3. pending' \in Seq(Range(crumbs))
         /\ Len(pending') = IF a + 1 <= c THEN c - (a + 1) + 1 ELSE 0
    BY <2>1, <2>2, <3>1, <3>2, SubSeqProperties
  <3> HIDE DEF c
  <3>4. Len(pending') = c - a BY <3>1, <3>3
  <3> QED BY <3>3, <3>4 DEF a, c
 <2> QED BY <2>3, SequenceOf
<1>8. column' \in 0 .. BreakPos BY <1>1, <1>3, <1>5, LinesSequence, StackedKeeps
<1>9. IsSequence(sum') /\ Len(sum') = Len(sum) + 1 /\ Len(sum) \in Nat
  BY <1>1, <1>3, SequenceAppend, SequenceFacts
<1>10. digits' \in Nat /\ 3 * digits' + Len(pending') = 4 * Len(sum')
 <2>1. digits' = digits + Len(ds) /\ Len(pending') = (Len(pending) + 4) - 3 * Len(ds)
   BY <1>1, <1>4, <1>7
 <2>2. digits + Len(ds) \in Nat
         /\ 3 * (digits + Len(ds)) + ((Len(pending) + 4) - 3 * Len(ds)) = 4 * (Len(sum) + 1)
   BY <1>3, <1>6, <1>9, CrumbsCounted, ZenonT(60)
 <2> QED BY <2>1, <2>2, <1>9
<1>11. n \in 1 .. n /\ DOMAIN written = 1 .. n /\ n \in Nat BY <1>3, SequenceFacts
<1>12. IsSequence(written') /\ Len(written') = n
 <2>1. written' = [k \in 1 .. n |-> written'[k]] BY <1>1, <1>11
 <2> QED BY <1>11, <2>1, SequenceMade
<1>13. /\ \A k \in 1 .. n : k # n => written'[k] = written[k]
       /\ written'[n] = [written[n] EXCEPT !.octets = Append(@, octet)]
  BY <1>1, <1>11
<1>14. written'[n] = [type |-> written[n].type, octets |-> sum']
 <2> DEFINE b == written[n]
            t == b.type
 <2>1. b = [type |-> t, octets |-> sum] BY <1>3, <1>11 DEF WriterInv
 <2>2. written'[n] = [b EXCEPT !.octets = Append(b.octets, octet)] BY <1>13
 <2>3. b.octets = sum BY <1>3
 <2> HIDE DEF b, t
 <2>4. [b EXCEPT !.octets = Append(sum, octet)] = [type |-> t, octets |-> Append(sum, octet)]
   BY <2>1
 <2>5. written'[n] = [type |-> t, octets |-> sum'] BY <1>1, <2>2, <2>3, <2>4
 <2> QED BY <2>5 DEF t, b
<1>15. \A k \in 1 .. Len(written') :
         written'[k] = [type |-> written'[k].type, octets |-> written'[k].octets]
 <2> TAKE k \in 1 .. Len(written')
 <2>1. CASE k = n BY <2>1, <1>14
 <2>2. CASE k # n BY <2>2, <1>12, <1>13 DEF WriterInv
 <2> QED BY <2>1, <2>2
<1>16. written' # <<>> BY <1>11, <1>12, SequenceFacts
<1>17. sum' = written'[Len(written')].octets BY <1>12, <1>14
<1> HIDE DEF n
<1> QED BY <1>1, <1>6, <1>7, <1>8, <1>9, <1>10, <1>12, <1>15, <1>16, <1>17 DEF WriterInv

LEMMA FinaliseKeeps ==
  ASSUME WriterInv, Finalise PROVE WriterInv'
<1> DEFINE cs == Writer!Padding \o Writer!Newline \o <<Writer!EQ>> \o Writer!Finaliser
                   \o Writer!Newline \o Writer!Banner("END", type)
<1>1. /\ stage' = "between" /\ written' = written /\ pending' = <<>>
      /\ digits' = digits /\ sum' = sum /\ Writer!Stacked(cs)
  BY DEF Finalise, Writer!Finalise
<1>2. IsSequence(Writer!Padding) /\ IsSequence(Writer!Finaliser)
  BY PaddingSequence, FinaliserSequence DEF WriterInv
<1>3. /\ IsSequence(Writer!Newline) /\ IsSequence(<<Writer!EQ>>)
      /\ IsSequence(Writer!Banner("END", type))
 <2> DEFINE S == {Writer!CR, Writer!NL, Writer!EQ, Writer!DASH, <<"END", type>>}
 <2>1. Writer!Newline \in Seq(S) /\ <<Writer!EQ>> \in Seq(S) BY DEF Writer!Newline
 <2>2. Writer!Dashes \in Seq(S) /\ <<<<"END", type>>>> \in Seq(S) BY DEF Writer!Dashes
 <2>3. Writer!Banner("END", type) \in Seq(S)
  <3> HIDE DEF S
  <3> QED BY <2>1, <2>2, ConcatProperties DEF Writer!Banner
 <2> QED BY <2>1, <2>3, SequenceOf
<1>4. IsSequence(cs) BY <1>2, <1>3, SequenceConcat
<1> HIDE DEF cs
<1>5. column' \in 0 .. BreakPos BY <1>1, <1>4, StackedKeeps DEF WriterInv
<1>6. 0 \in 0 .. 2 OBVIOUS
<1> QED BY <1>1, <1>5, <1>6, SequenceEmpty DEF WriterInv

\* Neither the file nor the reader touches the writer.
LEMMA OthersKeepWriter ==
  ASSUME WriterInv, UNCHANGED <<writing, written>>,
         stage' = stage \/ stage' = "read"
  PROVE  WriterInv'
<1>1. /\ pending' = pending /\ digits' = digits /\ sum' = sum /\ column' = column
      /\ written' = written
  BY DEF writing
<1> QED BY <1>1 DEF WriterInv

-----------------------------------------------------------------------------
(* The reader *)

IsBlock(b) ==
  /\ b = [header |-> b.header, octets |-> b.octets, trailer |-> b.trailer]
  /\ IsSequence(b.octets)

\* What the checksum has been taken over is somewhere.
Taken == IF state = "BASE64" THEN dest \o Held ELSE <<>>
Accounted ==
  \/ errors \/ ret = "abort" \/ blocks = <<>>
  \/ checksum = blocks[Len(blocks)].octets \o Taken
  \/ state = "BASE64" /\ eof64 /\ buffered = 0 /\ length = 0

ReaderInv ==
  /\ state \in {"OUTSIDE_BLOCK", "BASE64", "AT_TRAILER_NAME"}
  /\ ret \in {"read", "zero", "minus", "abort"}
  /\ seen_nl \in BOOLEAN /\ eof64 \in BOOLEAN /\ errors \in BOOLEAN
  /\ buffered \in 0 .. 3
  /\ length \in Nat /\ IsSequence(dest) /\ length + Len(dest) <= MaxRead
  /\ length = 0 \/ state # "BASE64" => dest = <<>>
  /\ ret = "abort" => length = 0
  /\ IsSequence(checksum) /\ IsSequence(blocks)
  /\ \A k \in 1 .. Len(blocks) : IsBlock(blocks[k])
  /\ state # "OUTSIDE_BLOCK" => unarmoured = <<>> /\ blocks # <<>>
  /\ Accounted

LEMMA ReaderInit == ArmourInit => ReaderInv
<1> SUFFICES ASSUME ArmourInit PROVE ReaderInv OBVIOUS
<1>1. /\ state = "OUTSIDE_BLOCK" /\ seen_nl = TRUE /\ buffered = 0 /\ eof64 = FALSE
      /\ checksum = <<>> /\ length = 0 /\ dest = <<>> /\ ret = "read" /\ errors = FALSE
      /\ blocks = <<>>
  BY DEF ArmourInit, Reader!Init
<1>2. 0 + Len(<<>>) <= MaxRead BY ArmourAssumption, SequenceEmpty
<1>3. 1 .. Len(<<>>) = {} BY SequenceEmpty
<1>4. Accounted BY <1>1 DEF Accounted
<1>5. 0 \in 0 .. 3 /\ 0 \in Nat OBVIOUS
<1> HIDE DEF Accounted
<1> QED BY <1>1, <1>2, <1>3, <1>4, <1>5, SequenceEmpty DEF ReaderInv

LEMMA ConsumeNL ==
  ASSUME NEW i, Reader!Consume(i), seen_nl \in BOOLEAN PROVE seen_nl' \in BOOLEAN
BY DEF Reader!Consume

LEMMA HeldSequence ==
  ASSUME ReaderInv PROVE IsSequence(Held) /\ Len(Held) = buffered
<1>1. Held = [k \in 1 .. buffered |-> Held[k]] BY DEF Held
<1>2. buffered \in Nat BY DEF ReaderInv
<1> QED BY <1>1, <1>2, SequenceMade

\* A turn that ends the call with nothing to show for it.
Gives ==
  /\ dest' = <<>> /\ length' = 0 /\ ret' \in {"zero", "minus"}

\* A turn that leaves the block as it is.
LEMMA TurnKeeps ==
  ASSUME ReaderInv, length > 0, state # "BASE64",
         UNCHANGED <<state, Reader!decoder, blocks>>,
         seen_nl' \in BOOLEAN, errors' \in BOOLEAN, errors => errors',
         unarmoured' = unarmoured \/ unarmoured' = <<>> \/ state = "OUTSIDE_BLOCK",
         Gives \/ UNCHANGED Reader!call
  PROVE  ReaderInv'
<1>1. /\ state' = state /\ buffered' = buffered /\ eof64' = eof64 /\ checksum' = checksum
      /\ blocks' = blocks
  BY DEF Reader!decoder
<1>2. dest = <<>> /\ ret # "abort" BY DEF ReaderInv
<1>3. /\ dest' = <<>> /\ ret' \in {"read", "zero", "minus"} /\ length' \in Nat
      /\ length' + Len(<<>>) <= MaxRead
 <2>1. 0 + Len(<<>>) <= MaxRead BY ArmourAssumption, SequenceEmpty
 <2>2. CASE Gives BY <2>1, <2>2 DEF Gives
 <2>3. CASE UNCHANGED Reader!call BY <2>3, <1>2 DEF Reader!call, ReaderInv
 <2> QED BY <2>2, <2>3
<1>4. Accounted'
 <2>1. Taken' = Taken BY <1>1 DEF Taken
 <2> QED BY <1>1, <1>2, <2>1 DEF ReaderInv, Accounted
<1> HIDE DEF Accounted
<1> QED BY <1>1, <1>2, <1>3, <1>4, SequenceEmpty DEF ReaderInv

\* A call that ends with an error or on an assertion.
LEMMA FailureKeeps ==
  ASSUME ReaderInv, UNCHANGED <<state, blocks, unarmoured, checksum>>,
         buffered' \in 0 .. 3, eof64' \in BOOLEAN, seen_nl' \in BOOLEAN, errors' \in BOOLEAN,
         dest' = <<>>, length' = 0, ret' \in {"zero", "minus", "abort"},
         errors' \/ ret' = "abort"
  PROVE  ReaderInv'
<1>1. 0 + Len(<<>>) <= MaxRead BY ArmourAssumption, SequenceEmpty
<1>2. Accounted' BY DEF Accounted
<1> HIDE DEF Accounted
<1> QED BY <1>1, <1>2, SequenceEmpty DEF ReaderInv

LEMMA OpenBlockKeeps ==
  ASSUME ReaderInv, length > 0, state # "BASE64", NEW name, NEW at, NEW wrong,
         Reader!OpenBlock(name, at, wrong), unarmoured' = <<>>
  PROVE  ReaderInv'
<1> DEFINE h == Reader!ParseHeaders(at + 1)
           b == [header |-> name[1], octets |-> <<>>, trailer |-> Reader!NoName]
<1>1. seen_nl' \in BOOLEAN
 <2>1. seen_nl \in BOOLEAN BY DEF ReaderInv
 <2>2. Reader!Consume(h.at) \/ seen_nl' = TRUE BY DEF Reader!OpenBlock
 <2> QED BY <2>1, <2>2, ConsumeNL
<1>2. \/ /\ blocks' = Append(blocks, b) /\ errors' = (errors \/ wrong)
         /\ Reader!StartBase64 /\ UNCHANGED Reader!call
      \/ /\ errors' = TRUE /\ Reader!Return("minus")
         /\ UNCHANGED <<blocks, state, Reader!decoder>>
  BY DEF Reader!OpenBlock
<1> HIDE DEF h
<1>3. dest = <<>> /\ ret # "abort" /\ errors \in BOOLEAN BY DEF ReaderInv
<1>4. CASE /\ blocks' = Append(blocks, b) /\ errors' = (errors \/ wrong)
           /\ Reader!StartBase64 /\ UNCHANGED Reader!call
 <2>1. /\ state' = "BASE64" /\ checksum' = <<>> /\ eof64' = FALSE /\ buffered' = 0
       /\ length' = length /\ dest' = <<>> /\ ret' = ret
   BY <1>3, <1>4 DEF Reader!StartBase64, Reader!call
 <2>2. errors' \in BOOLEAN BY <1>4
 <2>3. IsSequence(blocks) /\ Len(blocks) \in Nat BY SequenceFacts DEF ReaderInv
 <2>4. IsBlock(b) /\ b.octets = <<>> BY SequenceEmpty DEF IsBlock
 <2> HIDE DEF b
 <2>5. /\ IsSequence(blocks') /\ blocks' # <<>> /\ Len(blocks') = Len(blocks) + 1
       /\ \A i \in 1 .. Len(blocks) : blocks'[i] = blocks[i]
       /\ blocks'[Len(blocks) + 1] = b
   BY <1>4, <2>3, SequenceAppend
 <2>6. \A k \in 1 .. Len(blocks') : IsBlock(blocks'[k])
  <3> TAKE k \in 1 .. Len(blocks')
  <3>1. CASE k = Len(blocks) + 1 BY <3>1, <2>4, <2>5
  <3>2. CASE k # Len(blocks) + 1
   <4>1. k \in 1 .. Len(blocks) BY <3>2, <2>3, <2>5
   <4> QED BY <4>1, <2>5 DEF ReaderInv
  <3> QED BY <3>1, <3>2
 <2>7. Accounted'
  <3>1. Held' = <<>> BY <2>1 DEF Held
  <3>2. blocks'[Len(blocks')].octets = <<>> BY <2>4, <2>5
  <3>3. <<>> \o (<<>> \o <<>>) = <<>> BY SequenceEmpty, SequenceConcat
  <3>4. Taken' = <<>> \o <<>> BY <2>1, <3>1 DEF Taken
  <3> QED BY <2>1, <3>2, <3>3, <3>4 DEF Accounted
 <2> HIDE DEF Accounted
 <2>8. 0 \in 0 .. 3 /\ FALSE \in BOOLEAN OBVIOUS
 <2> QED BY <1>1, <1>3, <2>1, <2>2, <2>5, <2>6, <2>7, <2>8, SequenceEmpty DEF ReaderInv
<1>5. CASE /\ errors' = TRUE /\ Reader!Return("minus")
           /\ UNCHANGED <<blocks, state, Reader!decoder>>
 <2>1. Gives BY <1>5 DEF Gives, Reader!Return
 <2> QED BY <1>1, <1>5, <2>1, TurnKeeps
<1> QED BY <1>2, <1>4, <1>5

-----------------------------------------------------------------------------
(* One action of the reader after the other. *)

LEMMA CallKeeps ==
  ASSUME ReaderInv, NEW n \in 1 .. MaxRead, Reader!Call(n) PROVE ReaderInv'
<1>1. /\ length = 0 /\ ret # "abort" /\ dest = <<>>
      /\ UNCHANGED <<state, seen_nl, Reader!decoder, unarmoured, errors, blocks>>
  BY DEF Reader!Call, ReaderInv
<1>2. /\ state' = state /\ seen_nl' = seen_nl /\ buffered' = buffered /\ buffer' = buffer
      /\ eof64' = eof64 /\ checksum' = checksum /\ unarmoured' = unarmoured
      /\ errors' = errors /\ blocks' = blocks
  BY <1>1 DEF Reader!decoder
<1>3. CASE eof64 /\ buffered = 0 /\ state = "BASE64"
 <2>1. Reader!Return("abort") BY <1>3 DEF Reader!Call
 <2> QED BY <1>2, <2>1, FailureKeeps DEF Reader!Return, ReaderInv
<1>4. CASE ~ (eof64 /\ buffered = 0 /\ state = "BASE64")
 <2>1. length' = n /\ dest' = <<>> /\ ret' = ret BY <1>4 DEF Reader!Call
 <2>2. n \in Nat /\ n + Len(<<>>) <= MaxRead BY ArmourAssumption, SequenceEmpty
 <2>3. Held' = Held BY <1>2 DEF Held
 <2>4. Accounted'
  <3>1. Taken' = Taken BY <1>1, <1>2, <2>1, <2>3 DEF Taken
  <3>2. \/ errors \/ blocks = <<>>
        \/ checksum = blocks[Len(blocks)].octets \o Taken
    BY <1>1, <1>4 DEF ReaderInv, Accounted
  <3> QED BY <1>2, <3>1, <3>2 DEF Accounted
 <2> HIDE DEF Accounted
 <2> QED BY <1>1, <1>2, <2>1, <2>2, <2>4, SequenceEmpty DEF ReaderInv
<1> QED BY <1>3, <1>4

LEMMA ReadLineKeeps ==
  ASSUME ReaderInv, Reader!ReadLine PROVE ReaderInv'
<1>1. /\ length > 0 /\ state = "OUTSIDE_BLOCK"
      /\ UNCHANGED <<state, Reader!decoder, errors, blocks>>
      /\ \E i : Reader!Consume(i)
      /\ Reader!Return("zero") \/ UNCHANGED Reader!call
  BY DEF Reader!ReadLine
<1>2. seen_nl' \in BOOLEAN BY <1>1, ConsumeNL DEF ReaderInv
<1>3. Gives \/ UNCHANGED Reader!call BY <1>1 DEF Gives, Reader!Return
<1>4. errors' = errors /\ errors \in BOOLEAN BY <1>1 DEF ReaderInv
<1> QED BY <1>1, <1>2, <1>3, <1>4, TurnKeeps

LEMMA ReadNoHeaderKeeps ==
  ASSUME ReaderInv, Reader!ReadNoHeader PROVE ReaderInv'
<1>1. /\ length > 0 /\ state = "OUTSIDE_BLOCK"
      /\ UNCHANGED <<state, Reader!decoder, errors, blocks>>
      /\ \E i : Reader!Consume(i)
      /\ Reader!Return("zero") \/ UNCHANGED Reader!call
  BY DEF Reader!ReadNoHeader
<1>2. seen_nl' \in BOOLEAN BY <1>1, ConsumeNL DEF ReaderInv
<1>3. Gives \/ UNCHANGED Reader!call BY <1>1 DEF Gives, Reader!Return
<1>4. errors' = errors /\ errors \in BOOLEAN BY <1>1 DEF ReaderInv
<1> QED BY <1>1, <1>2, <1>3, <1>4, TurnKeeps

LEMMA ReadHeaderKeeps ==
  ASSUME ReaderInv, Reader!ReadHeader PROVE ReaderInv'
<1>1. /\ length > 0 /\ state = "OUTSIDE_BLOCK" /\ unarmoured' = <<>>
      /\ \E name, at, wrong : Reader!OpenBlock(name, at, wrong)
  BY DEF Reader!ReadHeader
<1> QED BY <1>1, OpenBlockKeeps

\* The octets of a group are added to the checksum and to what is held.
LEMMA StoreKeeps ==
  ASSUME ReaderInv, length > 0, state = "BASE64", buffered = 0, NEW octets,
         IsSequence(octets), Len(octets) \in 0 .. 3, Reader!Store(octets),
         UNCHANGED <<state, unarmoured, Reader!call, errors, blocks>>,
         seen_nl' \in BOOLEAN, eof64' \in BOOLEAN
  PROVE  ReaderInv'
<1>1. /\ buffered' = Len(octets) /\ checksum' = checksum \o octets
      /\ \A n \in 0 .. 2 : n < Len(octets) => buffer'[n] = octets[Len(octets) - n]
  BY DEF Reader!Store
<1>2. /\ state' = "BASE64" /\ length' = length /\ dest' = dest /\ ret' = ret
      /\ errors' = errors /\ blocks' = blocks /\ unarmoured' = unarmoured
  BY DEF Reader!call
<1>3. Held' = octets
 <2> DEFINE m == Len(octets)
 <2>1. octets = [k \in 1 .. m |-> octets[k]] BY SequenceFacts DEF IsSequence
 <2>2. Held' = [k \in 1 .. m |-> buffer'[m - k]] BY <1>1 DEF Held
 <2>3. \A k \in 1 .. m : m - k \in 0 .. 2 /\ m - k < m /\ m - (m - k) = k
  <3>1. \A j \in 0 .. 3 : \A k \in 1 .. j : j - k \in 0 .. 2 /\ j - k < j /\ j - (j - k) = k
    OBVIOUS
  <3> HIDE DEF m
  <3>2. m \in 0 .. 3 BY DEF m
  <3> QED BY <3>1, <3>2
 <2>4. \A k \in 1 .. m : buffer'[m - k] = octets[k] BY <1>1, <2>3
 <2> HIDE DEF m
 <2> QED BY <2>1, <2>2, <2>4
<1>4. IsSequence(checksum') /\ IsSequence(dest) /\ IsSequence(checksum)
  BY <1>1, SequenceConcat DEF ReaderInv
<1>5. Accounted'
 <2>1. CASE errors BY <1>2, <2>1 DEF Accounted
 <2>2. CASE ~errors
  <3> DEFINE o == blocks[Len(blocks)].octets
  <3>1. checksum = o \o Taken BY <2>2 DEF ReaderInv, Accounted
  <3>2. Held = <<>> BY DEF Held
  <3>3. Taken = dest BY <1>4, <3>2, SequenceEmpty, SequenceConcat DEF Taken
  <3>4. IsSequence(o)
   <4>1. IsSequence(blocks) /\ blocks # <<>> BY DEF ReaderInv
   <4>2. Len(blocks) \in 1 .. Len(blocks) BY <4>1, SequenceFacts
   <4> QED BY <4>2 DEF ReaderInv, IsBlock
  <3> HIDE DEF o
  <3>5. checksum' = o \o (dest \o octets)
   <4>1. checksum' = (o \o dest) \o octets BY ONLY <1>1, <3>1, <3>3
   <4>2. (o \o dest) \o octets = o \o (dest \o octets) BY <1>4, <3>4, SequenceAssociative
   <4> QED BY <4>1, <4>2
  <3>6. blocks'[Len(blocks')].octets = o BY <1>2 DEF o
  <3>7. Taken' = dest \o octets BY <1>2, <1>3 DEF Taken
  <3> QED BY <3>5, <3>6, <3>7 DEF Accounted
 <2> QED BY <2>1, <2>2 DEF ReaderInv
<1> HIDE DEF Accounted
<1> QED BY <1>1, <1>2, <1>4, <1>5 DEF ReaderInv

LEMMA BytesSequence ==
  ASSUME NEW ds, Len(ds) \in {0, 2, 3, 4}
  PROVE  IsSequence(Reader!Bytes(ds)) /\ Len(Reader!Bytes(ds)) \in 0 .. 3
<1> DEFINE n == (3 * Len(ds)) \div 4
           b == Reader!Bytes(ds)
<1>1. n \in 0 .. 3
 <2>1. \A k \in {0, 2, 3, 4} : (3 * k) \div 4 \in 0 .. 3 OBVIOUS
 <2> QED BY <2>1
<1>2. b = [k \in 1 .. n |-> b[k]] BY DEF Reader!Bytes
<1> HIDE DEF b, n
<1>3. IsSequence(b) /\ Len(b) = n BY <1>1, <1>2, SequenceMade
<1> QED BY <1>1, <1>3 DEF b

LEMMA DecodeGroupKeeps ==
  ASSUME ReaderInv, Reader!DecodeGroup PROVE ReaderInv'
<1> DEFINE g == Reader!Read4(1)
<1>1. /\ length > 0 /\ state = "BASE64" /\ buffered = 0
      /\ Len(g.digits) = 4 /\ Reader!Consume(g.at) /\ Reader!Store(Reader!Bytes(g.digits))
      /\ UNCHANGED <<state, eof64, unarmoured, Reader!call, errors, blocks>>
  BY DEF Reader!DecodeGroup, Reader!NeedsGroup
<1> HIDE DEF g
<1>2. seen_nl' \in BOOLEAN BY <1>1, ConsumeNL DEF ReaderInv
<1>3. eof64' \in BOOLEAN BY <1>1 DEF ReaderInv
<1>4. IsSequence(Reader!Bytes(g.digits)) /\ Len(Reader!Bytes(g.digits)) \in 0 .. 3
  BY <1>1, BytesSequence
<1> QED BY <1>1, <1>2, <1>3, <1>4, StoreKeeps

LEMMA RefuseKeeps ==
  ASSUME ReaderInv, NEW at, NEW n \in 0 .. 3, NEW eof \in BOOLEAN, Reader!Refuse(at, n, eof),
         UNCHANGED <<state, blocks, unarmoured>>
  PROVE  ReaderInv'
<1>1. /\ Reader!Consume(at) /\ buffered' = n /\ eof64' = eof /\ errors' = TRUE
      /\ ret' = "zero" /\ length' = 0 /\ dest' = <<>> /\ checksum' = checksum
  BY DEF Reader!Refuse, Reader!Return
<1>2. seen_nl' \in BOOLEAN BY <1>1, ConsumeNL DEF ReaderInv
<1> QED BY <1>1, <1>2, FailureKeeps

LEMMA DecodeStopsKeeps ==
  ASSUME ReaderInv, Reader!DecodeStops PROVE ReaderInv'
<1> DEFINE g == Reader!Read4(1)
<1>1. /\ UNCHANGED <<state, unarmoured, blocks>>
      /\ \/ Reader!Refuse(g.at, 0, TRUE)
         \/ /\ Reader!Consume(g.at) /\ Reader!Return("abort")
            /\ UNCHANGED <<Reader!decoder, errors>>
  BY DEF Reader!DecodeStops
<1> HIDE DEF g
<1>2. CASE Reader!Refuse(g.at, 0, TRUE)
 <2>1. 0 \in 0 .. 3 /\ TRUE \in BOOLEAN OBVIOUS
 <2> QED BY <1>1, <1>2, <2>1, RefuseKeeps
<1>3. CASE /\ Reader!Consume(g.at) /\ Reader!Return("abort")
           /\ UNCHANGED <<Reader!decoder, errors>>
 <2>1. seen_nl' \in BOOLEAN BY <1>3, ConsumeNL DEF ReaderInv
 <2>2. /\ buffered' = buffered /\ eof64' = eof64 /\ checksum' = checksum /\ errors' = errors
       /\ ret' = "abort" /\ length' = 0 /\ dest' = <<>>
   BY <1>3 DEF Reader!decoder, Reader!Return
 <2> QED BY <1>1, <2>1, <2>2, FailureKeeps DEF ReaderInv
<1> QED BY <1>1, <1>2, <1>3

LEMMA DecodeEndKeeps ==
  ASSUME ReaderInv, Reader!DecodeEnd PROVE ReaderInv'
<1> DEFINE g == Reader!Read4(1)
           m == Reader!Match(Reader!Ending(g))
           s == Reader!Read4(Reader!ChecksumAt(g) + 1)
           e == m.at > g.at /\ m.at = s.at /\ s.at = Reader!EndOfWire
           octets == Reader!Bytes(g.digits)
<1>1. /\ length > 0 /\ state = "BASE64" /\ buffered = 0 /\ Len(g.digits) \in {0, 2, 3}
      /\ UNCHANGED <<state, unarmoured, blocks>>
      /\ \/ Len(g.digits) > 0 /\ Reader!Refuse(m.at, Len(g.digits) - 1, TRUE)
         \/ Reader!Refuse(m.at, 0, e)
         \/ /\ Reader!Consume(m.at) /\ eof64' = TRUE /\ Reader!Store(octets)
            /\ \/ UNCHANGED <<Reader!call, errors>>
               \/ Reader!Return("zero") /\ errors' = TRUE
  BY DEF Reader!DecodeEnd, Reader!NeedsGroup
<1>2. e \in BOOLEAN OBVIOUS
<1> HIDE DEF g, m, s, e
<1>3. IsSequence(octets) /\ Len(octets) \in 0 .. 3 BY <1>1, BytesSequence
<1> HIDE DEF octets
<1>4. CASE Len(g.digits) > 0 /\ Reader!Refuse(m.at, Len(g.digits) - 1, TRUE)
 <2>1. Len(g.digits) - 1 \in 0 .. 3 /\ TRUE \in BOOLEAN
  <3>1. \A k \in {0, 2, 3} : k > 0 => k - 1 \in 0 .. 3 OBVIOUS
  <3> QED BY <1>1, <1>4, <3>1
 <2> QED BY <1>1, <1>4, <2>1, RefuseKeeps
<1>5. CASE Reader!Refuse(m.at, 0, e)
 <2>1. 0 \in 0 .. 3 OBVIOUS
 <2> QED BY <1>1, <1>2, <1>5, <2>1, RefuseKeeps
<1>6. CASE /\ Reader!Consume(m.at) /\ eof64' = TRUE /\ Reader!Store(octets)
           /\ \/ UNCHANGED <<Reader!call, errors>>
              \/ Reader!Return("zero") /\ errors' = TRUE
 <2>1. seen_nl' \in BOOLEAN /\ eof64' \in BOOLEAN BY <1>6, ConsumeNL DEF ReaderInv
 <2>2. CASE UNCHANGED <<Reader!call, errors>> BY <1>1, <1>3, <1>6, <2>1, <2>2, StoreKeeps
 <2>3. CASE Reader!Return("zero") /\ errors' = TRUE
  <3>1. /\ dest' = <<>> /\ length' = 0 /\ ret' = "zero" /\ errors' = TRUE
        /\ buffered' = Len(octets) /\ checksum' = checksum \o octets
    BY <1>6, <2>3 DEF Reader!Return, Reader!Store
  <3>2. IsSequence(checksum') BY <1>3, <3>1, SequenceConcat DEF ReaderInv
  <3>3. Accounted' BY <3>1 DEF Accounted
  <3>4. 0 + Len(<<>>) <= MaxRead BY ArmourAssumption, SequenceEmpty
  <3> HIDE DEF Accounted
  <3> QED BY <1>1, <1>3, <2>1, <3>1, <3>2, <3>3, <3>4, SequenceEmpty DEF ReaderInv
 <2> QED BY <1>6, <2>2, <2>3
<1> QED BY <1>1, <1>4, <1>5, <1>6

LEMMA BlockChanged ==
  ASSUME NEW b, IsBlock(b), NEW x
  PROVE  /\ IsSequence(x) =>
              IsBlock([b EXCEPT !.octets = x]) /\ [b EXCEPT !.octets = x].octets = x
         /\ IsBlock([b EXCEPT !.trailer = x]) /\ [b EXCEPT !.trailer = x].octets = b.octets
<1> DEFINE h == b.header
           o == b.octets
           t == b.trailer
<1>1. b = [header |-> h, octets |-> o, trailer |-> t] /\ IsSequence(o) BY DEF IsBlock
<1> HIDE DEF h, o, t
<1>2. /\ [b EXCEPT !.octets = x] = [header |-> h, octets |-> x, trailer |-> t]
      /\ [b EXCEPT !.trailer = x] = [header |-> h, octets |-> o, trailer |-> x]
  BY <1>1
<1>3. b.octets = o BY <1>1
<1> QED BY <1>1, <1>2, <1>3 DEF IsBlock

\* One block of the sequence is another, and they are blocks still.
LEMMA BlocksChanged ==
  ASSUME IsSequence(blocks), blocks # <<>>, \A k \in 1 .. Len(blocks) : IsBlock(blocks[k]),
         NEW b, IsBlock(b), blocks' = [blocks EXCEPT ![Len(blocks)] = b]
  PROVE  /\ IsSequence(blocks') /\ blocks' # <<>> /\ blocks'[Len(blocks')] = b
         /\ \A k \in 1 .. Len(blocks') : IsBlock(blocks'[k])
<1> DEFINE n == Len(blocks)
<1>1. n \in Nat /\ n \in 1 .. n /\ DOMAIN blocks = 1 .. n BY SequenceFacts
<1>2. IsSequence(blocks') /\ Len(blocks') = n
 <2>1. blocks' = [k \in 1 .. n |-> blocks'[k]] BY <1>1
 <2> HIDE DEF n
 <2> QED BY <1>1, <2>1, SequenceMade
<1>3. blocks' # <<>> BY <1>1, <1>2, SequenceFacts
<1>4. \A k \in 1 .. n : blocks'[k] = IF k = n THEN b ELSE blocks[k] BY <1>1
<1> QED BY <1>1, <1>2, <1>3, <1>4

LEMMA GiveOctetKeeps ==
  ASSUME ReaderInv, Reader!GiveOctet PROVE ReaderInv'
<1> DEFINE b   == buffer[buffered - 1]
           now == Append(dest, b)
           n   == Len(blocks)
           o   == blocks[n].octets
           H   == [k \in 1 .. buffered - 1 |-> buffer[(buffered - 1) - k]]
<1>1. /\ length > 0 /\ state = "BASE64" /\ buffered > 0 /\ buffered' = buffered - 1
      /\ UNCHANGED <<wire, lastseen, seen_nl, buffer, eof64, checksum, unarmoured, errors, text>>
  BY DEF Reader!GiveOctet
<1>2. /\ length \in Nat /\ buffered \in 0 .. 3 /\ ret # "abort" /\ IsSequence(dest)
      /\ IsSequence(blocks) /\ blocks # <<>> /\ \A k \in 1 .. Len(blocks) : IsBlock(blocks[k])
      /\ length + Len(dest) <= MaxRead
  BY <1>1 DEF ReaderInv
<1>3. IsSequence(now) /\ Len(now) = Len(dest) + 1 /\ now = dest \o <<b>> /\ IsSequence(<<b>>)
      /\ Len(dest) \in Nat
  BY <1>2, SequenceAppend, SequenceFacts
<1>4. n \in 1 .. n /\ n \in Nat /\ IsBlock(blocks[n]) /\ IsSequence(o)
 <2>1. n \in 1 .. n /\ n \in Nat BY <1>2, SequenceFacts
 <2> QED BY <2>1, <1>2 DEF IsBlock
<1>5. IsSequence(H) /\ Len(H) = buffered - 1 /\ H = Held'
 <2>1. buffered - 1 \in Nat BY <1>1, <1>2
 <2>2. H = [k \in 1 .. buffered - 1 |-> H[k]] OBVIOUS
 <2>3. Held' = H BY <1>1 DEF Held
 <2> HIDE DEF H
 <2> QED BY <2>1, <2>2, <2>3, SequenceMade
<1>6. Held = <<b>> \o H
 <2>1. IsSequence(Held) /\ Len(Held) = buffered /\ IsSequence(<<b>> \o H)
       /\ Len(<<b>> \o H) = 1 + (buffered - 1)
  <3> HIDE DEF H, b
  <3>1. Len(<<b>>) = 1 OBVIOUS
  <3> QED BY <3>1, <1>3, <1>5, HeldSequence, SequenceConcat
 <2>2. PICK S : <<b>> \in Seq(S) /\ H \in Seq(S) /\ Held \in Seq(S)
  <3> HIDE DEF H, b
  <3> QED BY <2>1, <1>3, <1>5, SequenceCommon
 <2>3. \A k \in 1 .. buffered : Held[k] = (<<b>> \o H)[k]
  <3> TAKE k \in 1 .. buffered
  <3>1. Held[k] = buffer[buffered - k] BY DEF Held
  <3>2. Len(<<b>>) = 1 /\ <<b>>[1] = b OBVIOUS
  <3>3. (<<b>> \o H)[k] = IF k <= 1 THEN <<b>>[k] ELSE H[k - 1]
   <4>1. Len(H) = buffered - 1 /\ 1 + (buffered - 1) = buffered BY <1>2, <1>5
   <4> HIDE DEF H, b
   <4> QED BY <2>2, <3>2, <4>1, ConcatProperties
  <3>4. CASE k = 1 BY <3>1, <3>2, <3>3, <3>4
  <3>5. CASE k # 1
   <4>1. /\ ~ (k <= 1) /\ k - 1 \in 1 .. buffered - 1
         /\ (buffered - 1) - (k - 1) = buffered - k
     BY <3>5, <1>2
   <4>2. H[k - 1] = buffer[buffered - k] BY <4>1
   <4> QED BY <3>1, <3>3, <4>1, <4>2
  <3> QED BY <3>4, <3>5
 <2>4. <<b>> \o H \in Seq(S)
  <3> HIDE DEF H, b
  <3> QED BY <2>2, ConcatProperties
 <2>5. 1 + (buffered - 1) = buffered BY <1>2
 <2> HIDE DEF H, b
 <2> QED BY <2>1, <2>2, <2>3, <2>4, <2>5, SeqEqual
<1>7. dest \o Held = now \o H
 <2>1. IsSequence(dest) /\ IsSequence(<<b>>) /\ IsSequence(H) BY <1>2, <1>3, <1>5
 <2>2. now = dest \o <<b>> /\ Held = <<b>> \o H BY <1>3, <1>6
 <2> HIDE DEF H, b, now
 <2>3. (dest \o <<b>>) \o H = dest \o (<<b>> \o H) BY <2>1, SequenceAssociative
 <2> QED BY <2>2, <2>3
<1>8. errors \/ checksum = o \o (now \o H)
 <2>1. Taken = dest \o Held BY <1>1 DEF Taken
 <2>2. errors \/ checksum = o \o Taken BY <1>1, <1>2 DEF ReaderInv, Accounted
 <2> QED BY <1>7, <2>1, <2>2
<1>9. buffered' \in 0 .. 3 BY <1>1, <1>2
<1>10. CASE length = 1
 <2>1. /\ ret' = "read" /\ length' = 0 /\ dest' = <<>>
       /\ blocks' = [blocks EXCEPT ![n].octets = @ \o now]
       /\ state' = IF eof64 /\ buffered = 1 THEN "AT_TRAILER_NAME" ELSE state
   BY <1>10 DEF Reader!GiveOctet, Reader!Return
 <2> HIDE DEF H, now
 <2> DEFINE d == [blocks[n] EXCEPT !.octets = o \o now]
 <2>2. blocks' = [blocks EXCEPT ![n] = d] BY <2>1
 <2>3. IsBlock(d) /\ d.octets = o \o now
  <3>1. IsSequence(o \o now) BY <1>3, <1>4, SequenceConcat
  <3> HIDE DEF o
  <3> QED BY <3>1, <1>4, BlockChanged
 <2> HIDE DEF d
 <2>4. /\ IsSequence(blocks') /\ blocks' # <<>> /\ blocks'[Len(blocks')] = d
       /\ \A k \in 1 .. Len(blocks') : IsBlock(blocks'[k])
   BY <1>2, <2>2, <2>3, BlocksChanged
 <2>5. Taken' = H
  <3>1. CASE state' = "BASE64"
   <4>1. Taken' = <<>> \o H BY <2>1, <3>1, <1>5 DEF Taken
   <4> QED BY <4>1, <1>5, SequenceConcat, SequenceEmpty
  <3>2. CASE state' # "BASE64"
   <4>1. buffered = 1 /\ Taken' = <<>> BY <1>1, <2>1, <3>2 DEF Taken
   <4>2. Len(H) = 0 BY <1>5, <4>1
   <4> QED BY <1>5, <4>1, <4>2, SequenceFacts
  <3> QED BY <3>1, <3>2
 <2>6. Accounted'
  <3>1. CASE errors BY <1>1, <3>1 DEF Accounted
  <3>2. CASE ~errors
   <4>1. checksum' = o \o (now \o H) BY <1>1, <1>8, <3>2
   <4>2. o \o (now \o H) = (o \o now) \o H
    <5>1. IsSequence(o) /\ IsSequence(now) /\ IsSequence(H) BY <1>3, <1>4, <1>5
    <5> HIDE DEF o
    <5> QED BY <5>1, SequenceAssociative
   <4>3. blocks'[Len(blocks')].octets = o \o now BY <2>3, <2>4
   <4> HIDE DEF o
   <4> QED BY <2>5, <4>1, <4>2, <4>3 DEF Accounted
  <3> QED BY <3>1, <3>2 DEF ReaderInv
 <2>7. state' \in {"BASE64", "AT_TRAILER_NAME"} BY <1>1, <2>1
 <2>8. 0 + Len(<<>>) <= MaxRead BY ArmourAssumption, SequenceEmpty
 <2> HIDE DEF Accounted
 <2> QED BY <1>1, <1>9, <2>1, <2>4, <2>6, <2>7, <2>8, SequenceEmpty DEF ReaderInv
<1>11. CASE length # 1
 <2>1. /\ dest' = now /\ length' = length - 1
       /\ state' = state /\ blocks' = blocks /\ ret' = ret
   BY <1>11 DEF Reader!GiveOctet
 <2> HIDE DEF H, now
 <2>2. Taken' = now \o H BY <1>1, <1>5, <2>1 DEF Taken
 <2>3. Accounted' BY <1>1, <1>8, <2>1, <2>2 DEF Accounted
 <2>4. /\ length' \in Nat /\ length' # 0 /\ length' + Len(dest') <= MaxRead
  <3>1. length - 1 \in Nat /\ length - 1 # 0 BY <1>1, <1>2, <1>11
  <3>2. \A i \in Nat, j \in Nat : (i - 1) + (j + 1) = i + j OBVIOUS
  <3>3. (length - 1) + (Len(dest) + 1) = length + Len(dest) BY <1>2, <1>3, <3>2
  <3> QED BY <1>2, <1>3, <2>1, <3>1, <3>3
 <2> HIDE DEF Accounted
 <2> QED BY <1>1, <1>2, <1>3, <1>9, <2>1, <2>3, <2>4 DEF ReaderInv
<1> QED BY <1>10, <1>11

LEMMA BlockUsedUpKeeps ==
  ASSUME ReaderInv, Reader!BlockUsedUp PROVE ReaderInv'
<1>1. /\ length > 0 /\ state = "BASE64" /\ buffered = 0 /\ eof64
      /\ seen_nl' = seen_nl /\ buffered' = buffered /\ buffer' = buffer /\ eof64' = eof64
      /\ checksum' = checksum /\ unarmoured' = unarmoured /\ errors' = errors
      /\ blocks' = blocks
  BY DEF Reader!BlockUsedUp, Reader!decoder
<1>2. CASE dest # <<>>
 <2>1. dest' = <<>> /\ length' = 0 /\ ret' = "minus" /\ state' = state
   BY <1>2 DEF Reader!BlockUsedUp, Reader!EndsRead, Reader!Return
 <2>2. Accounted' BY <1>1, <2>1 DEF Accounted
 <2>3. 0 + Len(<<>>) <= MaxRead BY ArmourAssumption, SequenceEmpty
 <2> HIDE DEF Accounted
 <2> QED BY <1>1, <2>1, <2>2, <2>3, SequenceEmpty DEF ReaderInv
<1>3. CASE dest = <<>>
 <2>1. state' = "AT_TRAILER_NAME" /\ length' = length /\ dest' = dest /\ ret' = ret
   BY <1>3 DEF Reader!BlockUsedUp, Reader!EndsRead, Reader!call
 <2>2. Taken = <<>>
  <3>1. Held = <<>> BY <1>1 DEF Held
  <3>2. Taken = <<>> \o <<>> BY <1>1, <1>3, <3>1 DEF Taken
  <3> QED BY <3>2, SequenceEmpty, SequenceConcat
 <2>3. Taken' = <<>> BY <2>1 DEF Taken
 <2>4. Accounted' BY <1>1, <2>1, <2>2, <2>3 DEF ReaderInv, Accounted
 <2> HIDE DEF Accounted
 <2> QED BY <1>1, <1>3, <2>1, <2>4 DEF ReaderInv
<1> QED BY <1>2, <1>3

LEMMA ReadNoTrailerKeeps ==
  ASSUME ReaderInv, Reader!ReadNoTrailer PROVE ReaderInv'
<1>1. /\ length > 0 /\ state = "AT_TRAILER_NAME"
      /\ UNCHANGED <<state, Reader!decoder, unarmoured, blocks>>
      /\ \E i : Reader!Consume(i)
      /\ Reader!Return("minus") \/ UNCHANGED Reader!call
      /\ errors' = errors \/ errors' = TRUE
  BY DEF Reader!ReadNoTrailer
<1>2. seen_nl' \in BOOLEAN /\ errors' \in BOOLEAN /\ (errors => errors')
 <2>1. seen_nl' \in BOOLEAN BY <1>1, ConsumeNL DEF ReaderInv
 <2>2. errors \in BOOLEAN BY DEF ReaderInv
 <2>3. CASE errors' = errors BY <2>1, <2>2, <2>3
 <2>4. CASE errors' = TRUE BY <2>1, <2>4
 <2> QED BY <1>1, <2>3, <2>4
<1>3. Gives \/ UNCHANGED Reader!call BY <1>1 DEF Gives, Reader!Return
<1> QED BY <1>1, <1>2, <1>3, TurnKeeps

LEMMA ReadTrailerKeeps ==
  ASSUME ReaderInv, Reader!ReadTrailer PROVE ReaderInv'
<1> DEFINE n == Len(blocks)
<1>1. /\ length > 0 /\ state = "AT_TRAILER_NAME" /\ unarmoured' = unarmoured
      /\ \/ /\ \E i : Reader!Consume(i)
            /\ Reader!Return("minus") /\ \E wrong : errors' = (errors \/ wrong)
            /\ UNCHANGED <<state, Reader!decoder, blocks>>
         \/ \E name, at, wrong : Reader!OpenBlock(name, at, wrong)
         \/ /\ \E i : Reader!Consume(i)
            /\ state' = "OUTSIDE_BLOCK" /\ \E wrong : errors' = (errors \/ wrong)
            /\ \E name : blocks' = [blocks EXCEPT ![n].trailer = name]
            /\ UNCHANGED <<Reader!decoder, Reader!call>>
  BY DEF Reader!ReadTrailer
<1>2. errors \in BOOLEAN /\ unarmoured' = <<>> /\ dest = <<>> /\ ret # "abort"
  BY <1>1 DEF ReaderInv
<1>3. CASE /\ \E i : Reader!Consume(i)
           /\ Reader!Return("minus") /\ \E wrong : errors' = (errors \/ wrong)
           /\ UNCHANGED <<state, Reader!decoder, blocks>>
 <2>1. seen_nl' \in BOOLEAN BY <1>3, ConsumeNL DEF ReaderInv
 <2>2. errors' \in BOOLEAN /\ (errors => errors') BY <1>3
 <2>3. Gives BY <1>3 DEF Gives, Reader!Return
 <2> QED BY <1>1, <1>2, <1>3, <2>1, <2>2, <2>3, TurnKeeps
<1>4. CASE \E name, at, wrong : Reader!OpenBlock(name, at, wrong)
  BY <1>1, <1>2, <1>4, OpenBlockKeeps
<1>5. CASE /\ \E i : Reader!Consume(i)
           /\ state' = "OUTSIDE_BLOCK" /\ \E wrong : errors' = (errors \/ wrong)
           /\ \E name : blocks' = [blocks EXCEPT ![n].trailer = name]
           /\ UNCHANGED <<Reader!decoder, Reader!call>>
 <2>1. seen_nl' \in BOOLEAN BY <1>5, ConsumeNL DEF ReaderInv
 <2>2. errors' \in BOOLEAN /\ (errors => errors') BY <1>5
 <2>3. /\ state' = "OUTSIDE_BLOCK" /\ buffered' = buffered /\ eof64' = eof64
       /\ checksum' = checksum /\ length' = length /\ dest' = dest /\ ret' = ret
   BY <1>5 DEF Reader!decoder, Reader!call
 <2>4. PICK name : blocks' = [blocks EXCEPT ![n].trailer = name] BY <1>5
 <2> DEFINE d == [blocks[n] EXCEPT !.trailer = name]
 <2>5. blocks' = [blocks EXCEPT ![n] = d] BY <2>4
 <2>6. /\ IsSequence(blocks) /\ blocks # <<>> /\ \A k \in 1 .. Len(blocks) : IsBlock(blocks[k])
   BY <1>1 DEF ReaderInv
 <2>7. n \in 1 .. n BY <2>6, SequenceFacts
 <2>8. IsBlock(d) /\ d.octets = blocks[n].octets BY <2>6, <2>7, BlockChanged
 <2> HIDE DEF d
 <2>9. /\ IsSequence(blocks') /\ blocks' # <<>> /\ blocks'[Len(blocks')] = d
       /\ \A k \in 1 .. Len(blocks') : IsBlock(blocks'[k])
   BY <2>5, <2>6, <2>8, BlocksChanged
 <2>10. Taken' = Taken BY <1>1, <2>3 DEF Taken
 <2>11. Accounted'
  <3>1. errors \/ checksum = blocks[n].octets \o Taken
    BY <1>1, <1>2, <2>6 DEF ReaderInv, Accounted
  <3>2. blocks'[Len(blocks')].octets = blocks[n].octets BY <2>8, <2>9
  <3> QED BY <2>2, <2>3, <2>10, <3>1, <3>2 DEF Accounted
 <2> HIDE DEF Accounted
 <2> QED BY <1>1, <1>2, <2>1, <2>2, <2>3, <2>9, <2>11 DEF ReaderInv
<1> QED BY <1>1, <1>3, <1>4, <1>5

\* Neither the file nor the writer touches the reader.
LEMMA OthersKeepReader ==
  ASSUME ReaderInv, UNCHANGED reading PROVE ReaderInv'
<1>1. /\ state' = state /\ seen_nl' = seen_nl /\ buffered' = buffered /\ buffer' = buffer
      /\ eof64' = eof64 /\ checksum' = checksum /\ unarmoured' = unarmoured
      /\ length' = length /\ dest' = dest /\ ret' = ret /\ errors' = errors
      /\ blocks' = blocks
  BY DEF reading
<1>2. Accounted'
 <2>1. Taken' = Taken BY <1>1 DEF Taken, Held
 <2> QED BY <1>1, <2>1 DEF ReaderInv, Accounted
<1> HIDE DEF Accounted
<1> QED BY <1>1, <1>2 DEF ReaderInv

-----------------------------------------------------------------------------
(* Both, and the file between them *)

ArmourInv == WriterInv /\ ReaderInv /\ altered \in BOOLEAN /\ over \in BOOLEAN

LEMMA ArmourStart == ArmourInit => ArmourInv
<1>1. ArmourInit => altered = FALSE /\ over = FALSE BY DEF ArmourInit
<1> QED BY <1>1, WriterInit, ReaderInit DEF ArmourInv

\* Every turn of the reader is one of those above.
LEMMA TurnOfReader ==
  ASSUME ReaderInv, Reader!Step PROVE ReaderInv'
BY ReadLineKeeps, ReadNoHeaderKeeps, ReadHeaderKeeps, DecodeGroupKeeps, DecodeStopsKeeps,
   DecodeEndKeeps, GiveOctetKeeps, BlockUsedUpKeeps, ReadNoTrailerKeeps, ReadTrailerKeeps
   DEF Reader!Step

LEMMA ArmourStep == ArmourInv /\ [ArmourNext]_armourVars => ArmourInv'
<1> SUFFICES ASSUME ArmourInv, [ArmourNext]_armourVars PROVE ArmourInv' OBVIOUS
<1>1. WriterInv /\ ReaderInv /\ altered \in BOOLEAN /\ over \in BOOLEAN BY DEF ArmourInv
<1>2. ASSUME NEW t \in Texts, WriteText(t) PROVE ArmourInv'
 <2>1. UNCHANGED <<writing, reading, stage, written, altered, over>> BY <1>2 DEF WriteText
 <2> QED BY <1>1, <2>1, OthersKeepWriter, OthersKeepReader DEF ArmourInv
<1>3. ASSUME NEW t \in Writer!Types, Push(t) PROVE ArmourInv'
 <2>1. UNCHANGED <<reading, altered, over>> BY <1>3 DEF Push
 <2> QED BY <1>1, <1>3, <2>1, PushKeeps, OthersKeepReader DEF ArmourInv
<1>4. CASE WriteOctet
 <2>1. UNCHANGED <<reading, altered, over>> BY <1>4 DEF WriteOctet
 <2> QED BY <1>1, <1>4, <2>1, WriteOctetKeeps, OthersKeepReader DEF ArmourInv
<1>5. CASE Finalise
 <2>1. UNCHANGED <<reading, altered, over>> BY <1>5 DEF Finalise
 <2> QED BY <1>1, <1>5, <2>1, FinaliseKeeps, OthersKeepReader DEF ArmourInv
<1>6. CASE Damage
 <2>1. UNCHANGED <<writing, reading, written, over>> /\ stage' = "read" /\ altered' = TRUE
   BY <1>6 DEF Damage
 <2> QED BY <1>1, <2>1, OthersKeepWriter, OthersKeepReader DEF ArmourInv
<1>7. CASE StartReading
 <2>1. UNCHANGED <<writing, reading, written, altered, over>> /\ stage' = "read"
   BY <1>7 DEF StartReading
 <2> QED BY <1>1, <2>1, OthersKeepWriter, OthersKeepReader DEF ArmourInv
<1>8. ASSUME NEW n \in 1 .. MaxRead, Call(n) PROVE ArmourInv'
 <2>1. Reader!Call(n) /\ UNCHANGED <<writing, stage, written, altered>> BY <1>8 DEF Call
 <2>2. over' \in BOOLEAN BY <1>8 DEF Call
 <2> QED BY <1>1, <2>1, <2>2, CallKeeps, OthersKeepWriter DEF ArmourInv
<1>9. CASE Read
 <2>1. Reader!Step /\ UNCHANGED <<writing, stage, written, altered, over>> BY <1>9 DEF Read
 <2> QED BY <1>1, <2>1, TurnOfReader, OthersKeepWriter DEF ArmourInv
<1>10. CASE UNCHANGED armourVars
 <2>1. UNCHANGED <<writing, reading, stage, written, altered, over>> BY <1>10 DEF armourVars
 <2> QED BY <1>1, <2>1, OthersKeepWriter, OthersKeepReader DEF ArmourInv
<1> QED BY <1>2, <1>3, <1>4, <1>5, <1>6, <1>7, <1>8, <1>9, <1>10 DEF ArmourNext

\* Writer and reader keep what they know of themselves, for lines, files and
\* reads of any length, texts and damage of any kind.
THEOREM ArmourInvariant == ArmourSpec => []ArmourInv
<1>1. ArmourInit => ArmourInv BY ArmourStart
<1>2. ArmourInv /\ [ArmourNext]_armourVars => ArmourInv' BY ArmourStep
<1> QED BY <1>1, <1>2, PTL DEF ArmourSpec

\* Lines keep to their length, a call never gives more than it was asked for,
\* and text is kept back only outside of blocks (linebreak_writer,
\* armoured_data_reader).
THEOREM ArmourAlwaysTyped == ArmourSpec => []ArmourTypeOK
<1>1. ArmourInv => ArmourTypeOK
 <2> SUFFICES ASSUME ArmourInv PROVE ArmourTypeOK OBVIOUS
 <2>1. /\ state \in {"OUTSIDE_BLOCK", "BASE64", "AT_TRAILER_NAME"}
       /\ ret \in {"read", "zero", "minus", "abort"} /\ stage \in {"between", "block", "read"}
       /\ {seen_nl, eof64, errors, altered, over} \subseteq BOOLEAN
       /\ buffered \in 0 .. 3 /\ Len(pending) \in 0 .. 2 /\ column \in 0 .. BreakPos
       /\ state # "OUTSIDE_BLOCK" => unarmoured = <<>> /\ blocks # <<>>
   BY DEF ArmourInv, WriterInv, ReaderInv
 <2>2. length + Len(dest) \in 0 .. MaxRead
  <3>1. length \in Nat /\ IsSequence(dest) /\ length + Len(dest) <= MaxRead
    BY DEF ArmourInv, ReaderInv
  <3>2. Len(dest) \in Nat BY <3>1, SequenceFacts
  <3>3. \A i \in Nat, j \in Nat, m \in Nat : i + j <= m => i + j \in 0 .. m OBVIOUS
  <3>4. MaxRead \in Nat BY ArmourAssumption
  <3> QED BY <3>1, <3>2, <3>3, <3>4
 <2> QED BY <2>1, <2>2 DEF ArmourTypeOK
<1> QED BY <1>1, ArmourInvariant, PTL

\* What is given to the application, is in the hands of the call or is held in
\* the buffer makes up, in this order, what the checksum is taken over, until
\* the file is found to be damaged; and the same for the octets written
\* (base64_writer, decode64, armoured_data_reader).
THEOREM OctetsAlwaysAccounted == ArmourSpec => []OctetsAccounted
<1>1. ArmourInv => OctetsAccounted
 <2> SUFFICES ASSUME ArmourInv PROVE OctetsAccounted OBVIOUS
 <2>1. stage = "block" =>
         sum = Last(written).octets /\ 3 * digits + Len(pending) = 4 * Len(sum)
   BY DEF ArmourInv, WriterInv, Last
 <2>2. \/ errors \/ ret = "abort" \/ blocks = <<>>
       \/ checksum = Last(blocks).octets \o Taken
       \/ state = "BASE64" /\ eof64 /\ buffered = 0 /\ length = 0
   BY DEF ArmourInv, ReaderInv, Accounted, Last
 <2> QED BY <2>1, <2>2 DEF OctetsAccounted, Taken
<1> QED BY <1>1, ArmourInvariant, PTL

-----------------------------------------------------------------------------
(* Places of what is read *)

LEMMA Largest ==
  ASSUME NEW T, T \subseteq Nat, T # {}, NEW b \in Nat, \A n \in T : n <= b
  PROVE  \E n \in T : \A m \in T : m <= n
<1> DEFINE U == {b - n : n \in T}
<1>1. U \subseteq Nat /\ U # {}
 <2>1. \A n \in Nat : n <= b => b - n \in Nat OBVIOUS
 <2>2. \A n \in T : b - n \in Nat BY <2>1
 <2> QED BY <2>2
<1>2. PICK u \in U : \A v \in U : u <= v
 <2> HIDE DEF U
 <2> QED BY <1>1, Smallest
<1>3. PICK n \in T : u = b - n BY <1>2
<1>4. ASSUME NEW m \in T PROVE m <= n
 <2>1. b - m \in U /\ m \in Nat /\ n \in Nat BY <1>3
 <2>2. b - n <= b - m BY <1>2, <1>3, <2>1
 <2> QED BY <2>1, <2>2
<1> QED BY <1>4

LEMMA OfTwo ==
  ASSUME NEW i \in Int, NEW j \in Int
  PROVE  /\ Reader!Max({i, j}) = IF i >= j THEN i ELSE j
         /\ Reader!Min({i, j}) = IF i <= j THEN i ELSE j
<1> DEFINE a == IF i >= j THEN i ELSE j
           b == IF i <= j THEN i ELSE j
<1>1. a \in {i, j} /\ \A y \in {i, j} : a >= y OBVIOUS
<1>2. \A x \in {i, j} : (\A y \in {i, j} : x >= y) => x = a OBVIOUS
<1>3. b \in {i, j} /\ \A y \in {i, j} : b <= y OBVIOUS
<1>4. \A x \in {i, j} : (\A y \in {i, j} : x <= y) => x = b OBVIOUS
<1>5. Reader!Max({i, j}) = a
 <2> HIDE DEF a
 <2> QED BY <1>1, <1>2 DEF Reader!Max
<1>6. Reader!Min({i, j}) = b
 <2> HIDE DEF b
 <2> QED BY <1>3, <1>4 DEF Reader!Min
<1> QED BY <1>5, <1>6

\* From every place on there is a first one of a set, or the end.
LEMMA FirstPlace ==
  ASSUME NEW i \in Nat, NEW e \in Nat, NEW T
  PROVE  \E j \in i .. Reader!Max({i, e}) :
           (j >= e \/ j \in T) /\ \A k \in i .. j - 1 : k \notin T
<1> DEFINE m == Reader!Max({i, e})
           W == {j \in i .. m : j >= e \/ j \in T}
<1>1. m \in Nat /\ i <= m /\ e <= m BY OfTwo
<1> HIDE DEF m
<1>2. m \in W /\ W \subseteq Nat BY <1>1
<1>3. PICK j \in W : \A k \in W : j <= k
 <2>1. W # {} /\ W \subseteq Nat BY <1>2
 <2> HIDE DEF W
 <2> QED BY <2>1, Smallest
<1>4. j \in i .. m /\ (j >= e \/ j \in T) OBVIOUS
<1>5. ASSUME NEW k \in i .. j - 1 PROVE k \notin T
 <2> SUFFICES ASSUME k \in T PROVE FALSE OBVIOUS
 <2>1. k \in i .. m /\ k < j BY <1>1, <1>4
 <2>2. k \in W BY <2>1
 <2>3. j <= k BY <1>3, <2>2
 <2> QED BY <1>1, <1>4, <2>1, <2>3
<1> QED BY <1>4, <1>5 DEF m

\* A place from i on, behind the end of wire only if i is.
From(i, j) == j \in Nat /\ i <= j /\ (j > i => j <= Reader!EndOfWire)

LEMMA EndIs ==
  ASSUME IsSequence(wire)
  PROVE  Reader!EndOfWire \in Nat \ {0} /\ Reader!EndOfWire = Len(wire) + 1 /\ Len(wire) \in Nat
<1>1. Len(wire) \in Nat BY SequenceFacts
<1> QED BY <1>1 DEF Reader!EndOfWire

LEMMA LineEndIs ==
  ASSUME IsSequence(wire), NEW i \in Nat
  PROVE  /\ From(i, Reader!LineEnd(i))
         /\ Reader!LineEnd(i) < Reader!EndOfWire => wire[Reader!LineEnd(i)] = Reader!NL
<1> DEFINE e == Reader!EndOfWire
           T == {k \in Nat : wire[k] = Reader!NL}
           P(j) == (j >= e \/ wire[j] = Reader!NL)
                      /\ \A k \in i .. j - 1 : ~ (wire[k] = Reader!NL)
<1>1. e \in Nat BY EndIs
<1> HIDE DEF e
<1>2. PICK m : m = Reader!Max({i, e}) OBVIOUS
<1>3. m \in Nat /\ i <= m /\ (m > i => m <= e) BY <1>1, <1>2, OfTwo
<1>4. \E j \in i .. m : P(j)
 <2>1. PICK j \in i .. m : (j >= e \/ j \in T) /\ \A k \in i .. j - 1 : k \notin T
   BY <1>1, <1>2, FirstPlace
 <2>2. P(j) BY <1>3, <2>1
 <2> QED BY <2>2
<1>5. Reader!LineEnd(i) = CHOOSE j \in i .. m : P(j) BY <1>2 DEF Reader!LineEnd, Reader!First, e
<1>6. Reader!LineEnd(i) \in i .. m /\ P(Reader!LineEnd(i))
 <2> HIDE DEF P
 <2> QED BY <1>4, <1>5
<1> QED BY <1>1, <1>3, <1>6 DEF From, e

LEMMA SkipIs ==
  ASSUME IsSequence(wire), NEW i \in Nat PROVE From(i, Reader!Skip(i))
<1> DEFINE e == Reader!EndOfWire
           T == {k \in Nat : wire[k] # Reader!CR}
           P(j) == (j >= e \/ wire[j] # Reader!CR)
                      /\ \A k \in i .. j - 1 : ~ (wire[k] # Reader!CR)
<1>1. e \in Nat BY EndIs
<1> HIDE DEF e
<1>2. PICK m : m = Reader!Max({i, e}) OBVIOUS
<1>3. m \in Nat /\ i <= m /\ (m > i => m <= e) BY <1>1, <1>2, OfTwo
<1>4. \E j \in i .. m : P(j)
 <2>1. PICK j \in i .. m : (j >= e \/ j \in T) /\ \A k \in i .. j - 1 : k \notin T
   BY <1>1, <1>2, FirstPlace
 <2>2. P(j) BY <1>3, <2>1
 <2> QED BY <2>2
<1>5. Reader!Skip(i) = CHOOSE j \in i .. m : P(j) BY <1>2 DEF Reader!Skip, Reader!First, e
<1>6. Reader!Skip(i) \in i .. m
 <2> HIDE DEF P
 <2> QED BY <1>4, <1>5
<1> QED BY <1>1, <1>3, <1>6 DEF From, e

LEMMA Next4Is ==
  ASSUME IsSequence(wire), NEW i \in Nat PROVE From(i, Reader!Next4(i))
<1> DEFINE e == Reader!EndOfWire
           S(c) == Reader!IsDigit(c) \/ Reader!Stops(c)
           T == {k \in Nat : S(wire[k])}
           P(j) == (j >= e \/ S(wire[j])) /\ \A k \in i .. j - 1 : ~ S(wire[k])
<1>1. e \in Nat BY EndIs
<1> HIDE DEF e
<1>2. PICK m : m = Reader!Max({i, e}) OBVIOUS
<1>3. m \in Nat /\ i <= m /\ (m > i => m <= e) BY <1>1, <1>2, OfTwo
<1>4. \E j \in i .. m : P(j)
 <2>1. PICK j \in i .. m : (j >= e \/ j \in T) /\ \A k \in i .. j - 1 : k \notin T
   BY <1>1, <1>2, FirstPlace
 <2>2. P(j) BY <1>3, <2>1
 <2> QED BY <2>2
<1>5. Reader!Next4(i) = CHOOSE j \in i .. m : P(j) BY <1>2 DEF Reader!Next4, Reader!First, e
<1>6. Reader!Next4(i) \in i .. m
 <2> HIDE DEF P
 <2> QED BY <1>4, <1>5
<1> QED BY <1>1, <1>3, <1>6 DEF From, e

LEMMA NameEndIs ==
  ASSUME IsSequence(wire), NEW i \in Nat PROVE From(i, Reader!NameEnd(i))
<1> DEFINE e == Reader!EndOfWire
           T == {k \in Nat : wire[k] = Reader!DASH}
           P(j) == (j >= e \/ wire[j] = Reader!DASH)
                      /\ \A k \in i .. j - 1 : ~ (wire[k] = Reader!DASH)
<1>1. e \in Nat BY EndIs
<1> HIDE DEF e
<1>2. PICK m : m = Reader!Max({i, e}) OBVIOUS
<1>3. m \in Nat /\ i <= m /\ (m > i => m <= e) BY <1>1, <1>2, OfTwo
<1>4. \E j \in i .. m : P(j)
 <2>1. PICK j \in i .. m : (j >= e \/ j \in T) /\ \A k \in i .. j - 1 : k \notin T
   BY <1>1, <1>2, FirstPlace
 <2>2. P(j) BY <1>3, <2>1
 <2> QED BY <2>2
<1> DEFINE d == CHOOSE j \in i .. m : P(j)
<1>5. Reader!NameEnd(i) = Reader!Min({d, i + BufSize - 1})
  BY <1>2 DEF Reader!NameEnd, Reader!First, e
<1>6. d \in i .. m
 <2> HIDE DEF P
 <2> QED BY <1>4
<1> HIDE DEF d
<1>7. d \in Nat /\ i + BufSize - 1 \in Nat /\ i <= i + BufSize - 1 BY <1>3, <1>6, ArmourAssumption, SMTT(30)
<1> DEFINE f == i + BufSize - 1
<1>8. d \in Int /\ f \in Nat /\ f \in Int /\ i <= f /\ Reader!NameEnd(i) = Reader!Min({d, f})
  BY <1>5, <1>7
<1> HIDE DEF f
<1>9. Reader!NameEnd(i) = IF d <= f THEN d ELSE f BY <1>8, OfTwo
<1> QED BY <1>1, <1>3, <1>6, <1>7, <1>8, <1>9 DEF From, e

LEMMA Read4Is ==
  ASSUME IsSequence(wire), NEW i \in Nat PROVE Reader!Read4(i).at \in Nat
<1>1. ASSUME NEW j \in Nat PROVE Reader!GoOn(j) \in Nat
 <2>1. From(j + 1, Reader!Next4(j + 1)) BY Next4Is
 <2> QED BY <2>1 DEF From, Reader!GoOn
<1>2. Reader!Next4(i) \in Nat BY Next4Is DEF From
<1>3. Reader!Read4(i).at = Reader!GoOn(Reader!GoOn(Reader!GoOn(Reader!Next4(i))))
  BY DEF Reader!Read4
<1> QED BY <1>1, <1>2, <1>3

\* Some places with what was found there, as Match takes them.
Place == [at : Nat, ok : BOOLEAN]

LEMMA ExpectIs ==
  ASSUME NEW i \in Nat, NEW c PROVE Reader!Expect(i, c) \in Place
BY DEF Reader!Expect, Place

LEMMA FourDashesIs ==
  ASSUME NEW i \in Nat PROVE Reader!FourDashes(i) \in Seq(Place)
<1>1. \A k \in 1 .. 4 : Reader!Expect(i + k, Reader!DASH) \in Place BY ExpectIs
<1>2. Reader!FourDashes(i) \in [1 .. 4 -> Place] BY <1>1 DEF Reader!FourDashes
<1> QED BY <1>2, SeqDef

LEMMA MatchIs ==
  ASSUME NEW p \in Seq(Place), Len(p) # 0 PROVE Reader!Match(p).at \in Nat
<1> DEFINE T == {k \in DOMAIN p : ~ p[k].ok} \cup {Len(p)}
<1>1. Len(p) \in Nat /\ DOMAIN p = 1 .. Len(p) /\ \A k \in 1 .. Len(p) : p[k].at \in Nat
 <2>1. Len(p) \in Nat /\ p \in [1 .. Len(p) -> Place] BY LenProperties
 <2>2. \A x \in Place : x.at \in Nat BY DEF Place
 <2> HIDE DEF Place
 <2> QED BY <2>1, <2>2
<1>2. T \subseteq 1 .. Len(p) /\ T # {} BY <1>1
<1>3. Reader!Match(p) = p[Reader!Min(T)] BY DEF Reader!Match
<1> HIDE DEF T
<1>4. Reader!Min(T) \in T
 <2>1. T \subseteq Nat BY <1>1, <1>2
 <2>2. PICK n \in T : \A m \in T : n <= m BY <1>2, <2>1, Smallest
 <2> QED BY <2>2 DEF Reader!Min
<1> QED BY <1>1, <1>2, <1>3, <1>4

LEMMA PlacesJoined ==
  ASSUME NEW p \in Seq(Place), NEW q \in Seq(Place)
  PROVE  p \o q \in Seq(Place) /\ (Len(p) # 0 \/ Len(q) # 0 => Len(p \o q) # 0)
<1>1. p \o q \in Seq(Place) /\ Len(p \o q) = Len(p) + Len(q) BY ConcatProperties
<1>2. Len(p) \in Nat /\ Len(q) \in Nat OBVIOUS
<1> QED BY <1>1, <1>2

LEMMA OnePlace ==
  ASSUME NEW x \in Place PROVE <<x>> \in Seq(Place) /\ Len(<<x>>) # 0
OBVIOUS

LEMMA HeaderLineIs ==
  ASSUME IsSequence(wire) PROVE Reader!HeaderLine.at \in Nat
<1> DEFINE d == Reader!NameEnd(6)
           p == [k \in 1 .. 5 |-> Reader!Expect(k, Reader!DASH)]
           q == <<Reader!Expect(d, Reader!DASH)>>
           r == <<Reader!Expect(Reader!Skip(d + 5), Reader!NL)>>
<1>1. d \in Nat BY NameEndIs DEF From
<1>2. Reader!Skip(d + 5) \in Nat BY <1>1, SkipIs DEF From
<1> HIDE DEF d
<1>3. p \in Seq(Place)
 <2>1. \A k \in 1 .. 5 : Reader!Expect(k, Reader!DASH) \in Place BY ExpectIs
 <2>2. p \in [1 .. 5 -> Place] BY <2>1
 <2> QED BY <2>2, SeqDef
<1>4. q \in Seq(Place) /\ r \in Seq(Place) /\ Len(r) # 0 BY <1>1, <1>2, ExpectIs, OnePlace
<1>5. Reader!HeaderLine = Reader!Match(p \o q \o Reader!FourDashes(d) \o r)
  BY DEF Reader!HeaderLine, d
<1> HIDE DEF p, q, r
<1>6. /\ p \o q \o Reader!FourDashes(d) \o r \in Seq(Place)
      /\ Len(p \o q \o Reader!FourDashes(d) \o r) # 0
 <2>1. p \o q \in Seq(Place) BY <1>3, <1>4, PlacesJoined
 <2>2. p \o q \o Reader!FourDashes(d) \in Seq(Place) BY <1>1, <2>1, FourDashesIs, PlacesJoined
 <2> QED BY <1>4, <2>2, PlacesJoined
<1> QED BY <1>5, <1>6, MatchIs

\* What follows a group of digits, at place at.
LEMMA EndingIs ==
  ASSUME IsSequence(wire), NEW g, g.at \in Nat
  PROVE  Reader!Match(Reader!Ending(g)).at \in Nat
<1> DEFINE a  == Reader!ChecksumAt(g)
           e  == Reader!PaddingEnd(g)
           s  == Reader!Read4(a + 1)
           nl == Reader!Skip(s.at + 1)
           none  == <<[at |-> g.at, ok |-> g.c = Reader!EQ /\ Reader!PrevNL(g.at)]>>
           some  == <<Reader!Expect(g.at, Reader!EQ), Reader!Expect(e, Reader!EQ),
                      Reader!Expect(a - 1, Reader!NL), Reader!Expect(a, Reader!EQ)>>
           front == IF g.digits = <<>> THEN none ELSE some
           sum1  == <<[at |-> s.at, ok |-> Len(s.digits) = 4], Reader!Expect(nl, Reader!NL),
                      Reader!Expect(nl + 1, Reader!DASH)>>
<1>1. e \in Nat BY DEF Reader!PaddingEnd
<1>2. /\ a \in Nat
      /\ g.digits # <<>> => a - 1 \in Nat
 <2>1. Reader!Skip(e + 1) \in Nat BY <1>1, SkipIs DEF From
 <2> HIDE DEF e
 <2> QED BY <2>1 DEF Reader!ChecksumAt, e
<1> HIDE DEF a, e
<1>3. s.at \in Nat BY <1>2, Read4Is
<1> HIDE DEF s
<1>4. nl \in Nat BY <1>3, SkipIs DEF From
<1> HIDE DEF nl
<1>5. front \in Seq(Place)
 <2>1. none \in Seq(Place) BY OnePlace DEF Place
 <2>2. g.digits # <<>> => some \in Seq(Place)
  <3> SUFFICES ASSUME g.digits # <<>> PROVE some \in Seq(Place) OBVIOUS
  <3>1. /\ Reader!Expect(g.at, Reader!EQ) \in Place /\ Reader!Expect(e, Reader!EQ) \in Place
        /\ Reader!Expect(a - 1, Reader!NL) \in Place /\ Reader!Expect(a, Reader!EQ) \in Place
    BY <1>1, <1>2, ExpectIs
  <3> QED BY <3>1
 <2> HIDE DEF none, some
 <2> QED BY <2>1, <2>2
<1>6. sum1 \in Seq(Place) /\ Len(sum1) # 0
 <2>1. /\ [at |-> s.at, ok |-> Len(s.digits) = 4] \in Place
       /\ Reader!Expect(nl, Reader!NL) \in Place /\ Reader!Expect(nl + 1, Reader!DASH) \in Place
   BY <1>3, <1>4, ExpectIs DEF Place
 <2> HIDE DEF Place
 <2>2. Len(sum1) = 3 OBVIOUS
 <2> QED BY <2>1, <2>2
<1>7. Reader!FourDashes(nl + 1) \in Seq(Place) BY <1>4, FourDashesIs
<1>8. Reader!Ending(g) = front \o (sum1 \o Reader!FourDashes(nl + 1))
  BY DEF Reader!Ending, Reader!ChecksumLine, a, e, s, nl
<1> HIDE DEF front, sum1
<1>9. /\ Reader!Ending(g) \in Seq(Place) /\ Len(Reader!Ending(g)) # 0
  BY <1>5, <1>6, <1>7, <1>8, PlacesJoined
<1> QED BY <1>9, MatchIs

LEMMA ParseHeadersIs ==
  ASSUME IsSequence(wire), NEW i \in Nat PROVE Reader!ParseHeaders(i).at \in Nat
<1> DEFINE Line(j) == Reader!NoCRs(SubSeq(wire, j, Reader!LineEnd(j) - 1))
           starts == {i} \cup {j + 1 : j \in {k \in i .. Len(wire) : wire[k] = Reader!NL}}
           Stop(j) == \/ Reader!LineEnd(j) >= Reader!EndOfWire
                      \/ Reader!VERSION \notin Reader!ToSet(Line(j))
           T == {j \in starts : Stop(j)}
<1>1. Len(wire) \in Nat /\ Reader!EndOfWire = Len(wire) + 1 BY EndIs
<1>2. Reader!ParseHeaders(i).at = Reader!LineEnd(Reader!Min(T)) BY DEF Reader!ParseHeaders
<1>3. starts \subseteq Nat /\ starts # {} /\ \E b \in Nat : \A n \in starts : n <= b
 <2>1. \A n \in starts : n \in Nat /\ n <= i + Len(wire) + 1 BY <1>1
 <2>2. i + Len(wire) + 1 \in Nat BY <1>1
 <2> QED BY <2>1, <2>2
<1>4. \A j \in starts : i <= j BY <1>1
<1>5. \A j \in Nat : i <= j /\ j <= Len(wire) /\ wire[j] = Reader!NL => j + 1 \in starts BY <1>1
<1> HIDE DEF starts
<1>6. PICK n \in starts : \A m \in starts : m <= n BY <1>3, Largest
<1>7. Reader!LineEnd(n) >= Reader!EndOfWire
 <2>1. n \in Nat /\ i <= n BY <1>3, <1>4
 <2> DEFINE l == Reader!LineEnd(n)
 <2>2. l \in Nat /\ n <= l /\ (l < Reader!EndOfWire => wire[l] = Reader!NL)
   BY <2>1, LineEndIs DEF From
 <2> HIDE DEF l
 <2> SUFFICES ASSUME ~ (l >= Reader!EndOfWire) PROVE FALSE BY DEF l
 <2>3. l < Reader!EndOfWire /\ i <= l /\ l <= Len(wire) BY <1>1, <2>1, <2>2
 <2>4. l + 1 \in starts BY <1>5, <2>2, <2>3
 <2>5. l + 1 <= n BY <1>6, <2>4
 <2> QED BY <2>1, <2>2, <2>5
<1>8. n \in T /\ T \subseteq Nat BY <1>3, <1>7
<1> HIDE DEF T
<1>9. Reader!Min(T) \in Nat
 <2>1. PICK m \in T : \A k \in T : m <= k BY <1>8, Smallest
 <2>2. Reader!Min(T) \in T BY <2>1 DEF Reader!Min
 <2> QED BY <1>8, <2>2
<1> QED BY <1>2, <1>9, LineEndIs DEF From

-----------------------------------------------------------------------------
(* Damaged files.  Damage makes no octets up, so that a checksum in the file, *)
(* wherever it is taken for one, is that of a block.                          *)

\* The crumbs that are in a file: of the octets of blocks, of the checksums of
\* blocks, and of padding.
CrumbsOf(sums) ==
  {<<Block(b), m, k>> : b \in Nat \ {0}, m \in Nat, k \in Nat}
    \cup {<<s, m, k>> : s \in sums, m \in Nat, k \in Nat} \cup {ZERO}

\* A digit is made of these, and a name is that of a header or a trailer.
Known(sums, c) ==
  /\ Len(c) = 3 => c \in Seq(CrumbsOf(sums))
  /\ Len(c) = 2 => c[1] \in {"BEGIN", "END"} /\ c = <<c[1], c[2]>>

\* All characters are such.
AllKnown(sums, s) == s \in Seq({c \in Range(s) : Known(sums, c)})

LEMMA KnownSequence ==
  ASSUME NEW sums, NEW S, NEW s \in Seq(S), \A c \in S : Known(sums, c)
  PROVE  AllKnown(sums, s) /\ IsSequence(s)
<1> DEFINE R == {c \in Range(s) : Known(sums, c)}
<1>1. s \in Seq(Range(s)) BY SeqOfRange
<1>2. Range(s) \subseteq S BY RangeOfSeq
<1>3. R = Range(s)
 <2> HIDE DEF Known
 <2> QED BY <1>2
<1> QED BY <1>1, <1>3 DEF AllKnown, IsSequence

LEMMA KnownCharacters ==
  ASSUME NEW sums, NEW s, AllKnown(sums, s)
  PROVE  \E S : s \in Seq(S) /\ \A c \in S : Known(sums, c)
BY DEF AllKnown

LEMMA KnownElement ==
  ASSUME NEW sums, NEW s, AllKnown(sums, s)
  PROVE  /\ IsSequence(s)
         /\ \A i \in 1 .. Len(s) : Known(sums, s[i])
<1>1. PICK S : s \in Seq(S) /\ \A c \in S : Known(sums, c) BY KnownCharacters
<1>2. \A i \in 1 .. Len(s) : s[i] \in S BY <1>1
<1>3. IsSequence(s) BY <1>1, KnownSequence
<1> QED BY <1>1, <1>2, <1>3

LEMMA KnownWhenEach ==
  ASSUME NEW sums, NEW s, IsSequence(s), \A i \in 1 .. Len(s) : Known(sums, s[i])
  PROVE  AllKnown(sums, s)
<1>1. s \in Seq(Range(s)) BY DEF IsSequence
<1>2. \A c \in Range(s) : \E i \in 1 .. Len(s) : c = s[i]
 <2>1. Range(s) = {s[i] : i \in 1 .. Len(s)} BY <1>1, LenProperties DEF Range
 <2> QED BY <2>1
<1>3. \A c \in Range(s) : Known(sums, c) BY <1>2
<1> QED BY <1>1, <1>3, KnownSequence

LEMMA KnownConcat ==
  ASSUME NEW sums, NEW s, NEW t, AllKnown(sums, s), AllKnown(sums, t)
  PROVE  AllKnown(sums, s \o t)
<1>1. PICK S : s \in Seq(S) /\ \A c \in S : Known(sums, c) BY KnownCharacters
<1>2. PICK T : t \in Seq(T) /\ \A c \in T : Known(sums, c) BY KnownCharacters
<1> DEFINE U == S \cup T
<1>3. S \subseteq U /\ T \subseteq U /\ \A c \in U : Known(sums, c) BY <1>1, <1>2
<1> HIDE DEF U
<1>4. s \in Seq(U) /\ t \in Seq(U) BY <1>1, <1>2, <1>3, SeqMonotonic
<1>5. s \o t \in Seq(U) BY <1>4, ConcatProperties
<1> QED BY <1>3, <1>5, KnownSequence

LEMMA KnownSub ==
  ASSUME NEW sums, NEW s, AllKnown(sums, s), NEW i \in Nat \ {0}, NEW j \in Int,
         i <= j => j <= Len(s)
  PROVE  AllKnown(sums, SubSeq(s, i, j))
<1>1. PICK S : s \in Seq(S) /\ \A c \in S : Known(sums, c) BY KnownCharacters
<1>2. \A k \in i .. j : s[k] \in S
 <2> TAKE k \in i .. j
 <2>1. k \in 1 .. Len(s) BY <1>1
 <2> QED BY <1>1, <2>1, ElementOfSeq
<1>3. SubSeq(s, i, j) \in Seq(S) BY <1>2, SubSeqProperties
<1> QED BY <1>1, <1>3, KnownSequence

LEMMA KnownMore ==
  ASSUME NEW sums, NEW more, sums \subseteq more
  PROVE  /\ CrumbsOf(sums) \subseteq CrumbsOf(more)
         /\ \A c : Known(sums, c) => Known(more, c)
         /\ \A s : AllKnown(sums, s) => AllKnown(more, s)
<1>1. CrumbsOf(sums) \subseteq CrumbsOf(more) BY DEF CrumbsOf
<1>2. Seq(CrumbsOf(sums)) \subseteq Seq(CrumbsOf(more))
 <2> HIDE DEF CrumbsOf
 <2> QED BY <1>1, SeqMonotonic
<1>3. \A c : Known(sums, c) => Known(more, c) BY <1>2 DEF Known
<1>4. ASSUME NEW s, AllKnown(sums, s) PROVE AllKnown(more, s)
 <2>1. PICK S : s \in Seq(S) /\ \A c \in S : Known(sums, c) BY <1>4, KnownCharacters
 <2> QED BY <1>3, <2>1, KnownSequence
<1> QED BY <1>1, <1>3, <1>4

\* Characters that are no digits, of one part: marks, ends of lines, text.
LEMMA MarksKnown ==
  ASSUME NEW sums
  PROVE  /\ Known(sums, DASH) /\ Known(sums, EQ) /\ Known(sums, CR) /\ Known(sums, NL)
         /\ Known(sums, VERSION)
         /\ \A t : Known(sums, <<"BEGIN", t>>) /\ Known(sums, <<"END", t>>)
<1>1. \A x : Len(<<x>>) = 1 OBVIOUS
<1>2. \A x, y : Len(<<x, y>>) = 2 /\ <<x, y>>[1] = x /\ <<x, y>>[2] = y OBVIOUS
<1> QED BY <1>1, <1>2 DEF Known, DASH, EQ, CR, NL, VERSION

LEMMA PlainKnown ==
  ASSUME NEW sums, NEW c, Plain(c) PROVE Known(sums, c)
<1>1. Len(c) # 2 /\ (Len(c) = 3 => c = <<ZERO, ZERO, ZERO>>) BY DEF Plain, IsName, IsDigit, BLANK
<1>2. <<ZERO, ZERO, ZERO>> \in Seq(CrumbsOf(sums))
 <2>1. ZERO \in CrumbsOf(sums) BY DEF CrumbsOf
 <2> HIDE DEF CrumbsOf
 <2> QED BY <2>1
<1> QED BY <1>1, <1>2 DEF Known


-----------------------------------------------------------------------------
(* What is written is known *)

\* The checksums that are in the file: those of the blocks that are finished.
Sums ==
  {written[n].octets : n \in {m \in 1 .. Len(written) : stage = "block" => m # Len(written)}}

LEMMA DigitsKnown ==
  ASSUME NEW sums, NEW s \in Seq(CrumbsOf(sums)) PROVE AllKnown(sums, Writer!Digits(s))
<1> DEFINE n == Len(s) \div 3
           d == Writer!Digits(s)
<1>1. Len(s) \in Nat /\ n \in Nat /\ 3 * n <= Len(s) OBVIOUS
<1>2. IsSequence(s) BY SequenceOf
<1>3. IsSequence(d) /\ Len(d) = n BY <1>2, DigitsSequence
<1>4. ASSUME NEW i \in 1 .. n PROVE Known(sums, d[i])
 <2> DEFINE a == 3 * i - 2
            b == 3 * i
 <2>1. a \in Int /\ b \in Int /\ a \in 1 .. Len(s) /\ b \in 1 .. Len(s) /\ a <= b /\ b - a + 1 = 3
   BY <1>1
 <2>2. d[i] = SubSeq(s, a, b) BY DEF Writer!Digits
 <2> HIDE DEF a, b, n, d
 <2>3. \A k \in a .. b : s[k] \in CrumbsOf(sums)
  <3> TAKE k \in a .. b
  <3>1. k \in 1 .. Len(s) BY <1>1, <2>1
  <3> QED BY <3>1, ElementOfSeq
 <2>4. d[i] \in Seq(CrumbsOf(sums)) /\ Len(d[i]) = 3
  <3> HIDE DEF CrumbsOf
  <3> QED BY <2>1, <2>2, <2>3, SubSeqProperties
 <2> QED BY <2>4 DEF Known
<1> HIDE DEF d, n
<1>5. AllKnown(sums, d) BY <1>3, <1>4, KnownWhenEach
<1> QED BY <1>5 DEF d

LEMMA LinesKnown ==
  ASSUME NEW sums, NEW ds, AllKnown(sums, ds) PROVE AllKnown(sums, Writer!Lines(ds))
<1> DEFINE line(i) == <<ds[i]>> \o (IF (digits + i) % LineLength = 0 THEN Writer!Newline ELSE <<>>)
           f == [i \in 1 .. Len(ds) |-> line(i)]
<1>1. PICK T : ds \in Seq(T) /\ \A c \in T : Known(sums, c) BY KnownCharacters
<1> DEFINE S == T \cup {CR, NL}
<1>2. \A c \in S : Known(sums, c) BY <1>1, MarksKnown
<1>3. Len(ds) \in Nat /\ DOMAIN ds = 1 .. Len(ds) /\ \A i \in 1 .. Len(ds) : ds[i] \in S BY <1>1
<1>4. CR \in S /\ NL \in S OBVIOUS
<1>5. Writer!Newline = <<CR, NL>> BY DEF Writer!Newline, Writer!CR, Writer!NL, CR, NL
<1> HIDE DEF S
<1>6. ASSUME NEW i \in 1 .. Len(ds) PROVE line(i) \in Seq(S)
 <2>1. <<ds[i]>> \in Seq(S) /\ <<CR, NL>> \in Seq(S) /\ <<>> \in Seq(S) BY <1>3, <1>4
 <2> QED BY <1>5, <2>1, ConcatProperties
<1>7. f \in Seq(Seq(S))
 <2>1. f \in [1 .. Len(ds) -> Seq(S)] BY <1>6
 <2> HIDE DEF f
 <2> QED BY <1>3, <2>1, SeqDef
<1>8. Writer!Lines(ds) = Writer!FlattenSeq(f) BY <1>3 DEF Writer!Lines
<1> HIDE DEF f
<1>9. Writer!Lines(ds) \in Seq(S) BY <1>7, <1>8, FlattenType
<1> QED BY <1>2, <1>9, KnownSequence

\* linebreak_writer adds line ends only.
LEMMA StackedKnown ==
  ASSUME NEW sums, NEW cs, AllKnown(sums, cs), AllKnown(sums, wire), Writer!Stacked(cs),
         column \in 0 .. BreakPos
  PROVE  AllKnown(sums, wire')
<1> DEFINE b == Writer!FoldLeft(Writer!Break, [column |-> column, out |-> <<>>], cs)
<1>1. wire' = wire \o (IF type = "MESSAGE" THEN cs ELSE b.out) BY DEF Writer!Stacked
<1>2. IsSequence(cs) /\ \A i \in 1 .. Len(cs) : Known(sums, cs[i]) BY KnownElement
<1>3. b \in Lines(Range(cs) \cup {CR, NL}) BY <1>2, BreakFold
<1> HIDE DEF b
<1>4. \A c \in Range(cs) \cup {CR, NL} : Known(sums, c)
 <2>1. Range(cs) = {cs[i] : i \in 1 .. Len(cs)} BY <1>2, RangeEquality DEF IsSequence
 <2> QED BY <1>2, <2>1, MarksKnown
<1>5. AllKnown(sums, b.out)
 <2>1. b.out \in Seq(Range(cs) \cup {CR, NL}) BY <1>3 DEF Lines
 <2> QED BY <1>4, <2>1, KnownSequence
<1> QED BY <1>1, <1>5, KnownConcat

\* Every mark and line that goes out whole.
LEMMA MarksWritten ==
  ASSUME NEW sums
  PROVE  /\ AllKnown(sums, <<>>) /\ AllKnown(sums, Writer!Newline)
         /\ AllKnown(sums, <<Writer!EQ>>) /\ AllKnown(sums, <<Writer!VERSION>>)
         /\ \A t : AllKnown(sums, Writer!Banner("BEGIN", t)) /\ AllKnown(sums, Writer!Banner("END", t))
<1>1. /\ Writer!DASH = DASH /\ Writer!EQ = EQ /\ Writer!CR = CR /\ Writer!NL = NL
      /\ Writer!VERSION = VERSION
  BY DEF Writer!DASH, Writer!EQ, Writer!CR, Writer!NL, Writer!VERSION, DASH, EQ, CR, NL, VERSION
<1>2. \A c : Known(sums, c) => AllKnown(sums, <<c>>)
 <2> SUFFICES ASSUME NEW c, Known(sums, c) PROVE AllKnown(sums, <<c>>) OBVIOUS
 <2> DEFINE S == {c}
 <2>1. <<c>> \in Seq(S) /\ \A x \in S : Known(sums, x) OBVIOUS
 <2> HIDE DEF S
 <2> QED BY <2>1, KnownSequence
<1>3. AllKnown(sums, <<>>)
 <2> DEFINE S == {}
 <2>1. <<>> \in Seq(S) /\ \A x \in S : Known(sums, x) OBVIOUS
 <2> HIDE DEF S
 <2> QED BY <2>1, KnownSequence
<1>4. AllKnown(sums, Writer!Newline)
 <2> DEFINE S == {CR, NL}
 <2>1. <<CR, NL>> \in Seq(S) /\ \A x \in S : Known(sums, x) BY MarksKnown
 <2>2. Writer!Newline = <<CR, NL>> BY <1>1 DEF Writer!Newline
 <2> HIDE DEF CR, NL, S
 <2> QED BY <2>1, <2>2, KnownSequence
<1>5. AllKnown(sums, Writer!Dashes)
 <2> DEFINE S == {DASH}
 <2>1. <<DASH, DASH, DASH, DASH, DASH>> \in Seq(S) /\ \A x \in S : Known(sums, x) BY MarksKnown
 <2>2. Writer!Dashes = <<DASH, DASH, DASH, DASH, DASH>> BY <1>1 DEF Writer!Dashes
 <2> HIDE DEF S
 <2> QED BY <2>1, <2>2, KnownSequence
<1>6. ASSUME NEW w, NEW t, Known(sums, <<w, t>>) PROVE AllKnown(sums, Writer!Banner(w, t))
 <2>1. AllKnown(sums, <<<<w, t>>>>) BY <1>2, <1>6
 <2>2. AllKnown(sums, Writer!Dashes \o <<<<w, t>>>>) BY <1>5, <2>1, KnownConcat
 <2>3. AllKnown(sums, Writer!Dashes \o <<<<w, t>>>> \o Writer!Dashes) BY <1>5, <2>2, KnownConcat
 <2> QED BY <1>4, <2>3, KnownConcat DEF Writer!Banner
<1> QED BY <1>1, <1>2, <1>3, <1>4, <1>6, MarksKnown


LEMMA PaddingKnown ==
  ASSUME NEW sums, pending \in Seq(CrumbsOf(sums)), Len(pending) \in 0 .. 2
  PROVE  AllKnown(sums, Writer!Padding)
<1> DEFINE n == 3 - Len(pending)
           z == [k \in 1 .. n |-> Writer!ZERO]
           e == [k \in 1 .. n |-> Writer!EQ]
<1>1. n \in Nat /\ Len(pending) + n = 3
 <2>1. \A k \in 0 .. 2 : 3 - k \in Nat /\ k + (3 - k) = 3 OBVIOUS
 <2> QED BY <2>1
<1>2. z \in Seq(CrumbsOf(sums)) /\ Len(z) = n
 <2>1. Writer!ZERO \in CrumbsOf(sums) BY DEF CrumbsOf, Writer!ZERO, ZERO
 <2> HIDE DEF CrumbsOf
 <2>2. z \in [1 .. n -> CrumbsOf(sums)] BY <2>1
 <2> HIDE DEF n
 <2> QED BY <1>1, <2>2, SeqDef
<1>3. AllKnown(sums, e)
 <2> DEFINE S == {EQ}
 <2>1. \A c \in S : Known(sums, c) BY MarksKnown
 <2>2. e \in [1 .. n -> S] BY DEF Writer!EQ, EQ
 <2> HIDE DEF S, n
 <2>3. e \in Seq(S) BY <1>1, <2>2, SeqDef
 <2> QED BY <2>1, <2>3, KnownSequence
<1>4. Writer!Padding = IF pending = <<>> THEN <<>> ELSE <<pending \o z>> \o e
  BY DEF Writer!Padding
<1> HIDE DEF z, e, n
<1>5. AllKnown(sums, <<pending \o z>>)
 <2> DEFINE c == pending \o z
            S == {c}
 <2>1. c \in Seq(CrumbsOf(sums)) /\ Len(c) = 3
  <3> HIDE DEF CrumbsOf
  <3> QED BY <1>1, <1>2, ConcatProperties
 <2> HIDE DEF c
 <2>2. Known(sums, c) BY <2>1 DEF Known
 <2>3. <<c>> \in Seq(S) /\ \A x \in S : Known(sums, x) BY <2>2
 <2> HIDE DEF S
 <2>4. AllKnown(sums, <<c>>) BY <2>3, KnownSequence
 <2> QED BY <2>4 DEF c
<1> QED BY <1>3, <1>4, <1>5, KnownConcat, MarksWritten

\* The digits of a checksum, and what they begin with.
LEMMA ChecksumCrumbs ==
  ASSUME NEW octets
  PROVE  /\ Writer!ChecksumOctets(octets)
              \in Seq(Seq({<<octets, m, k>> : m \in 1 .. 3, k \in 1 .. 4}))
         /\ Writer!FlattenSeq(Writer!ChecksumOctets(octets))
              \in Seq({<<octets, m, k>> : m \in 1 .. 3, k \in 1 .. 4})
         /\ Len(Writer!FlattenSeq(Writer!ChecksumOctets(octets))) >= 1
         /\ Writer!FlattenSeq(Writer!ChecksumOctets(octets))[1] = <<octets, 1, 1>>
<1> DEFINE S == {<<octets, m, k>> : m \in 1 .. 3, k \in 1 .. 4}
           c == Writer!ChecksumOctets(octets)
           s == Writer!FlattenSeq(c)
<1>1. \A m \in 1 .. 3 : Writer!Octet(octets, m) \in [1 .. 4 -> S] BY DEF Writer!Octet
<1>2. c \in [1 .. 3 -> Seq(S)] /\ \A m \in 1 .. 3 : c[m] = Writer!Octet(octets, m)
 <2>1. \A m \in 1 .. 3 : Writer!Octet(octets, m) \in Seq(S)
  <3> HIDE DEF S
  <3> QED BY <1>1, SeqDef
 <2> HIDE DEF S
 <2> QED BY <2>1 DEF Writer!ChecksumOctets
<1>3. c \in Seq(Seq(S)) /\ Len(c) = 3
 <2> HIDE DEF S, c
 <2>1. c \in Seq(Seq(S))
  <3> DEFINE R == Seq(S)
  <3>1. c \in [1 .. 3 -> R] /\ 3 \in Nat BY <1>2
  <3> HIDE DEF R
  <3>2. c \in Seq(R) BY <3>1, SeqDef
  <3> QED BY <3>2 DEF R
 <2>2. DOMAIN c = 1 .. 3 BY <1>2
 <2>3. Len(c) \in Nat /\ DOMAIN c = 1 .. Len(c) BY <2>1, LenProperties
 <2>4. \A n \in Nat : 1 .. n = 1 .. 3 => n = 3
  <3> TAKE n \in Nat
  <3> SUFFICES ASSUME 1 .. n = 1 .. 3 PROVE n = 3 OBVIOUS
  <3>1. 3 \in 1 .. n /\ ~ (4 \in 1 .. n) OBVIOUS
  <3> QED BY <3>1
 <2> QED BY <2>1, <2>2, <2>3, <2>4
<1>4. c[1] \in Seq(S) /\ Len(c[1]) = 4 /\ c[1][1] = <<octets, 1, 1>>
 <2>1. c[1] = [k \in 1 .. 4 |-> <<octets, 1, k>>] BY <1>2 DEF Writer!Octet
 <2>2. c[1] \in [1 .. 4 -> S] BY <1>1, <1>2
 <2>3. c[1] \in Seq(S) BY <1>2
 <2>4. Len(c[1]) = 4 BY <2>1
 <2> HIDE DEF c
 <2> QED BY <2>1, <2>3, <2>4
<1> HIDE DEF c
<1>5. PICK f : Joins(f, c, 3) /\ s = f[3]
 <2> HIDE DEF S
 <2>1. Len(c) = 3 /\ Len(c) # 0 BY <1>3
 <2>2. PICK g : Joins(g, c, Len(c)) /\ Writer!FlattenSeq(c) = g[Len(c)]
   BY <1>3, <2>1, FlattenIsJoin
 <2>3. Joins(g, c, 3) /\ s = g[3] BY <2>1, <2>2
 <2> QED BY <2>3
<1>6. f[1] = c[1] /\ f[2] = f[1] \o c[2] /\ f[3] = f[2] \o c[3]
 <2>1. \A i \in 1 .. 3 : f[i] = IF i = 1 THEN c[i] ELSE f[i - 1] \o c[i] BY <1>5 DEF Joins
 <2>2. ASSUME NEW i \in 1 .. 3 PROVE f[i] = IF i = 1 THEN c[i] ELSE f[i - 1] \o c[i] BY <2>1
 <2>3. f[1] = c[1] BY <2>2
 <2>4. ASSUME NEW i \in 1 .. 3, NEW j \in 1 .. 3, j = i - 1 PROVE f[i] = f[j] \o c[i]
  <3>1. i # 1 /\ i - 1 = j BY <2>4
  <3>2. f[i] = f[i - 1] \o c[i] BY <2>2, <3>1
  <3> QED BY <3>1, <3>2
 <2>5. 1 \in 1 .. 3 /\ 2 \in 1 .. 3 /\ 3 \in 1 .. 3 /\ 1 = 2 - 1 /\ 2 = 3 - 1 OBVIOUS
 <2> HIDE DEF S, s
 <2>6. f[2] = f[1] \o c[2] BY ONLY <2>4, <2>5
 <2>7. f[3] = f[2] \o c[3] BY ONLY <2>4, <2>5
 <2> QED BY <2>3, <2>6, <2>7
<1> HIDE DEF S
<1>7. ASSUME NEW p \in Seq(S), NEW q \in Seq(S), Len(p) >= 1, p[1] = <<octets, 1, 1>>
      PROVE  p \o q \in Seq(S) /\ Len(p \o q) >= 1 /\ (p \o q)[1] = <<octets, 1, 1>>
 <2>1. Len(p) \in Nat /\ Len(q) \in Nat OBVIOUS
 <2>2. 1 \in 1 .. Len(p) + Len(q) /\ 1 <= Len(p) /\ Len(p) + Len(q) >= 1 BY <1>7, <2>1
 <2>3. /\ p \o q \in Seq(S) /\ Len(p \o q) = Len(p) + Len(q)
       /\ \A i \in 1 .. Len(p) + Len(q) : (p \o q)[i] = IF i <= Len(p) THEN p[i] ELSE q[i - Len(p)]
   BY ConcatProperties
 <2> QED BY <1>7, <2>2, <2>3
<1>8. f[3] \in Seq(S) /\ Len(f[3]) >= 1 /\ f[3][1] = <<octets, 1, 1>>
 <2>1. c[2] \in Seq(S) /\ c[3] \in Seq(S) /\ Len(c[1]) >= 1 BY <1>2, <1>4
 <2> DEFINE x == c[1]
            y == c[2]
            z == c[3]
            v == f[2]
 <2>2. /\ x \in Seq(S) /\ Len(x) >= 1 /\ x[1] = <<octets, 1, 1>>
       /\ y \in Seq(S) /\ z \in Seq(S) /\ v = x \o y /\ f[3] = v \o z
   BY <1>4, <1>6, <2>1
 <2> HIDE DEF x, y, z, v
 <2>3. v \in Seq(S) /\ Len(v) >= 1 /\ v[1] = <<octets, 1, 1>> BY <1>7, <2>2
 <2> QED BY <1>7, <2>2, <2>3
<1> QED BY <1>3, <1>5, <1>8 DEF S, c

LEMMA FinaliserKnown ==
  ASSUME NEW sums, sum \in sums PROVE AllKnown(sums, Writer!Finaliser)
<1> DEFINE S == {<<sum, m, k>> : m \in 1 .. 3, k \in 1 .. 4}
           s == Writer!FlattenSeq(Writer!ChecksumOctets(sum))
<1>1. s \in Seq(S) BY ChecksumCrumbs
<1>2. S \subseteq CrumbsOf(sums) BY DEF CrumbsOf
<1>3. s \in Seq(CrumbsOf(sums))
 <2> HIDE DEF S, s, CrumbsOf
 <2> QED BY <1>1, <1>2, SeqMonotonic
<1> HIDE DEF s, CrumbsOf
<1>4. AllKnown(sums, Writer!Digits(s)) BY <1>3, DigitsKnown
<1> QED BY <1>4 DEF Writer!Finaliser, s


\* The file, and what waits to go there, has nothing else in it.
FileInv == AllKnown(Sums, wire) /\ pending \in Seq(CrumbsOf(Sums))

LEMMA FileInit == ArmourInit => FileInv
<1> SUFFICES ASSUME ArmourInit PROVE FileInv OBVIOUS
<1>1. wire = <<>> /\ pending = <<>> BY DEF ArmourInit, Writer!Init
<1>2. <<>> \in Seq(CrumbsOf(Sums)) OBVIOUS
<1> QED BY <1>1, <1>2, MarksWritten DEF FileInv

\* A block is finished once and stays as it is.
LEMMA SumsGrow ==
  ASSUME ArmourInv, [ArmourNext]_armourVars
  PROVE  /\ Sums \subseteq Sums'
         /\ Finalise => sum \in Sums'
<1>1. IsSequence(written) /\ Len(written) \in Nat /\ DOMAIN written = 1 .. Len(written)
  BY SequenceFacts DEF ArmourInv, WriterInv
<1>2. ASSUME NEW t, Push(t) PROVE Sums \subseteq Sums'
 <2> DEFINE b == [type |-> t, octets |-> <<>>]
 <2>1. written' = Append(written, b) /\ stage' = "block" /\ stage = "between" BY <1>2 DEF Push
 <2> HIDE DEF b
 <2>2. Len(written') = Len(written) + 1 /\ \A n \in 1 .. Len(written) : written'[n] = written[n]
   BY <1>1, <2>1, SequenceAppend
 <2>3. ASSUME NEW n \in 1 .. Len(written) PROVE written[n].octets \in Sums'
  <3>1. n \in 1 .. Len(written') /\ n # Len(written') /\ written'[n] = written[n] BY <1>1, <2>2
  <3> QED BY <3>1 DEF Sums
 <2> QED BY <2>3 DEF Sums
<1>3. CASE WriteOctet
 <2> DEFINE m == Len(written)
            x == Append(written[m].octets, Octet(Block(m), Len(written[m].octets) + 1))
 <2>1. stage = "block" /\ stage' = stage /\ written' = [written EXCEPT ![m].octets = x]
   BY <1>3 DEF WriteOctet
 <2> HIDE DEF x
 <2>2. Len(written') = m
  <3>1. written' = [k \in 1 .. m |-> written'[k]] BY <1>1, <2>1
  <3> QED BY <1>1, <3>1, SequenceMade
 <2>3. \A n \in 1 .. m : n # m => written'[n] = written[n] BY <1>1, <2>1
 <2>4. ASSUME NEW n \in 1 .. m, n # m PROVE written[n].octets \in Sums'
  <3>1. n \in 1 .. Len(written') /\ n # Len(written') /\ written'[n] = written[n]
    BY <2>2, <2>3, <2>4
  <3> QED BY <3>1 DEF Sums
 <2>5. \A y \in Sums : \E n \in 1 .. m : n # m /\ y = written[n].octets BY <2>1 DEF Sums
 <2>6. ~ Finalise BY <2>1 DEF Finalise
 <2> HIDE DEF m
 <2> QED BY <2>4, <2>5, <2>6
<1>4. CASE Finalise
 <2>1. stage = "block" /\ stage' = "between" /\ written' = written BY <1>4 DEF Finalise
 <2>2. Len(written) \in 1 .. Len(written) /\ sum = written[Len(written)].octets
  <3>1. written # <<>> /\ sum = written[Len(written)].octets BY <2>1 DEF ArmourInv, WriterInv
  <3> QED BY <1>1, <3>1, SequenceFacts
 <2>3. sum \in Sums' BY <2>1, <2>2 DEF Sums
 <2> QED BY <2>1, <2>3 DEF Sums
<1>5. ASSUME UNCHANGED written, stage' = stage \/ stage' = "read" PROVE Sums \subseteq Sums'
  BY <1>5 DEF Sums
<1>6. CASE UNCHANGED written /\ (stage' = stage \/ stage' = "read") /\ ~ Finalise BY <1>5, <1>6
<1>7. ASSUME ~ (\E t : Push(t)), ~ WriteOctet, ~ Finalise
      PROVE  UNCHANGED written /\ (stage' = stage \/ stage' = "read")
  BY <1>7 DEF ArmourNext, armourVars, WriteText, Damage, StartReading, Call, Read
<1>8. Finalise => ~ (\E t : Push(t)) /\ ~ WriteOctet BY DEF Finalise, Push, WriteOctet
<1>9. CASE \E t : Push(t) BY <1>2, <1>8, <1>9
<1> QED BY <1>3, <1>4, <1>6, <1>7, <1>8, <1>9

LEMMA WriteTextKnown ==
  ASSUME FileInv, NEW t \in Texts, WriteText(t) PROVE AllKnown(Sums, wire')
<1>1. wire' = wire \o t BY DEF WriteText
<1>2. t \in Seq(Range(t)) /\ \A i \in DOMAIN t : Plain(t[i]) BY ArmourAssumption
<1>3. IsSequence(t) BY <1>2 DEF IsSequence
<1>4. \A i \in 1 .. Len(t) : Known(Sums, t[i])
 <2>1. DOMAIN t = 1 .. Len(t) BY <1>3, SequenceFacts
 <2> QED BY <1>2, <2>1, PlainKnown
<1>5. AllKnown(Sums, t) BY <1>3, <1>4, KnownWhenEach
<1> QED BY <1>1, <1>5, KnownConcat DEF FileInv

LEMMA PushKnown ==
  ASSUME FileInv, NEW t, Push(t) PROVE AllKnown(Sums, wire') /\ pending' = <<>>
<1> DEFINE v == IF t = "MESSAGE" THEN <<>> ELSE <<Writer!VERSION>> \o Writer!Newline
<1>1. /\ wire' = wire \o Writer!Banner("BEGIN", t) \o v \o Writer!Newline
      /\ pending' = <<>>
  BY DEF Push, Writer!Push
<1>2. AllKnown(Sums, v) BY MarksWritten, KnownConcat
<1> HIDE DEF v
<1>3. AllKnown(Sums, wire \o Writer!Banner("BEGIN", t)) BY MarksWritten, KnownConcat DEF FileInv
<1>4. AllKnown(Sums, wire \o Writer!Banner("BEGIN", t) \o v) BY <1>2, <1>3, KnownConcat
<1> QED BY <1>1, <1>4, MarksWritten, KnownConcat

LEMMA WriteOctetKnown ==
  ASSUME ArmourInv, FileInv, WriteOctet
  PROVE  AllKnown(Sums, wire') /\ pending' \in Seq(CrumbsOf(Sums))
<1> DEFINE n      == Len(written)
           octet  == Octet(Block(n), Len(written[n].octets) + 1)
           crumbs == pending \o octet
           ds     == Writer!Digits(crumbs)
<1>1. /\ stage = "block"
      /\ Writer!Stacked(Writer!Lines(ds))
      /\ pending' = SubSeq(crumbs, 3 * Len(ds) + 1, Len(crumbs))
  BY DEF WriteOctet, Writer!WriteOctet
<1>2. n \in Nat \ {0} /\ Len(written[n].octets) \in Nat /\ column \in 0 .. BreakPos
 <2>1. /\ IsSequence(written) /\ written # <<>> /\ IsSequence(sum)
       /\ sum = written[n].octets /\ column \in 0 .. BreakPos
   BY <1>1 DEF ArmourInv, WriterInv
 <2> QED BY <2>1, SequenceFacts
<1>3. octet \in Seq(CrumbsOf(Sums))
 <2>1. \A k \in 1 .. 4 : <<Block(n), Len(written[n].octets) + 1, k>> \in CrumbsOf(Sums)
  <3> DEFINE m == Len(written[n].octets) + 1
  <3>1. m \in Nat BY <1>2
  <3> HIDE DEF m, n
  <3> QED BY <1>2, <3>1 DEF CrumbsOf
 <2> HIDE DEF CrumbsOf
 <2>2. octet \in [1 .. 4 -> CrumbsOf(Sums)] BY <2>1 DEF Octet
 <2> HIDE DEF octet
 <2> QED BY <2>2, SeqDef
<1> HIDE DEF octet
<1>4. crumbs \in Seq(CrumbsOf(Sums))
 <2> HIDE DEF CrumbsOf
 <2> QED BY <1>3, ConcatProperties DEF FileInv
<1> HIDE DEF crumbs
<1>5. AllKnown(Sums, ds) /\ IsSequence(crumbs)
 <2> HIDE DEF CrumbsOf
 <2> QED BY <1>4, DigitsKnown, SequenceOf
<1>6. Len(ds) \in Nat BY <1>5, KnownElement, SequenceFacts
<1> HIDE DEF ds
<1>7. AllKnown(Sums, wire') BY <1>1, <1>2, <1>5, LinesKnown, StackedKnown DEF FileInv
<1>8. pending' \in Seq(CrumbsOf(Sums))
 <2> DEFINE a == 3 * Len(ds) + 1
            S == CrumbsOf(Sums)
 <2>1. a \in Int /\ a >= 1 /\ Len(crumbs) \in Int /\ pending' = SubSeq(crumbs, a, Len(crumbs))
   BY <1>1, <1>4, <1>6
 <2> HIDE DEF a, S
 <2>2. crumbs \in Seq(S) BY <1>4 DEF S
 <2>3. \A i \in a .. Len(crumbs) : crumbs[i] \in S
  <3> TAKE i \in a .. Len(crumbs)
  <3>1. i \in 1 .. Len(crumbs) BY <2>1
  <3> QED BY <2>2, <3>1, ElementOfSeq
 <2>4. pending' \in Seq(S) BY <2>1, <2>3, SubSeqProperties
 <2> QED BY <2>4 DEF S
<1> QED BY <1>7, <1>8

LEMMA FinaliseKnown ==
  ASSUME ArmourInv, FileInv, Finalise, NEW sums, Sums \subseteq sums, sum \in sums
  PROVE  AllKnown(sums, wire') /\ pending' = <<>>
<1>1. /\ Writer!Stacked(Writer!Padding \o Writer!Newline \o <<Writer!EQ>> \o Writer!Finaliser
                          \o Writer!Newline \o Writer!Banner("END", type))
      /\ pending' = <<>>
  BY DEF Finalise, Writer!Finalise
<1>2. Len(pending) \in 0 .. 2 /\ column \in 0 .. BreakPos BY DEF ArmourInv, WriterInv
<1>3. AllKnown(sums, wire) /\ pending \in Seq(CrumbsOf(sums))
 <2>1. AllKnown(sums, wire) /\ CrumbsOf(Sums) \subseteq CrumbsOf(sums) BY KnownMore DEF FileInv
 <2> HIDE DEF CrumbsOf
 <2> QED BY <2>1, SeqMonotonic DEF FileInv
<1>4. AllKnown(sums, Writer!Padding) BY <1>2, <1>3, PaddingKnown
<1>5. AllKnown(sums, Writer!Padding \o Writer!Newline) BY <1>4, MarksWritten, KnownConcat
<1>6. AllKnown(sums, Writer!Padding \o Writer!Newline \o <<Writer!EQ>>)
  BY <1>5, MarksWritten, KnownConcat
<1>7. AllKnown(sums, Writer!Padding \o Writer!Newline \o <<Writer!EQ>> \o Writer!Finaliser)
  BY <1>6, FinaliserKnown, KnownConcat
<1>8. AllKnown(sums, Writer!Padding \o Writer!Newline \o <<Writer!EQ>> \o Writer!Finaliser
                          \o Writer!Newline)
  BY <1>7, MarksWritten, KnownConcat
<1>9. AllKnown(sums, Writer!Padding \o Writer!Newline \o <<Writer!EQ>> \o Writer!Finaliser
                          \o Writer!Newline \o Writer!Banner("END", type))
  BY <1>8, MarksWritten, KnownConcat
<1> QED BY <1>1, <1>2, <1>3, <1>9, StackedKnown

\* Damage takes out characters or puts in such that no octet is made of.
LEMMA DamageKnown ==
  ASSUME FileInv, Damage PROVE AllKnown(Sums, wire')
<1>1. IsSequence(wire) /\ (\A k \in 1 .. Len(wire) : Known(Sums, wire[k])) /\ Len(wire) \in Nat
      /\ DOMAIN wire = 1 .. Len(wire)
 <2>1. IsSequence(wire) /\ (\A k \in 1 .. Len(wire) : Known(Sums, wire[k]))
   BY KnownElement DEF FileInv
 <2> QED BY <2>1, SequenceFacts
<1>2. PICK i \in 1 .. Len(wire) :
        \/ \E n \in Losses :
             wire' = SubSeq(wire, 1, i - 1) \o SubSeq(wire, i + n, Len(wire))
        \/ \E c \in Changes : wire[i] # c /\ wire' = [wire EXCEPT ![i] = c]
  BY DEF Damage
<1>3. ASSUME NEW n \in Losses,
             wire' = SubSeq(wire, 1, i - 1) \o SubSeq(wire, i + n, Len(wire))
      PROVE  AllKnown(Sums, wire')
 <2>1. n \in Nat BY ArmourAssumption
 <2>2. AllKnown(Sums, SubSeq(wire, 1, i - 1)) BY <1>1, KnownSub DEF FileInv
 <2>3. AllKnown(Sums, SubSeq(wire, i + n, Len(wire)))
  <3>1. i + n \in Nat \ {0} BY <2>1
  <3> QED BY <1>1, <3>1, KnownSub DEF FileInv
 <2> QED BY <1>3, <2>2, <2>3, KnownConcat
<1>4. ASSUME NEW c \in Changes, wire' = [wire EXCEPT ![i] = c] PROVE AllKnown(Sums, wire')
 <2>1. Known(Sums, c) BY ArmourAssumption, PlainKnown
 <2>2. IsSequence(wire') /\ Len(wire') = Len(wire)
  <3>1. wire' = [k \in 1 .. Len(wire) |-> wire'[k]] BY <1>1, <1>4
  <3> QED BY <1>1, <3>1, SequenceMade
 <2>3. \A k \in 1 .. Len(wire) : Known(Sums, wire'[k]) BY <1>1, <1>4, <2>1
 <2> QED BY <2>2, <2>3, KnownWhenEach
<1> QED BY <1>2, <1>3, <1>4


-----------------------------------------------------------------------------
(* What is read is known *)

LEMMA ConsumeKnown ==
  ASSUME NEW sums, AllKnown(sums, wire), NEW i \in Nat, Reader!Consume(i)
  PROVE  /\ AllKnown(sums, wire')
         /\ wire = <<>> \/ i >= Reader!EndOfWire => wire' = <<>>
<1>1. IsSequence(wire) /\ Len(wire) \in Nat /\ Reader!EndOfWire = Len(wire) + 1
  BY KnownElement, EndIs
<1>2. wire' = SubSeq(wire, i + 1, Len(wire)) BY DEF Reader!Consume
<1>3. AllKnown(sums, wire')
 <2>1. i + 1 \in Nat \ {0} OBVIOUS
 <2> QED BY <1>1, <1>2, <2>1, KnownSub
<1>4. ASSUME wire = <<>> \/ i >= Reader!EndOfWire PROVE wire' = <<>>
 <2>1. wire = <<>> => Len(wire) = 0 OBVIOUS
 <2>2. i + 1 \in Int /\ Len(wire) \in Int /\ Len(wire) < i + 1 BY <1>1, <1>4, <2>1
 <2> QED BY <1>2, <2>2, SubSeqEmpty
<1> QED BY <1>3, <1>4

LEMMA SameFlatten == \A s : Reader!FlattenSeq(s) = Writer!FlattenSeq(s)
BY DEF Reader!FlattenSeq, Writer!FlattenSeq

LEMMA NoCRsKnown ==
  ASSUME NEW sums, NEW s, AllKnown(sums, s) PROVE AllKnown(sums, Reader!NoCRs(s))
<1>1. PICK S : s \in Seq(S) /\ \A c \in S : Known(sums, c) BY KnownCharacters
<1> DEFINE f == [i \in DOMAIN s |-> IF s[i] # Reader!CR THEN <<s[i]>> ELSE <<>>]
<1>2. Reader!NoCRs(s) = Writer!FlattenSeq(f) BY SameFlatten DEF Reader!NoCRs, Reader!Only
<1>3. f \in Seq(Seq(S))
 <2>1. Len(s) \in Nat /\ DOMAIN s = 1 .. Len(s) /\ \A i \in 1 .. Len(s) : s[i] \in S BY <1>1
 <2>2. \A x \in S : <<x>> \in Seq(S) OBVIOUS
 <2>3. f \in [1 .. Len(s) -> Seq(S)] BY <2>1, <2>2
 <2> HIDE DEF f
 <2> QED BY <2>1, <2>3, SeqDef
<1> HIDE DEF f
<1>4. Reader!NoCRs(s) \in Seq(S) BY <1>2, <1>3, FlattenType
<1> QED BY <1>1, <1>4, KnownSequence

\* The digits of a group are made of what octets are.
LEMMA Read4Digits ==
  ASSUME NEW sums, AllKnown(sums, wire), NEW i \in Nat \ {0}
  PROVE  Reader!Read4(i).digits \in Seq(Seq(CrumbsOf(sums)))
<1> DEFINE end == Reader!Read4(i).at
           s   == SubSeq(wire, i, Reader!Min({end, Len(wire)}))
           f   == [k \in DOMAIN s |-> IF Reader!IsDigit(s[k]) THEN <<s[k]>> ELSE <<>>]
           C   == CrumbsOf(sums)
<1>1. IsSequence(wire) /\ Len(wire) \in Nat BY KnownElement, SequenceFacts
<1>2. end \in Nat BY <1>1, Read4Is
<1>3. Reader!Read4(i).digits = Reader!FlattenSeq(f) BY DEF Reader!Read4, Reader!Only
<1> HIDE DEF end
<1>4. AllKnown(sums, s)
 <2> DEFINE e == Reader!Min({end, Len(wire)})
 <2>1. e \in Int /\ e <= Len(wire)
  <3>1. Len(wire) \in Int /\ end \in Int BY <1>1, <1>2
  <3>2. e = IF end <= Len(wire) THEN end ELSE Len(wire) BY <3>1, OfTwo
  <3> HIDE DEF e
  <3> QED BY <3>1, <3>2
 <2> HIDE DEF e
 <2> QED BY <2>1, KnownSub DEF e
<1> HIDE DEF s
<1>5. PICK S : s \in Seq(S) /\ \A c \in S : Known(sums, c) BY <1>4, KnownCharacters
<1>6. f \in Seq(Seq(Seq(C)))
 <2> DEFINE D == Seq(C)
            T == Seq(D)
 <2>1. Len(s) \in Nat /\ DOMAIN s = 1 .. Len(s) /\ \A k \in 1 .. Len(s) : s[k] \in S BY <1>5
 <2>2. \A c \in S : Reader!IsDigit(c) => c \in D BY <1>5 DEF Known, Reader!IsDigit
 <2> HIDE DEF D, C
 <2>3. <<>> \in T /\ \A x \in D : <<x>> \in T OBVIOUS
 <2> HIDE DEF T
 <2>4. f \in [1 .. Len(s) -> T]
  <3>1. \A k \in 1 .. Len(s) : (IF Reader!IsDigit(s[k]) THEN <<s[k]>> ELSE <<>>) \in T
    BY <2>1, <2>2, <2>3
  <3> QED BY <2>1, <3>1
 <2> HIDE DEF f
 <2>5. f \in Seq(T) BY <2>1, <2>4, SeqDef
 <2> QED BY <2>5 DEF T, D
<1> HIDE DEF f
<1>7. Writer!FlattenSeq(f) \in Seq(Seq(C))
 <2> DEFINE D == Seq(C)
 <2>1. f \in Seq(Seq(D)) BY <1>6
 <2> HIDE DEF D, C
 <2>2. Writer!FlattenSeq(f) \in Seq(D) BY <2>1, FlattenType
 <2> QED BY <2>2 DEF D
<1> HIDE DEF C
<1>8. Reader!Read4(i).digits \in Seq(Seq(C)) BY <1>3, <1>7, SameFlatten
<1> QED BY <1>8 DEF C

LEMMA ChecksumBegins ==
  ASSUME NEW octets
  PROVE  /\ Len(Writer!FlattenSeq(Writer!ChecksumOctets(octets))) >= 1
         /\ Writer!FlattenSeq(Writer!ChecksumOctets(octets))[1] = <<octets, 1, 1>>
<1> DEFINE S == {<<octets, m, k>> : m \in 1 .. 3, k \in 1 .. 4}
           c == Writer!ChecksumOctets(octets)
           s == Writer!FlattenSeq(c)
<1>1. c \in Seq(Seq(S)) /\ s \in Seq(S) /\ Len(s) >= 1 /\ s[1] = <<octets, 1, 1>>
  BY ChecksumCrumbs
<1> HIDE DEF S
<1> QED BY <1>1

\* A checksum that is read is that of a block, wherever its digits come from.
LEMMA SumOkIs ==
  ASSUME NEW sums, NEW ds \in Seq(Seq(CrumbsOf(sums))), NEW octets,
         \A i \in 1 .. Len(octets) : octets[i] # <<>>, Reader!SumOk(ds, octets)
  PROVE  octets \in sums
<1> DEFINE s == Writer!FlattenSeq(ds)
           c == Writer!FlattenSeq(Writer!ChecksumOctets(octets))
<1>1. s = c
 <2>1. Reader!ChecksumOctets(octets) = Writer!ChecksumOctets(octets)
   BY DEF Reader!ChecksumOctets, Writer!ChecksumOctets, Reader!Octet, Writer!Octet
 <2> QED BY <2>1, SameFlatten DEF Reader!SumOk
<1>2. s \in Seq(CrumbsOf(sums))
 <2> HIDE DEF CrumbsOf
 <2> QED BY FlattenType
<1>3. Len(c) >= 1 /\ c[1] = <<octets, 1, 1>> BY ChecksumBegins
<1> HIDE DEF s, c
<1>4. <<octets, 1, 1>> \in CrumbsOf(sums)
 <2>1. 1 \in 1 .. Len(s) BY <1>1, <1>2, <1>3
 <2>2. s[1] \in CrumbsOf(sums)
  <3> HIDE DEF CrumbsOf
  <3> QED BY <1>2, <2>1, ElementOfSeq
 <2> QED BY <1>1, <1>3, <2>2
<1>5. ASSUME NEW b \in Nat \ {0}, NEW m \in Nat, NEW k \in Nat,
             <<octets, 1, 1>> = <<Block(b), m, k>>
      PROVE  FALSE
 <2>1. octets = [i \in 1 .. b |-> ZERO] BY <1>5 DEF Block
 <2>2. octets = [i \in 1 .. b |-> octets[i]] BY <2>1
 <2>3. Len(octets) = b BY <2>2, SequenceMade
 <2>4. 1 \in 1 .. b OBVIOUS
 <2>5. octets[1] = <<>> BY <2>1, <2>4 DEF ZERO
 <2> QED BY <2>3, <2>4, <2>5
<1>6. <<octets, 1, 1>> # ZERO
 <2>1. Len(<<octets, 1, 1>>) = 3 /\ Len(<<>>) = 0 OBVIOUS
 <2> QED BY <2>1 DEF ZERO
<1>7. PICK s0 \in sums, m \in Nat, k \in Nat : <<octets, 1, 1>> = <<s0, m, k>>
  BY <1>4, <1>5, <1>6 DEF CrumbsOf
<1> QED BY <1>7


-----------------------------------------------------------------------------
(* A block that has its trailer has its checksum *)

\* What the reader's turns have in common.
Reading == stage = "read" /\ UNCHANGED <<stage, written>>

LEMMA SumsSame ==
  ASSUME UNCHANGED <<stage, written>> PROVE Sums' = Sums
BY DEF Sums

Opened(b) == b.header = <<"BEGIN", b.header[2]>>
Closed(b) == b.trailer # Reader!NoName
Sealed(sums, b) ==
  b.octets \in sums /\ Opened(b) /\ b.trailer = <<"END", b.header[2]>>

\* The checksum behind the octets has been compared.
SumTrusted ==
  (state = "BASE64" /\ eof64) \/ state = "AT_TRAILER_NAME" => checksum \in Sums

\* A block is open exactly behind a header; only the end of the file comes
\* between its header and its trailer.
NameTrusted ==
  /\ state = "OUTSIDE_BLOCK" => lastseen[1] # "BEGIN"
  /\ state # "OUTSIDE_BLOCK" =>
       /\ Opened(blocks[Len(blocks)])
       /\ \/ lastseen = blocks[Len(blocks)].header
          \/ state = "AT_TRAILER_NAME" /\ wire = <<>>

AllSealed == \A k \in 1 .. Len(blocks) : Closed(blocks[k]) => Sealed(Sums, blocks[k])

BlockInv ==
  /\ \A i \in 1 .. Len(checksum) : checksum[i] # <<>>
  /\ stage # "read" => state = "OUTSIDE_BLOCK"
  /\ state # "OUTSIDE_BLOCK" => ~ Closed(blocks[Len(blocks)])
  /\ errors \/ (SumTrusted /\ NameTrusted /\ AllSealed)

LEMMA BlockInit == ArmourInit => BlockInv
<1> SUFFICES ASSUME ArmourInit PROVE BlockInv OBVIOUS
<1>1. state = "OUTSIDE_BLOCK" /\ checksum = <<>> /\ blocks = <<>> /\ lastseen = Reader!NoName
  BY DEF ArmourInit, Reader!Init
<1>2. 1 .. Len(<<>>) = {} BY SequenceEmpty
<1>3. Reader!NoName[1] # "BEGIN" BY DEF Reader!NoName
<1> QED BY <1>1, <1>2, <1>3 DEF BlockInv, SumTrusted, NameTrusted, AllSealed

\* A turn that opens and closes nothing.
LEMMA TurnSealed ==
  ASSUME BlockInv, Reading, UNCHANGED <<state, blocks>>, errors => errors',
         \A i \in 1 .. Len(checksum') : checksum'[i] # <<>>,
         errors' \/ (/\ lastseen' = lastseen
                     /\ state = "AT_TRAILER_NAME" /\ wire = <<>> => wire' = <<>>
                     /\ SumTrusted => SumTrusted')
  PROVE  BlockInv'
<1>1. Sums' = Sums /\ stage' = "read" BY SumsSame DEF Reading
<1>2. CASE errors' BY <1>1, <1>2 DEF BlockInv
<1>3. CASE ~ errors'
 <2>1. SumTrusted' /\ NameTrusted /\ AllSealed BY <1>3 DEF BlockInv
 <2>2. NameTrusted' BY <1>3, <2>1 DEF NameTrusted
 <2>3. AllSealed' BY <1>1, <2>1 DEF AllSealed
 <2> QED BY <1>1, <2>1, <2>2, <2>3 DEF BlockInv
<1> QED BY <1>2, <1>3

\* The name in a line is that of a header or that of a trailer.
LEMMA NameIs ==
  ASSUME NEW sums, AllKnown(sums, wire), NEW i \in Nat \ {0}, NEW name,
         name = SubSeq(wire, i, Reader!NameEnd(i) - 1), Reader!Recognised(name)
  PROVE  name[1][1] \in {"BEGIN", "END"} /\ name[1] = <<name[1][1], name[1][2]>>
<1> DEFINE e == Reader!NameEnd(i)
<1>1. IsSequence(wire) /\ Len(wire) \in Nat /\ Reader!EndOfWire = Len(wire) + 1
  BY KnownElement, EndIs
<1>2. e \in Nat /\ i <= e /\ (e > i => e <= Len(wire) + 1) BY <1>1, NameEndIs DEF From
<1> HIDE DEF e
<1>3. AllKnown(sums, name)
 <2>1. e - 1 \in Int /\ (i <= e - 1 => e - 1 <= Len(wire)) BY <1>1, <1>2
 <2>2. name = SubSeq(wire, i, e - 1) BY DEF e
 <2> QED BY <2>1, <2>2, KnownSub
<1>4. IsSequence(name) /\ \A k \in 1 .. Len(name) : Known(sums, name[k]) BY <1>3, KnownElement
<1>5. 1 \in 1 .. Len(name)
 <2>1. name # <<>> BY DEF Reader!Recognised
 <2>2. Len(name) \in Nat /\ Len(name) # 0 BY <1>4, <2>1, SequenceFacts
 <2> DEFINE n == Len(name)
 <2>3. n \in Nat /\ n # 0 BY <2>2
 <2> HIDE DEF n
 <2>4. 1 \in 1 .. n BY ONLY <2>3
 <2> QED BY <2>4 DEF n
<1>6. Known(sums, name[1]) BY <1>4, <1>5
<1>7. Len(name[1]) = 2 BY DEF Reader!Recognised, Reader!IsName
<1> QED BY <1>6, <1>7 DEF Known

\* A block that is opened, or an error.
LEMMA OpenBlockSealed ==
  ASSUME ReaderInv, BlockInv, Reading, NEW name, NEW at, NEW wrong,
         Reader!OpenBlock(name, at, wrong),
         Reader!Recognised(name) /\ Reader!ParseHeaders(at + 1).ok =>
           lastseen' = name[1] /\ (errors \/ wrong \/ name[1] = <<"BEGIN", name[1][2]>>)
  PROVE  BlockInv'
<1> DEFINE h == Reader!ParseHeaders(at + 1)
           b == [header |-> name[1], octets |-> <<>>, trailer |-> Reader!NoName]
<1>1. \/ /\ h.ok /\ Reader!Recognised(name)
         /\ blocks' = Append(blocks, b) /\ errors' = (errors \/ wrong)
         /\ Reader!StartBase64 /\ UNCHANGED Reader!call
      \/ /\ errors' = TRUE
         /\ UNCHANGED <<blocks, state, Reader!decoder>>
  BY DEF Reader!OpenBlock
<1>2. Sums' = Sums /\ stage' = "read" BY SumsSame DEF Reading
<1>3. CASE /\ errors' = TRUE
           /\ UNCHANGED <<blocks, state, Reader!decoder>>
  BY <1>3, TurnSealed DEF BlockInv, Reader!decoder
<1>4. CASE /\ h.ok /\ Reader!Recognised(name)
           /\ blocks' = Append(blocks, b) /\ errors' = (errors \/ wrong)
           /\ Reader!StartBase64 /\ UNCHANGED Reader!call
 <2>1. state' = "BASE64" /\ checksum' = <<>> /\ eof64' = FALSE BY <1>4 DEF Reader!StartBase64
 <2>2. lastseen' = name[1] /\ (errors \/ wrong \/ name[1] = <<"BEGIN", name[1][2]>>) BY <1>4
 <2>3. b.header = name[1] /\ b.trailer = Reader!NoName OBVIOUS
 <2> HIDE DEF b, h
 <2>4. IsSequence(blocks) /\ Len(blocks) \in Nat BY SequenceFacts DEF ReaderInv
 <2>5. /\ Len(blocks') = Len(blocks) + 1
       /\ \A i \in 1 .. Len(blocks) : blocks'[i] = blocks[i]
       /\ blocks'[Len(blocks) + 1] = b
   BY <1>4, <2>4, SequenceAppend
 <2>6. blocks'[Len(blocks')] = b /\ ~ Closed(b) BY <2>3, <2>5 DEF Closed
 <2>7. \A i \in 1 .. Len(checksum') : checksum'[i] # <<>>
  <3>1. 1 .. Len(checksum') = {} BY <2>1, SequenceEmpty
  <3> QED BY <3>1
 <2>8. ASSUME ~ errors' PROVE SumTrusted' /\ NameTrusted' /\ AllSealed'
  <3>1. ~ errors /\ ~ wrong BY <1>4, <2>8
  <3>2. SumTrusted' BY <2>1 DEF SumTrusted
  <3>3. NameTrusted' BY <2>1, <2>2, <2>3, <2>6, <3>1 DEF NameTrusted, Opened
  <3>4. ASSUME NEW k \in 1 .. Len(blocks'), Closed(blocks'[k]) PROVE Sealed(Sums, blocks'[k])
   <4>1. k # Len(blocks) + 1 BY <2>5, <2>6, <3>4
   <4>2. k \in 1 .. Len(blocks) BY <2>4, <2>5, <4>1
   <4>3. AllSealed BY <3>1 DEF BlockInv
   <4> QED BY <2>5, <3>4, <4>2, <4>3 DEF AllSealed
  <3>5. AllSealed' BY <1>2, <3>4 DEF AllSealed
  <3> QED BY <3>2, <3>3, <3>5
 <2> QED BY <1>2, <2>1, <2>6, <2>7, <2>8 DEF BlockInv
<1> QED BY <1>1, <1>3, <1>4

\* The last block is another one.
LEMMA LastChanged ==
  ASSUME IsSequence(blocks), blocks # <<>>, NEW b, blocks' = [blocks EXCEPT ![Len(blocks)] = b]
  PROVE  /\ Len(blocks) \in 1 .. Len(blocks) /\ Len(blocks') = Len(blocks)
         /\ blocks'[Len(blocks)] = b
         /\ \A k \in 1 .. Len(blocks) : k # Len(blocks) => blocks'[k] = blocks[k]
<1> DEFINE n == Len(blocks)
<1>1. n \in Nat /\ n \in 1 .. n /\ DOMAIN blocks = 1 .. n BY SequenceFacts
<1>2. Len(blocks') = n
 <2>1. blocks' = [k \in 1 .. n |-> blocks'[k]] BY <1>1
 <2> HIDE DEF n
 <2> QED BY <1>1, <2>1, SequenceMade
<1>3. \A k \in 1 .. n : blocks'[k] = IF k = n THEN b ELSE blocks[k] BY <1>1
<1> QED BY <1>1, <1>2, <1>3


-----------------------------------------------------------------------------
(* One action of the reader after the other. *)

LEMMA CallSealed ==
  ASSUME BlockInv, Reading, NEW n, Reader!Call(n) PROVE BlockInv'
<1>1. UNCHANGED <<wire, state, lastseen, Reader!decoder, errors, blocks>> BY DEF Reader!Call
<1>2. SumTrusted' = SumTrusted BY <1>1, SumsSame DEF SumTrusted, Reading, Reader!decoder
<1> QED BY <1>1, <1>2, TurnSealed DEF BlockInv, Reader!decoder

LEMMA ReadLineSealed ==
  ASSUME BlockInv, Reading, Reader!ReadLine \/ Reader!ReadNoHeader PROVE BlockInv'
<1>1. state = "OUTSIDE_BLOCK" /\ UNCHANGED <<state, lastseen, Reader!decoder, errors, blocks>>
  BY DEF Reader!ReadLine, Reader!ReadNoHeader
<1>2. SumTrusted' = SumTrusted BY <1>1, SumsSame DEF SumTrusted, Reading, Reader!decoder
<1> QED BY <1>1, <1>2, TurnSealed DEF BlockInv, Reader!decoder

LEMMA ReadHeaderSealed ==
  ASSUME ReaderInv, BlockInv, AllKnown(Sums, wire), Reading, Reader!ReadHeader
  PROVE  BlockInv'
<1> DEFINE h     == Reader!HeaderLine
           name  == SubSeq(wire, 6, Reader!NameEnd(6) - 1)
           seen  == Reader!Recognised(name) /\ Reader!ParseHeaders(h.at + 1).ok
           wrong == seen /\ Reader!WrongEnd(name)
<1>1. /\ state = "OUTSIDE_BLOCK"
      /\ Reader!OpenBlock(name, h.at, wrong)
      /\ lastseen' = IF seen THEN name[1] ELSE lastseen
  BY DEF Reader!ReadHeader
<1>2. ASSUME seen, ~ errors, ~ wrong PROVE name[1] = <<"BEGIN", name[1][2]>>
 <2>1. name[1][1] \in {"BEGIN", "END"} /\ name[1] = <<name[1][1], name[1][2]>>
  <3>1. 6 \in Nat \ {0} /\ Reader!Recognised(name) BY <1>2
  <3> HIDE DEF seen, wrong
  <3> QED BY <3>1, NameIs
 <2>2. name[1][1] # "END"
  <3>1. lastseen[1] # "BEGIN" BY <1>1, <1>2 DEF BlockInv, NameTrusted
  <3>2. ~ Reader!WrongEnd(name) BY <1>2
  <3>3. name[1][1] = "END" => lastseen = <<"BEGIN", name[1][2]>> BY <3>2 DEF Reader!WrongEnd
  <3> DEFINE t == name[1][2]
             w == name[1][1]
  <3>4. w = "END" => lastseen = <<"BEGIN", t>> BY <3>3
  <3> HIDE DEF t, w
  <3>5. <<"BEGIN", t>>[1] = "BEGIN" OBVIOUS
  <3>6. w # "END" BY <3>1, <3>4, <3>5
  <3> QED BY <3>6 DEF w
 <2> HIDE DEF name
 <2> QED BY <2>1, <2>2
<1>3. Reader!Recognised(name) /\ Reader!ParseHeaders(h.at + 1).ok =>
           lastseen' = name[1] /\ (errors \/ wrong \/ name[1] = <<"BEGIN", name[1][2]>>)
  BY <1>1, <1>2
<1>4. Reader!OpenBlock(name, h.at, wrong) BY <1>1
<1> HIDE DEF name, h, wrong
<1> QED BY <1>3, <1>4, OpenBlockSealed

\* No octet that is decoded is the empty sequence.
LEMMA StoreFull ==
  ASSUME ReaderInv, BlockInv, NEW ds, Len(ds) \in {0, 2, 3, 4}, Reader!Store(Reader!Bytes(ds))
  PROVE  \A i \in 1 .. Len(checksum') : checksum'[i] # <<>>
<1> DEFINE b == Reader!Bytes(ds)
           n == (3 * Len(ds)) \div 4
<1>1. checksum' = checksum \o b BY DEF Reader!Store
<1>2. IsSequence(checksum) /\ IsSequence(b) /\ Len(b) \in 0 .. 3 BY BytesSequence DEF ReaderInv
<1>3. \A i \in 1 .. Len(b) : b[i] # <<>>
 <2>1. \A i \in 1 .. n : \E f : b[i] = [j \in 1 .. 4 |-> f[j]]
  <3> TAKE i \in 1 .. n
  <3> DEFINE f == b[i]
  <3>1. b[i] = [j \in 1 .. 4 |-> f[j]] BY DEF Reader!Bytes
  <3> QED BY <3>1
 <2>2. DOMAIN b = 1 .. n BY DEF Reader!Bytes
 <2>3. DOMAIN b = 1 .. Len(b) BY <1>2, SequenceFacts
 <2>4. \A f : [j \in 1 .. 4 |-> f[j]] # <<>>
  <3> TAKE f
  <3>1. DOMAIN [j \in 1 .. 4 |-> f[j]] = 1 .. 4 OBVIOUS
  <3>2. DOMAIN <<>> = {} /\ 1 \in 1 .. 4 OBVIOUS
  <3> QED BY <3>1, <3>2
 <2> HIDE DEF b, n
 <2>5. ASSUME NEW i \in 1 .. Len(b) PROVE b[i] # <<>>
  <3>1. i \in 1 .. n BY <2>2, <2>3
  <3>2. PICK f : b[i] = [j \in 1 .. 4 |-> f[j]] BY <2>1, <3>1
  <3> QED BY <2>4, <3>2
 <2> QED BY <2>5
<1> HIDE DEF b
<1>4. PICK S : checksum \in Seq(S) /\ b \in Seq(S) BY <1>2, SequenceCommon
<1>5. /\ Len(checksum \o b) = Len(checksum) + Len(b)
      /\ \A i \in 1 .. Len(checksum) + Len(b) :
           (checksum \o b)[i] = IF i <= Len(checksum) THEN checksum[i] ELSE b[i - Len(checksum)]
  BY <1>4, ConcatProperties
<1>6. ASSUME NEW i \in 1 .. Len(checksum) + Len(b) PROVE (checksum \o b)[i] # <<>>
 <2>1. Len(checksum) \in Nat /\ Len(b) \in Nat BY <1>4
 <2>2. CASE i <= Len(checksum)
  <3>1. i \in 1 .. Len(checksum) BY <2>1, <2>2
  <3> QED BY <1>5, <2>2, <3>1 DEF BlockInv
 <2>3. CASE ~ (i <= Len(checksum))
  <3>1. i - Len(checksum) \in 1 .. Len(b) BY <2>1, <2>3
  <3> QED BY <1>3, <1>5, <2>3, <3>1
 <2> QED BY <2>2, <2>3
<1> QED BY <1>1, <1>5, <1>6

LEMMA DecodeGroupSealed ==
  ASSUME ReaderInv, BlockInv, Reading, Reader!DecodeGroup PROVE BlockInv'
<1> DEFINE g == Reader!Read4(1)
<1>1. /\ state = "BASE64" /\ ~ eof64 /\ Len(g.digits) = 4 /\ Reader!Store(Reader!Bytes(g.digits))
      /\ UNCHANGED <<state, eof64, lastseen, errors, blocks>>
  BY DEF Reader!DecodeGroup, Reader!NeedsGroup
<1> HIDE DEF g
<1>2. SumTrusted' BY <1>1 DEF SumTrusted
<1>3. \A i \in 1 .. Len(checksum') : checksum'[i] # <<>> BY <1>1, StoreFull
<1> QED BY <1>1, <1>2, <1>3, TurnSealed

LEMMA RefuseSealed ==
  ASSUME BlockInv, Reading, NEW at, NEW n, NEW eof, Reader!Refuse(at, n, eof),
         UNCHANGED <<state, blocks>>
  PROVE  BlockInv'
<1>1. errors' /\ checksum' = checksum BY DEF Reader!Refuse
<1> QED BY <1>1, TurnSealed DEF BlockInv

LEMMA DecodeStopsSealed ==
  ASSUME BlockInv, Reading, Reader!DecodeStops PROVE BlockInv'
<1> DEFINE g == Reader!Read4(1)
<1>1. /\ state = "BASE64" /\ UNCHANGED <<state, lastseen, blocks>>
      /\ \/ Reader!Refuse(g.at, 0, TRUE)
         \/ UNCHANGED <<Reader!decoder, errors>>
  BY DEF Reader!DecodeStops, Reader!NeedsGroup
<1> HIDE DEF g
<1>2. CASE Reader!Refuse(g.at, 0, TRUE) BY <1>1, <1>2, RefuseSealed
<1>3. CASE UNCHANGED <<Reader!decoder, errors>>
 <2>1. SumTrusted' = SumTrusted BY <1>1, <1>3, SumsSame DEF SumTrusted, Reading, Reader!decoder
 <2> QED BY <1>1, <1>3, <2>1, TurnSealed DEF BlockInv, Reader!decoder
<1> QED BY <1>1, <1>2, <1>3

\* A block is taken for whole only if its checksum is that of a block written.
LEMMA DecodeEndSealed ==
  ASSUME ReaderInv, BlockInv, AllKnown(Sums, wire), Reading, Reader!DecodeEnd
  PROVE  BlockInv'
<1> DEFINE g == Reader!Read4(1)
           m == Reader!Match(Reader!Ending(g))
           a == Reader!ChecksumAt(g) + 1
           s == Reader!Read4(a)
           e == m.at > g.at /\ m.at = s.at /\ s.at = Reader!EndOfWire
<1>1. /\ state = "BASE64" /\ Len(g.digits) \in {0, 2, 3}
      /\ UNCHANGED <<state, lastseen, blocks>>
      /\ \/ Reader!Refuse(m.at, Len(g.digits) - 1, TRUE)
         \/ Reader!Refuse(m.at, 0, e)
         \/ /\ eof64' = TRUE /\ Reader!Store(Reader!Bytes(g.digits))
            /\ IF Reader!SumOk(s.digits, checksum')
                 THEN UNCHANGED <<Reader!call, errors>>
                 ELSE Reader!Return("zero") /\ errors' = TRUE
  BY DEF Reader!DecodeEnd, Reader!NeedsGroup
<1>2. a \in Nat \ {0}
 <2>1. IsSequence(wire) BY KnownElement
 <2>2. g.at \in Nat BY <2>1, Read4Is
 <2> HIDE DEF g
 <2>3. Reader!PaddingEnd(g) \in Nat BY <2>2 DEF Reader!PaddingEnd
 <2>4. Reader!Skip(Reader!PaddingEnd(g) + 1) \in Nat BY <2>1, <2>3, SkipIs DEF From
 <2>5. Reader!ChecksumAt(g) \in Nat BY <2>2, <2>4 DEF Reader!ChecksumAt
 <2> QED BY <2>5
<1> HIDE DEF a
<1>3. s.digits \in Seq(Seq(CrumbsOf(Sums))) BY <1>2, Read4Digits
<1> HIDE DEF g, m, s, e
<1>4. CASE Reader!Refuse(m.at, Len(g.digits) - 1, TRUE) \/ Reader!Refuse(m.at, 0, e)
  BY <1>1, <1>4, RefuseSealed
<1>5. CASE /\ eof64' = TRUE /\ Reader!Store(Reader!Bytes(g.digits))
           /\ IF Reader!SumOk(s.digits, checksum')
                 THEN UNCHANGED <<Reader!call, errors>>
                 ELSE Reader!Return("zero") /\ errors' = TRUE
 <2>1. \A i \in 1 .. Len(checksum') : checksum'[i] # <<>> BY <1>1, <1>5, StoreFull
 <2>2. CASE Reader!SumOk(s.digits, checksum')
  <3>1. errors' = errors BY <1>5, <2>2
  <3>2. checksum' \in Sums
   <4> HIDE DEF CrumbsOf
   <4> QED BY <1>3, <2>1, <2>2, SumOkIs
  <3>3. SumTrusted' BY <3>2, SumsSame DEF SumTrusted, Reading
  <3> QED BY <1>1, <2>1, <3>1, <3>3, TurnSealed
 <2>3. CASE ~ Reader!SumOk(s.digits, checksum')
  <3>1. errors' BY <1>5, <2>3
  <3> QED BY <1>1, <2>1, <3>1, TurnSealed
 <2> QED BY <2>2, <2>3
<1> QED BY <1>1, <1>4, <1>5


LEMMA GiveOctetSealed ==
  ASSUME ReaderInv, BlockInv, Reading, Reader!GiveOctet PROVE BlockInv'
<1> DEFINE n   == Len(blocks)
           now == Append(dest, buffer[buffered - 1])
           d   == [blocks[n] EXCEPT !.octets = blocks[n].octets \o now]
<1>1. /\ state = "BASE64"
      /\ UNCHANGED <<wire, lastseen, eof64, checksum, errors>>
      /\ \/ /\ blocks' = [blocks EXCEPT ![n].octets = @ \o now]
            /\ state' = IF eof64 /\ buffered = 1 THEN "AT_TRAILER_NAME" ELSE state
         \/ UNCHANGED <<state, blocks>>
  BY DEF Reader!GiveOctet
<1> HIDE DEF now
<1>2. CASE UNCHANGED <<state, blocks>>
 <2>1. SumTrusted' = SumTrusted BY <1>1, <1>2, SumsSame DEF SumTrusted, Reading
 <2> QED BY <1>1, <1>2, <2>1, TurnSealed DEF BlockInv
<1>3. CASE /\ blocks' = [blocks EXCEPT ![n].octets = @ \o now]
           /\ state' = IF eof64 /\ buffered = 1 THEN "AT_TRAILER_NAME" ELSE state
 <2>1. IsSequence(blocks) /\ blocks # <<>> /\ \A k \in 1 .. n : IsBlock(blocks[k])
   BY <1>1 DEF ReaderInv
 <2>2. blocks' = [blocks EXCEPT ![n] = d] BY <1>3
 <2>3. n \in 1 .. n BY <2>1, <2>2, LastChanged
 <2>4. d.header = blocks[n].header /\ d.trailer = blocks[n].trailer
  <3> DEFINE b == blocks[n]
             x == blocks[n].octets \o now
             h == b.header
             o == b.octets
             t == b.trailer
  <3>1. b = [header |-> h, octets |-> o, trailer |-> t] BY <2>1, <2>3 DEF IsBlock
  <3> HIDE DEF x, h, o, t, b
  <3>2. [b EXCEPT !.octets = x] = [header |-> h, octets |-> x, trailer |-> t] BY <3>1
  <3>3. d = [b EXCEPT !.octets = x] BY DEF b, x
  <3>4. d.header = h /\ d.trailer = t BY <3>2, <3>3
  <3> QED BY <3>4 DEF h, t, b
 <2> HIDE DEF d
 <2>5. /\ Len(blocks') = n /\ blocks'[n] = d
       /\ \A k \in 1 .. n : k # n => blocks'[k] = blocks[k]
   BY <2>1, <2>2, LastChanged
 <2> HIDE DEF n
 <2>6. Sums' = Sums /\ stage' = "read" BY SumsSame DEF Reading
 <2>7. ~ Closed(blocks[n]) /\ ~ Closed(blocks'[n]) BY <1>1, <2>4, <2>5 DEF BlockInv, Closed, n
 <2>8. state' # "OUTSIDE_BLOCK" /\ (state' = "BASE64" \/ eof64) BY <1>1, <1>3
 <2>9. ASSUME ~ errors' PROVE SumTrusted' /\ NameTrusted' /\ AllSealed'
  <3>1. SumTrusted /\ NameTrusted /\ AllSealed BY <1>1, <2>9 DEF BlockInv
  <3>2. SumTrusted' BY <1>1, <2>6, <2>8, <3>1 DEF SumTrusted
  <3>3. NameTrusted'
   <4>1. Opened(blocks[n]) /\ lastseen = blocks[n].header BY <1>1, <3>1 DEF NameTrusted, n
   <4>2. Opened(blocks'[n]) /\ lastseen' = blocks'[n].header
     BY <1>1, <2>4, <2>5, <4>1 DEF Opened
   <4> QED BY <2>5, <2>8, <4>2 DEF NameTrusted
  <3>4. AllSealed'
   <4>1. ASSUME NEW k \in 1 .. n, Closed(blocks'[k]) PROVE Sealed(Sums, blocks'[k])
    <5>1. k # n BY <2>7, <4>1
    <5> QED BY <2>5, <3>1, <4>1, <5>1 DEF AllSealed, n
   <4> QED BY <2>5, <2>6, <4>1 DEF AllSealed
  <3> QED BY <3>2, <3>3, <3>4
 <2> QED BY <1>1, <2>5, <2>6, <2>7, <2>8, <2>9 DEF BlockInv
<1> QED BY <1>1, <1>2, <1>3

LEMMA BlockUsedUpSealed ==
  ASSUME BlockInv, Reading, Reader!BlockUsedUp PROVE BlockInv'
<1>1. /\ state = "BASE64" /\ eof64 /\ state' \in {"BASE64", "AT_TRAILER_NAME"}
      /\ UNCHANGED <<wire, lastseen, Reader!decoder, errors, blocks>>
  BY DEF Reader!BlockUsedUp
<1>2. Sums' = Sums /\ stage' = "read" BY SumsSame DEF Reading
<1>3. checksum' = checksum /\ eof64' = eof64 BY <1>1 DEF Reader!decoder
<1>4. ASSUME ~ errors' PROVE SumTrusted' /\ NameTrusted' /\ AllSealed'
 <2>1. SumTrusted /\ NameTrusted /\ AllSealed BY <1>1, <1>4 DEF BlockInv
 <2>2. SumTrusted' BY <1>1, <1>2, <1>3, <2>1 DEF SumTrusted
 <2>3. NameTrusted' BY <1>1, <2>1 DEF NameTrusted
 <2>4. AllSealed' BY <1>1, <1>2, <2>1 DEF AllSealed
 <2> QED BY <2>2, <2>3, <2>4
<1> QED BY <1>1, <1>2, <1>3, <1>4 DEF BlockInv

LEMMA ReadNoTrailerSealed ==
  ASSUME BlockInv, AllKnown(Sums, wire), Reading, Reader!ReadNoTrailer PROVE BlockInv'
<1> DEFINE d == Reader!NameEnd(1)
<1>1. /\ UNCHANGED <<state, lastseen, Reader!decoder, blocks>>
      /\ Reader!Consume(d) /\ (errors' = errors \/ errors' = TRUE)
  BY DEF Reader!ReadNoTrailer
<1>2. d \in Nat BY KnownElement, NameEndIs DEF From
<1> HIDE DEF d
<1>3. wire = <<>> => wire' = <<>> BY <1>1, <1>2, ConsumeKnown
<1>4. SumTrusted' = SumTrusted BY <1>1, SumsSame DEF SumTrusted, Reading, Reader!decoder
<1>5. errors => errors' BY <1>1
<1> QED BY <1>1, <1>3, <1>4, <1>5, TurnSealed DEF BlockInv, Reader!decoder

\* A trailer closes its block: what was given of it is what the checksum is of.
LEMMA ReadTrailerSealed ==
  ASSUME ReaderInv, BlockInv, AllKnown(Sums, wire), Reading, Reader!ReadTrailer
  PROVE  BlockInv'
<1> DEFINE n     == Len(blocks)
           e     == Reader!NameEnd(1)
           name  == SubSeq(wire, 1, e - 1)
           end   == Reader!Skip(e + 5)
           wrong == \/ Reader!WrongEnd(name)
                    \/ \E k \in 1 .. 5 : LET p == Reader!TrailerPlaces(e)[k]
                                         IN  p.at < Reader!EndOfWire /\ ~p.ok
           d     == [blocks[n] EXCEPT !.trailer = name[1]]
<1>1. /\ length > 0 /\ state = "AT_TRAILER_NAME"
      /\ Reader!Char(e) = Reader!DASH /\ Reader!Recognised(name) /\ lastseen' = name[1]
      /\ \/ /\ end >= Reader!EndOfWire
            /\ Reader!Consume(end) /\ errors' = (errors \/ wrong)
            /\ UNCHANGED <<state, Reader!decoder, blocks>>
         \/ /\ name[1][1] = "BEGIN"
            /\ Reader!OpenBlock(name, end, wrong)
         \/ /\ name[1][1] # "BEGIN" /\ state' = "OUTSIDE_BLOCK"
            /\ errors' = (errors \/ wrong)
            /\ blocks' = [blocks EXCEPT ![n].trailer = name[1]]
            /\ UNCHANGED Reader!decoder
  BY DEF Reader!ReadTrailer
<1>2. IsSequence(wire) /\ e \in Nat /\ end \in Nat /\ Len(wire) \in Nat
      /\ Reader!EndOfWire = Len(wire) + 1
 <2>1. IsSequence(wire) /\ Len(wire) \in Nat /\ Reader!EndOfWire = Len(wire) + 1
   BY KnownElement, EndIs
 <2>2. e \in Nat BY <2>1, NameEndIs DEF From
 <2> HIDE DEF e
 <2>3. end \in Nat BY <2>1, <2>2, SkipIs DEF From
 <2> QED BY <2>1, <2>2, <2>3
<1>3. name[1][1] \in {"BEGIN", "END"} /\ name[1] = <<name[1][1], name[1][2]>>
 <2>1. 1 \in Nat \ {0} /\ Reader!Recognised(name) BY <1>1
 <2> HIDE DEF wrong
 <2> QED BY <2>1, NameIs
<1>4. wire # <<>>
 <2>1. Reader!Char(e) # <<>> BY <1>1 DEF Reader!DASH
 <2>2. e < Reader!EndOfWire BY <2>1 DEF Reader!Char
 <2>3. e >= 1 BY <1>2, NameEndIs DEF From
 <2> HIDE DEF e
 <2>4. Len(wire) # 0 BY <1>2, <2>2, <2>3
 <2> QED BY <1>2, <2>4, SequenceFacts
<1>5. Reader!WrongEnd(name) => wrong OBVIOUS
<1> HIDE DEF e, name, end, wrong
<1>6. Sums' = Sums /\ stage' = "read" BY SumsSame DEF Reading
<1>7. CASE /\ end >= Reader!EndOfWire
           /\ Reader!Consume(end) /\ errors' = (errors \/ wrong)
           /\ UNCHANGED <<state, Reader!decoder, blocks>>
 <2>1. wire' = <<>> BY <1>2, <1>7, ConsumeKnown
 <2>2. checksum' = checksum BY <1>7 DEF Reader!decoder
 <2>3. ASSUME ~ errors' PROVE SumTrusted' /\ NameTrusted' /\ AllSealed'
  <3>1. SumTrusted /\ NameTrusted /\ AllSealed BY <1>7, <2>3 DEF BlockInv
  <3>2. SumTrusted' BY <1>1, <1>6, <1>7, <2>2, <3>1 DEF SumTrusted
  <3>3. NameTrusted' BY <1>1, <1>7, <2>1, <3>1 DEF NameTrusted
  <3>4. AllSealed' BY <1>6, <1>7, <3>1 DEF AllSealed
  <3> QED BY <3>2, <3>3, <3>4
 <2> QED BY <1>6, <1>7, <2>2, <2>3 DEF BlockInv
<1>8. CASE name[1][1] = "BEGIN" /\ Reader!OpenBlock(name, end, wrong)
 <2>1. lastseen' = name[1] /\ name[1] = <<"BEGIN", name[1][2]>> BY <1>1, <1>3, <1>8
 <2> QED BY <1>8, <2>1, OpenBlockSealed
<1>9. CASE /\ name[1][1] # "BEGIN" /\ state' = "OUTSIDE_BLOCK"
           /\ errors' = (errors \/ wrong)
           /\ blocks' = [blocks EXCEPT ![n].trailer = name[1]]
           /\ UNCHANGED Reader!decoder
 <2> DEFINE t == name[1][2]
 <2>1. name[1] = <<"END", t>> /\ name[1][1] = "END" BY <1>3, <1>9
 <2>2. checksum' = checksum BY <1>9 DEF Reader!decoder
 <2>3. lastseen'[1] # "BEGIN" BY <1>1, <2>1
 <2>4. IsSequence(blocks) /\ blocks # <<>> /\ \A k \in 1 .. n : IsBlock(blocks[k])
   BY <1>1 DEF ReaderInv
 <2>5. blocks' = [blocks EXCEPT ![n] = d] BY <1>9
 <2>6. n \in 1 .. n BY <2>4, <2>5, LastChanged
 <2>7. d.header = blocks[n].header /\ d.octets = blocks[n].octets /\ d.trailer = name[1]
  <3> DEFINE b == blocks[n]
             x == name[1]
             h == b.header
             o == b.octets
             u == b.trailer
  <3>1. b = [header |-> h, octets |-> o, trailer |-> u] BY <2>4, <2>6 DEF IsBlock
  <3> HIDE DEF x, h, o, u, b
  <3>2. [b EXCEPT !.trailer = x] = [header |-> h, octets |-> o, trailer |-> x] BY <3>1
  <3>3. d = [b EXCEPT !.trailer = x] BY DEF b, x
  <3>4. d.header = h /\ d.octets = o /\ d.trailer = x BY <3>2, <3>3
  <3> QED BY <3>4 DEF h, o, b, x
 <2> HIDE DEF d
 <2>8. /\ Len(blocks') = n /\ blocks'[n] = d
       /\ \A k \in 1 .. n : k # n => blocks'[k] = blocks[k]
   BY <2>4, <2>5, LastChanged
 <2>9. ASSUME ~ errors' PROVE SumTrusted' /\ NameTrusted' /\ AllSealed'
  <3>1. ~ errors /\ ~ Reader!WrongEnd(name) BY <1>5, <1>9, <2>9
  <3>2. SumTrusted /\ NameTrusted /\ AllSealed BY <3>1 DEF BlockInv
  <3>3. Opened(blocks[n]) /\ lastseen = blocks[n].header BY <1>1, <1>4, <3>2 DEF NameTrusted
  <3>4. lastseen = <<"BEGIN", t>> BY <2>1, <3>1 DEF Reader!WrongEnd
  <3>5. blocks[n].octets \in Sums
   <4>1. checksum \in Sums BY <1>1, <3>2 DEF SumTrusted
   <4>2. ret # "abort" /\ IsBlock(blocks[n]) BY <1>1, <2>4, <2>6 DEF ReaderInv
   <4>3. checksum = blocks[n].octets \o Taken /\ Taken = <<>>
     BY <1>1, <2>4, <3>1, <4>2 DEF ReaderInv, Accounted, Taken
   <4>4. blocks[n].octets \o <<>> = blocks[n].octets
     BY <4>2, SequenceConcat, SequenceEmpty DEF IsBlock
   <4> QED BY <4>1, <4>3, <4>4
  <3>6. Sealed(Sums, d)
   <4>1. d.header = <<"BEGIN", t>> /\ d.trailer = <<"END", t>> BY <2>1, <2>7, <3>3, <3>4
   <4> HIDE DEF t
   <4>2. d.header[2] = t BY <4>1
   <4> QED BY <2>7, <3>5, <4>1, <4>2 DEF Sealed, Opened
  <3>7. SumTrusted' /\ NameTrusted' BY <1>9, <2>3 DEF SumTrusted, NameTrusted
  <3>8. ASSUME NEW k \in 1 .. n, Closed(blocks'[k]) PROVE Sealed(Sums, blocks'[k])
    BY <2>8, <3>2, <3>6, <3>8 DEF AllSealed
  <3>9. AllSealed' BY <1>6, <2>8, <3>8 DEF AllSealed
  <3> QED BY <3>7, <3>9
 <2> QED BY <1>6, <1>9, <2>2, <2>9 DEF BlockInv
<1> QED BY <1>1, <1>7, <1>8, <1>9

LEMMA StepSealed ==
  ASSUME ReaderInv, BlockInv, AllKnown(Sums, wire), Reading, Reader!Step PROVE BlockInv'
BY ReadLineSealed, ReadHeaderSealed, DecodeGroupSealed, DecodeStopsSealed, DecodeEndSealed,
   GiveOctetSealed, BlockUsedUpSealed, ReadNoTrailerSealed, ReadTrailerSealed
   DEF Reader!Step


-----------------------------------------------------------------------------
(* What is left of the file stays known, what is put back included. *)

LEMMA PutBackKnown ==
  ASSUME NEW sums, AllKnown(sums, wire), NEW i \in Nat \ {0}
  PROVE  AllKnown(sums, Reader!ParseHeaders(i).back)
<1> DEFINE e == Reader!LineEnd(i)
           l == SubSeq(wire, i, e - 1)
           t == Reader!NoCRs(l)
           b == Reader!ParseHeaders(i).back
<1>1. IsSequence(wire) /\ Len(wire) \in Nat /\ Reader!EndOfWire = Len(wire) + 1
  BY KnownElement, EndIs
<1>2. e \in Nat /\ i <= e /\ (e > i => e <= Len(wire) + 1) BY <1>1, LineEndIs DEF From
<1>3. b = <<>> \/ b = Append(t, Reader!NL) BY DEF Reader!ParseHeaders
<1> HIDE DEF e, b
<1>4. AllKnown(sums, l)
 <2>1. e - 1 \in Int /\ (i <= e - 1 => e - 1 <= Len(wire)) BY <1>1, <1>2
 <2> QED BY <2>1, KnownSub
<1> HIDE DEF l
<1>5. AllKnown(sums, t) BY <1>4, NoCRsKnown
<1> HIDE DEF t
<1>6. AllKnown(sums, <<Reader!NL>>)
 <2>1. Known(sums, Reader!NL) BY MarksKnown DEF Reader!NL, NL
 <2> DEFINE S == {Reader!NL}
 <2>2. <<Reader!NL>> \in Seq(S) /\ \A c \in S : Known(sums, c) BY <2>1
 <2> HIDE DEF S
 <2> QED BY <2>2, KnownSequence
<1>7. Append(t, Reader!NL) = t \o <<Reader!NL>> BY <1>5, KnownElement, SequenceAppend
<1>8. AllKnown(sums, <<>>) BY MarksWritten
<1> QED BY <1>3, <1>5, <1>6, <1>7, <1>8, KnownConcat DEF b

LEMMA OpenBlockKnown ==
  ASSUME NEW sums, AllKnown(sums, wire), NEW name, NEW at \in Nat, NEW wrong,
         Reader!OpenBlock(name, at, wrong)
  PROVE  AllKnown(sums, wire')
<1> DEFINE i == at + 1
           h == Reader!ParseHeaders(i)
<1>1. IsSequence(wire) /\ Len(wire) \in Nat BY KnownElement, EndIs
<1>2. i \in Nat \ {0} OBVIOUS
<1>3. Reader!Consume(h.at) \/ wire' = h.back \o SubSeq(wire, h.at + 1, Len(wire))
  BY DEF Reader!OpenBlock
<1> HIDE DEF i
<1>4. h.at \in Nat /\ AllKnown(sums, h.back) BY <1>1, <1>2, ParseHeadersIs, PutBackKnown
<1> HIDE DEF h
<1>5. AllKnown(sums, SubSeq(wire, h.at + 1, Len(wire)))
 <2>1. h.at + 1 \in Nat \ {0} BY <1>4
 <2> QED BY <1>1, <2>1, KnownSub
<1> QED BY <1>3, <1>4, <1>5, ConsumeKnown, KnownConcat

LEMMA StepKnown ==
  ASSUME NEW sums, AllKnown(sums, wire), Reader!Step PROVE AllKnown(sums, wire')
<1>1. IsSequence(wire) BY KnownElement
<1>2. ASSUME NEW i \in Nat, Reader!Consume(i) PROVE AllKnown(sums, wire') BY <1>2, ConsumeKnown
<1>3. CASE Reader!ReadLine
 <2>1. Reader!Consume(Reader!LineEnd(1)) BY <1>3 DEF Reader!ReadLine
 <2>2. Reader!LineEnd(1) \in Nat BY <1>1, LineEndIs DEF From
 <2> QED BY <1>2, <2>1, <2>2
<1>4. CASE Reader!ReadNoHeader
 <2>1. Reader!Consume(Reader!HeaderLine.at) BY <1>4 DEF Reader!ReadNoHeader
 <2> QED BY <1>1, <1>2, <2>1, HeaderLineIs
<1>5. CASE Reader!ReadHeader
 <2>1. \E name, wrong : Reader!OpenBlock(name, Reader!HeaderLine.at, wrong)
   BY <1>5 DEF Reader!ReadHeader
 <2> QED BY <1>1, <2>1, HeaderLineIs, OpenBlockKnown
<1>6. CASE Reader!DecodeGroup \/ Reader!DecodeStops
 <2>1. Reader!Consume(Reader!Read4(1).at)
   BY <1>6 DEF Reader!DecodeGroup, Reader!DecodeStops, Reader!Refuse
 <2>2. Reader!Read4(1).at \in Nat BY <1>1, Read4Is
 <2> QED BY <1>2, <2>1, <2>2
<1>7. CASE Reader!DecodeEnd
 <2> DEFINE g == Reader!Read4(1)
            at == Reader!Match(Reader!Ending(g)).at
 <2>1. Reader!Consume(at) BY <1>7 DEF Reader!DecodeEnd, Reader!Refuse
 <2>2. g.at \in Nat BY <1>1, Read4Is
 <2> HIDE DEF g
 <2>3. at \in Nat BY <1>1, <2>2, EndingIs
 <2> QED BY <1>2, <2>1, <2>3
<1>8. CASE Reader!GiveOctet \/ Reader!BlockUsedUp BY <1>8 DEF Reader!GiveOctet, Reader!BlockUsedUp
<1>9. Reader!NameEnd(1) \in Nat BY <1>1, NameEndIs DEF From
<1>10. CASE Reader!ReadNoTrailer
 <2>1. Reader!Consume(Reader!NameEnd(1)) BY <1>10 DEF Reader!ReadNoTrailer
 <2> QED BY <1>2, <1>9, <2>1
<1>11. CASE Reader!ReadTrailer
 <2> DEFINE e == Reader!NameEnd(1)
            end == Reader!Skip(e + 5)
 <2>1. Reader!Consume(end) \/ \E name, wrong : Reader!OpenBlock(name, end, wrong)
   BY <1>11 DEF Reader!ReadTrailer
 <2> HIDE DEF e
 <2>2. end \in Nat BY <1>1, <1>9, SkipIs DEF From, e
 <2> HIDE DEF end
 <2> QED BY <1>2, <2>1, <2>2, OpenBlockKnown
<1> QED BY <1>3, <1>4, <1>5, <1>6, <1>7, <1>8, <1>10, <1>11 DEF Reader!Step

-----------------------------------------------------------------------------
(* The file and both sides of it *)

KnownInv == ArmourInv /\ FileInv /\ BlockInv

\* While nothing is read no block is open.
LEMMA WritingSealed ==
  ASSUME BlockInv, UNCHANGED reading, stage # "read", Sums \subseteq Sums' PROVE BlockInv'
<1>1. UNCHANGED <<state, lastseen, eof64, checksum, errors, blocks>> BY DEF reading
<1>2. state = "OUTSIDE_BLOCK" BY DEF BlockInv
<1>3. ASSUME ~ errors' PROVE SumTrusted' /\ NameTrusted' /\ AllSealed'
 <2>1. NameTrusted /\ AllSealed BY <1>1, <1>3 DEF BlockInv
 <2>2. SumTrusted' /\ NameTrusted' BY <1>1, <1>2, <2>1 DEF SumTrusted, NameTrusted
 <2>3. AllSealed' BY <1>1, <2>1 DEF AllSealed, Sealed
 <2> QED BY <2>2, <2>3
<1> QED BY <1>1, <1>2, <1>3 DEF BlockInv

\* The file stays known when more blocks are.
LEMMA FileKept ==
  ASSUME Sums \subseteq Sums', AllKnown(Sums, wire'), pending' \in Seq(CrumbsOf(Sums))
  PROVE  FileInv'
<1>1. AllKnown(Sums', wire') /\ CrumbsOf(Sums) \subseteq CrumbsOf(Sums') BY KnownMore
<1> HIDE DEF CrumbsOf
<1>2. pending' \in Seq(CrumbsOf(Sums')) BY <1>1, SeqMonotonic
<1> QED BY <1>1, <1>2 DEF FileInv

LEMMA KnownStep == KnownInv /\ [ArmourNext]_armourVars => KnownInv'
<1> SUFFICES ASSUME KnownInv, [ArmourNext]_armourVars PROVE KnownInv' OBVIOUS
<1>1. ArmourInv /\ FileInv /\ BlockInv /\ ArmourInv' /\ ReaderInv
  BY ArmourStep DEF KnownInv, ArmourInv
<1>2. Sums \subseteq Sums' /\ (Finalise => sum \in Sums') BY <1>1, SumsGrow
<1>3. AllKnown(Sums, wire) /\ pending \in Seq(CrumbsOf(Sums)) /\ <<>> \in Seq(CrumbsOf(Sums))
      /\ <<>> \in Seq(CrumbsOf(Sums'))
  BY <1>1 DEF FileInv
<1>4. ASSUME NEW t \in Texts, WriteText(t) PROVE KnownInv'
 <2>1. stage # "read" /\ UNCHANGED <<reading, pending>> BY <1>4 DEF WriteText, writing
 <2>2. AllKnown(Sums, wire') BY <1>1, <1>4, WriteTextKnown
 <2>3. FileInv' BY <1>2, <1>3, <2>1, <2>2, FileKept
 <2>4. BlockInv' BY <1>1, <1>2, <2>1, WritingSealed
 <2> QED BY <1>1, <2>3, <2>4 DEF KnownInv
<1>5. ASSUME NEW t \in Writer!Types, Push(t) PROVE KnownInv'
 <2>1. stage # "read" /\ UNCHANGED reading BY <1>5 DEF Push
 <2>2. AllKnown(Sums, wire') /\ pending' = <<>> BY <1>1, <1>5, PushKnown
 <2>3. FileInv' BY <1>2, <1>3, <2>2, FileKept
 <2>4. BlockInv' BY <1>1, <1>2, <2>1, WritingSealed
 <2> QED BY <1>1, <2>3, <2>4 DEF KnownInv
<1>6. CASE WriteOctet
 <2>1. stage # "read" /\ UNCHANGED reading BY <1>6 DEF WriteOctet
 <2>2. AllKnown(Sums, wire') /\ pending' \in Seq(CrumbsOf(Sums)) BY <1>1, <1>6, WriteOctetKnown
 <2>3. FileInv' BY <1>2, <2>2, FileKept
 <2>4. BlockInv' BY <1>1, <1>2, <2>1, WritingSealed
 <2> QED BY <1>1, <2>3, <2>4 DEF KnownInv
<1>7. CASE Finalise
 <2>1. stage # "read" /\ UNCHANGED reading BY <1>7 DEF Finalise
 <2>2. AllKnown(Sums', wire') /\ pending' = <<>> BY <1>1, <1>2, <1>7, FinaliseKnown
 <2>3. FileInv' BY <1>3, <2>2 DEF FileInv
 <2>4. BlockInv' BY <1>1, <1>2, <2>1, WritingSealed
 <2> QED BY <1>1, <2>3, <2>4 DEF KnownInv
<1>8. CASE Damage
 <2>1. stage # "read" /\ UNCHANGED <<reading, pending>> BY <1>8 DEF Damage, writing
 <2>2. AllKnown(Sums, wire') BY <1>1, <1>8, DamageKnown
 <2>3. FileInv' BY <1>2, <1>3, <2>1, <2>2, FileKept
 <2>4. BlockInv' BY <1>1, <1>2, <2>1, WritingSealed
 <2> QED BY <1>1, <2>3, <2>4 DEF KnownInv
<1>9. CASE StartReading
 <2>1. stage # "read" /\ UNCHANGED <<wire, reading, pending>> BY <1>9 DEF StartReading, writing
 <2>2. FileInv' BY <1>2, <1>3, <2>1, FileKept
 <2>3. BlockInv' BY <1>1, <1>2, <2>1, WritingSealed
 <2> QED BY <1>1, <2>2, <2>3 DEF KnownInv
<1>10. ASSUME NEW n \in 1 .. MaxRead, Call(n) PROVE KnownInv'
 <2>1. Reader!Call(n) /\ Reading /\ UNCHANGED pending BY <1>10 DEF Call, writing, Reading
 <2>2. UNCHANGED wire BY <2>1 DEF Reader!Call
 <2>3. FileInv' BY <1>2, <1>3, <2>1, <2>2, FileKept
 <2>4. BlockInv' BY <1>1, <2>1, CallSealed
 <2> QED BY <1>1, <2>3, <2>4 DEF KnownInv
<1>11. CASE Read
 <2>1. Reader!Step /\ Reading /\ UNCHANGED pending BY <1>11 DEF Read, writing, Reading
 <2>2. AllKnown(Sums, wire') BY <1>3, <2>1, StepKnown
 <2>3. FileInv' BY <1>2, <1>3, <2>1, <2>2, FileKept
 <2>4. BlockInv' BY <1>1, <1>3, <2>1, StepSealed
 <2> QED BY <1>1, <2>3, <2>4 DEF KnownInv
<1>12. CASE UNCHANGED armourVars
 <2>1. UNCHANGED <<wire, pending, stage, written>>
       /\ UNCHANGED <<state, lastseen, eof64, checksum, errors, blocks>>
   BY <1>12 DEF armourVars, reading, writing
 <2>2. Sums' = Sums BY <2>1, SumsSame
 <2>3. FileInv' BY <1>2, <1>3, <2>1, FileKept
 <2>4. BlockInv' BY <1>1, <2>1, <2>2 DEF BlockInv, SumTrusted, NameTrusted, AllSealed
 <2> QED BY <1>1, <2>3, <2>4 DEF KnownInv
<1> QED BY <1>4, <1>5, <1>6, <1>7, <1>8, <1>9, <1>10, <1>11, <1>12 DEF ArmourNext

\* A block that has come to its trailer without an error is one that was
\* written, octet by octet, and its trailer says what its header says.
ClosedBlocksGenuine ==
  errors \/ \A k \in DOMAIN blocks :
    blocks[k].trailer # Reader!NoName =>
      /\ \E n \in DOMAIN written : blocks[k].octets = written[n].octets
      /\ \E t : blocks[k].header = <<"BEGIN", t>> /\ blocks[k].trailer = <<"END", t>>

\* Whatever stretch of a file of any size is lost or character changed, and
\* however it is read: octets that are not those of one block as they were
\* written never pass for a block, nor does what has a header of one type and a
\* trailer of another (decode64's checksum, set_lastseen_headerline).
THEOREM BlocksAlwaysGenuine == ArmourSpec => []ClosedBlocksGenuine
<1>1. ArmourInit => KnownInv BY ArmourStart, FileInit, BlockInit DEF KnownInv
<1>2. KnownInv /\ [ArmourNext]_armourVars => KnownInv' BY KnownStep
<1>3. KnownInv => ClosedBlocksGenuine
 <2> SUFFICES ASSUME KnownInv, ~ errors, NEW k \in DOMAIN blocks,
                     blocks[k].trailer # Reader!NoName
              PROVE  /\ \E n \in DOMAIN written : blocks[k].octets = written[n].octets
                     /\ \E t : /\ blocks[k].header = <<"BEGIN", t>>
                               /\ blocks[k].trailer = <<"END", t>>
   BY DEF ClosedBlocksGenuine
 <2>1. DOMAIN blocks = 1 .. Len(blocks) /\ DOMAIN written = 1 .. Len(written)
   BY SequenceFacts DEF KnownInv, ArmourInv, WriterInv, ReaderInv
 <2>2. Sealed(Sums, blocks[k]) BY <2>1 DEF KnownInv, BlockInv, AllSealed, Closed
 <2>3. \E n \in 1 .. Len(written) : blocks[k].octets = written[n].octets BY <2>2 DEF Sealed, Sums
 <2>4. /\ blocks[k].header = <<"BEGIN", blocks[k].header[2]>>
       /\ blocks[k].trailer = <<"END", blocks[k].header[2]>>
   BY <2>2 DEF Sealed, Opened
 <2> QED BY <2>1, <2>3, <2>4
<1> QED BY <1>1, <1>2, <1>3, PTL DEF ArmourSpec

=============================================================================
