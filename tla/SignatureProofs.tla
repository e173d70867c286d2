--------------------------- MODULE SignatureProofs ---------------------------
(***************************************************************************)
(* Signatures: the lengths of their subpackets, for every length the       *)
(* stream may declare and every size of the skip buffer, and the messages  *)
(* they sign, for every size of a body and every length of a text.         *)
(***************************************************************************)
EXTENDS SignatureSubpackets, SignedMessage, WellFoundedInduction, SequenceTheorems, TLAPS

-----------------------------------------------------------------------------
(* Subpackets.  SetsExact says something at the ends of sets and subpackets *)
(* only; in between, Extent ties alength to the set that is read, and InSub *)
(* to the subpacket.  Both also bound how far a subpacket can go past its   *)
(* set.                                                                     *)


InSub == pc \in {"type", "body", "unknown", "skip"}
InSet == InSub \/ pc \in {"next", "overrun"}

Extent ==
  /\ alength = packet.read + 2
  /\ pc = "set" => IF hashed THEN alength = 4
                   ELSE alength = hashedLength + 2 /\ hashedLength = 3 + set.len
  /\ InSet => /\ alength = (IF hashed THEN 5 ELSE hashedLength + 3) + set.read
              /\ packet.read <= MaxLen + 2 + set.read /\ set.read <= 2 * set.len
  /\ pc = "done" => alength = hashedLength + 3 + set.read /\ set.read = set.len
  /\ pc = "overrun" => set.read > set.len

Subpacket ==
  /\ InSub => /\ sub.len <= set.len /\ sub.read <= sub.len
              /\ set.read <= set.len + sub.read
              /\ ends = alength + sub.len - sub.read
  /\ pc = "type" => sub.read = 0
  /\ pc = "unknown" => sub.read = 1 /\ wanted # "raw"
  /\ pc = "skip" => sub.read + todo = sub.len
  /\ pc = "body" /\ (wanted = "raw" \/ type = "rest") => sub.read + todo = sub.len

LengthInv == TypeOK /\ Extent /\ Subpacket /\ NextSubpacketAligned

USE SubpacketConstants DEF SubpacketConstants

Places == {"set", "next", "type", "body", "unknown", "skip", "overrun",
           "done", "failed", "abort"}

\* TypeOK, number by number.
LEMMA Numbers ==
  TypeOK =>
    /\ MaxLen \in Nat /\ Word \in Nat /\ Buf \in Nat /\ Buf > 0 /\ Word > 3 /\ Word > MaxLen
    /\ packet \in [len : Int, read : Int] /\ set \in [len : Int, read : Int]
    /\ sub \in [len : Int, read : Int]
    /\ 2 <= packet.len /\ packet.len <= MaxLen + 2
    /\ 0 <= packet.read /\ packet.read <= 3 * MaxLen + 2
    /\ 0 <= set.len /\ set.len <= MaxLen /\ 0 <= set.read /\ set.read <= 3 * MaxLen + 2
    /\ 0 <= sub.len /\ sub.len <= MaxLen /\ 0 <= sub.read /\ sub.read <= 3 * MaxLen + 2
    /\ alength \in Nat /\ alength <= 3 * MaxLen + 4
    /\ hashedLength \in Nat /\ hashedLength <= 3 * MaxLen + 2
    /\ todo \in Nat /\ todo <= Word - 1 /\ ends \in Nat /\ ends <= 4 * MaxLen + 4
BY DEF TypeOK, Region

LEMMA InitLengths == Init => LengthInv
<1> SUFFICES ASSUME Init PROVE LengthInv OBVIOUS
<1>1. TypeOK
 <2>1. packet \in Region(MaxLen + 2) /\ packet.len >= 2 BY DEF Init, Region
 <2>2. set \in Region(MaxLen) /\ sub \in Region(MaxLen) BY DEF Init, None, Region
 <2>3. type \in Types /\ wanted \in Wanted BY DEF Init, Types, Wanted
 <2>4. /\ alength \in 0 .. 3 * MaxLen + 4 /\ hashedLength \in 0 .. 3 * MaxLen + 2
       /\ todo \in 0 .. Word - 1 /\ ends \in 0 .. 4 * MaxLen + 4
   BY DEF Init
 <2>5. hashed \in BOOLEAN /\ errors \in BOOLEAN /\ unread \in BOOLEAN BY DEF Init
 <2>6. pc \in Places BY DEF Init, Places
 <2> QED BY <2>1, <2>2, <2>3, <2>4, <2>5, <2>6 DEF TypeOK, Places
<1>2. Extent BY DEF Init, Extent, InSet, InSub
<1>3. Subpacket /\ NextSubpacketAligned BY DEF Init, Subpacket, InSub, NextSubpacketAligned
<1> QED BY <1>1, <1>2, <1>3 DEF LengthInv

\* A read that fails leaves all lengths as they are.
LEMMA Returns0Keeps == ASSUME LengthInv, NEW error \in BOOLEAN, Returns0(error) PROVE LengthInv'
<1>1. pc' = "failed" /\ errors' = (errors \/ error) BY DEF Returns0
<1>2. UNCHANGED <<hashed, packet, set, sub, type, wanted, todo, alength, ends, hashedLength, unread>>
  BY DEF Returns0, current
<1>3. TypeOK' BY <1>1, <1>2 DEF LengthInv, TypeOK
<1>4. Extent' /\ Subpacket' /\ NextSubpacketAligned'
  BY <1>1, <1>2 DEF LengthInv, Extent, Subpacket, NextSubpacketAligned, InSet, InSub
<1> QED BY <1>3, <1>4 DEF LengthInv

LEMMA SetLengthKeeps == ASSUME LengthInv, SetLength PROVE LengthInv'
<1>1. /\ pc = "set" /\ UNCHANGED <<hashed, type, wanted, todo, ends, hashedLength, errors, unread>>
      /\ packet.read + 1 <= packet.len
      /\ packet' = [packet EXCEPT !.read = @ + 1] /\ alength' = alength + 1 /\ sub' = sub
  BY DEF SetLength, Fits, Charge, current
<1>2. PICK len \in 0 .. MaxLen : /\ pc' \in {"failed", "next"}
                                /\ set' = [len |-> len, read |-> 0]
  BY DEF SetLength
<1>3. TypeOK'
 <2>1. /\ packet' \in Region(MaxLen + 2) /\ packet'.len >= 2
       /\ alength' \in 0 .. 3 * MaxLen + 4
   BY <1>1, Numbers DEF LengthInv, Extent, Region
 <2>2. set' \in Region(MaxLen) BY <1>2 DEF Region
 <2>3. pc' \in Places BY <1>2 DEF Places
 <2> QED BY <1>1, <2>1, <2>2, <2>3 DEF LengthInv, TypeOK, Places
<1>4. Extent' BY <1>1, <1>2, Numbers DEF LengthInv, Extent, InSet, InSub
<1>5. Subpacket' /\ NextSubpacketAligned'
  BY <1>1, <1>2, Numbers DEF Subpacket, NextSubpacketAligned, InSub
<1> QED BY <1>3, <1>4, <1>5 DEF LengthInv

LEMMA SetEndsKeeps == ASSUME LengthInv, SetEnds PROVE LengthInv'
<1>1. /\ pc = "next" /\ set.read = set.len
      /\ hashedLength' = IF hashed THEN alength - 2 ELSE hashedLength
      /\ pc' = IF hashed THEN "set" ELSE "done"
      /\ hashed' = FALSE
      /\ UNCHANGED <<packet, set, sub, type, wanted, todo, alength, ends, errors, unread>>
  BY DEF SetEnds, v4_hashed_data_start, current
<1>2. TypeOK'
 <2>1. hashedLength' \in 0 .. 3 * MaxLen + 2 BY <1>1, Numbers DEF LengthInv, Extent
 <2>2. pc' \in Places BY <1>1 DEF Places
 <2> QED BY <1>1, <2>1, <2>2 DEF LengthInv, TypeOK, Places
<1>3. Extent' BY <1>1, Numbers DEF LengthInv, Extent, InSet, InSub
<1>4. Subpacket' /\ NextSubpacketAligned' BY <1>1 DEF Subpacket, NextSubpacketAligned, InSub
<1> QED BY <1>2, <1>3, <1>4 DEF LengthInv

LEMMA UnsignedIsWord == ASSUME NEW n \in Int PROVE Unsigned(n) \in 0 .. Word - 1
BY DEF Unsigned

LEMMA SetMismatchKeeps == ASSUME LengthInv, SetMismatch PROVE LengthInv'
<1>1. /\ pc = "next" /\ ~(set.read < set.len) /\ set.read # set.len
      /\ pc' = "overrun" /\ todo' = Unsigned(set.len - set.read)
      /\ UNCHANGED <<hashed, packet, set, sub, type, wanted, alength, ends, hashedLength,
                     errors, unread>>
  BY DEF SetMismatch, More, current
<1>2. todo' \in 0 .. Word - 1 BY <1>1, Numbers, UnsignedIsWord DEF LengthInv
<1>3. TypeOK' BY <1>1, <1>2 DEF LengthInv, TypeOK
<1>4. Extent' BY <1>1, Numbers DEF LengthInv, Extent, InSet, InSub
<1>5. Subpacket' /\ NextSubpacketAligned' BY <1>1 DEF Subpacket, NextSubpacketAligned, InSub
<1> QED BY <1>3, <1>4, <1>5 DEF LengthInv

LEMMA SkipSetKeeps == ASSUME LengthInv, SkipSet PROVE LengthInv'
<1>1. /\ pc' = "failed" /\ errors' = TRUE
      /\ UNCHANGED <<hashed, packet, set, sub, type, wanted, todo, alength, ends,
                     hashedLength, unread>>
  BY DEF SkipSet, current
<1>2. TypeOK' BY <1>1 DEF LengthInv, TypeOK
<1>3. Extent' /\ Subpacket' /\ NextSubpacketAligned'
  BY <1>1 DEF LengthInv, Extent, Subpacket, NextSubpacketAligned, InSet, InSub
<1> QED BY <1>2, <1>3 DEF LengthInv

LEMMA SubLengthKeeps == ASSUME LengthInv, SubLength PROVE LengthInv'
<1>1. /\ pc = "next" /\ set.read < set.len
      /\ packet' = [packet EXCEPT !.read = @ + 1] /\ set' = [set EXCEPT !.read = @ + 1]
      /\ alength' = alength + 1
      /\ UNCHANGED <<hashed, type, wanted, todo, hashedLength, errors, unread>>
  BY DEF SubLength, More, ReadSet, Charge, current
<1>2. PICK len \in 0 .. MaxLen :
        /\ pc' = IF len > set.len THEN "failed" ELSE "type"
        /\ sub' = [len |-> len, read |-> 0] /\ ends' = alength + 1 + len
  BY DEF SubLength, TooLong
<1>3. /\ packet.read <= MaxLen + 2 + set.read /\ alength = packet.read + 2
      /\ alength = (IF hashed THEN 5 ELSE hashedLength + 3) + set.read
  BY <1>1 DEF LengthInv, Extent, InSet
<1>4. TypeOK'
 <2>1. /\ packet' \in Region(MaxLen + 2) /\ packet'.len >= 2
       /\ set' \in Region(MaxLen) /\ sub' \in Region(MaxLen)
   BY <1>1, <1>2, <1>3, Numbers DEF LengthInv, Region
 <2>2. alength' \in 0 .. 3 * MaxLen + 4 /\ ends' \in 0 .. 4 * MaxLen + 4
   BY <1>1, <1>2, <1>3, Numbers DEF LengthInv
 <2>3. pc' \in Places BY <1>2 DEF Places
 <2> QED BY <1>1, <2>1, <2>2, <2>3 DEF LengthInv, TypeOK, Places
<1>5. Extent' BY <1>1, <1>2, <1>3, Numbers DEF LengthInv, Extent, InSet, InSub
<1>6. Subpacket' /\ NextSubpacketAligned'
  BY <1>1, <1>2, Numbers DEF LengthInv, Subpacket, NextSubpacketAligned, InSub
<1> QED BY <1>4, <1>5, <1>6 DEF LengthInv

\* Reading within a subpacket, and what it leaves for the actions that do.
LEMMA ReadSubFacts ==
  ASSUME LengthInv, InSub, NEW n \in Nat, ReadSub(n)
  PROVE  /\ packet' \in Region(MaxLen + 2) /\ packet'.len >= 2
         /\ set' \in Region(MaxLen) /\ sub' \in Region(MaxLen)
         /\ alength' = alength + n /\ alength' \in 0 .. 3 * MaxLen + 4
         /\ alength' = packet'.read + 2
         /\ alength' = (IF hashed THEN 5 ELSE hashedLength + 3) + set'.read
         /\ packet'.read <= MaxLen + 2 + set'.read /\ set'.read <= 2 * set'.len
         /\ set'.len = set.len /\ sub'.len = sub.len /\ sub'.read = sub.read + n
         /\ sub'.len <= set'.len /\ sub'.read <= sub'.len
         /\ set'.read <= set'.len + sub'.read
         /\ ends = alength' + sub'.len - sub'.read
<1>1. /\ sub.read + n <= sub.len
      /\ packet' = [packet EXCEPT !.read = @ + n] /\ set' = [set EXCEPT !.read = @ + n]
      /\ sub' = [sub EXCEPT !.read = @ + n] /\ alength' = alength + n
  BY DEF ReadSub, Fits, Charge
<1>2. /\ packet' \in [len : Int, read : Int] /\ set' \in [len : Int, read : Int]
      /\ sub' \in [len : Int, read : Int]
      /\ packet'.len = packet.len /\ packet'.read = packet.read + n
      /\ set'.len = set.len /\ set'.read = set.read + n
      /\ sub'.len = sub.len /\ sub'.read = sub.read + n
  BY <1>1, Numbers DEF LengthInv
<1>3. /\ alength = packet.read + 2
      /\ alength = (IF hashed THEN 5 ELSE hashedLength + 3) + set.read
      /\ packet.read <= MaxLen + 2 + set.read
  BY DEF LengthInv, Extent, InSet
<1>4. /\ sub.len <= set.len /\ sub.read <= sub.len
      /\ set.read <= set.len + sub.read /\ ends = alength + sub.len - sub.read
  BY DEF LengthInv, Subpacket
<1>5. /\ alength' = packet'.read + 2
      /\ packet'.read <= MaxLen + 2 + set'.read /\ set'.read <= 2 * set'.len
      /\ sub'.len <= set'.len /\ sub'.read <= sub'.len
      /\ set'.read <= set'.len + sub'.read
      /\ ends = alength' + sub'.len - sub'.read
  BY <1>1, <1>2, <1>3, <1>4, Numbers DEF LengthInv
<1>6. alength' = (IF hashed THEN 5 ELSE hashedLength + 3) + set'.read
  BY <1>1, <1>2, <1>3, Numbers DEF LengthInv
<1>7. alength' \in 0 .. 3 * MaxLen + 4 BY <1>1, <1>2, <1>5, Numbers DEF LengthInv
<1>8. /\ packet' \in Region(MaxLen + 2) /\ packet'.len >= 2
      /\ set' \in Region(MaxLen) /\ sub' \in Region(MaxLen)
  BY <1>2, <1>5, Numbers DEF LengthInv, Region
<1> QED BY <1>1, <1>2, <1>5, <1>6, <1>7, <1>8

LEMMA SubTypeKeeps == ASSUME LengthInv, SubType PROVE LengthInv'
<1>1. /\ pc = "type" /\ ReadSub(1) /\ type' \in Types /\ wanted' \in Wanted
      /\ todo' = IF wanted' = "raw" \/ type' = "rest" THEN sub.len - 1 ELSE Fields[type']
      /\ pc' = IF wanted' # "raw" /\ type' = "unknown" THEN "unknown" ELSE "body"
      /\ UNCHANGED <<hashed, ends, hashedLength, errors, unread>>
  BY DEF SubType
<1>2. InSub /\ sub.read = 0 BY <1>1 DEF InSub, LengthInv, Subpacket
<1>3. Fields[type'] \in 0 .. 3
 <2>1. Fields[type'] = CASE type' \in {"field", "revocation_key"} -> 1
                         [] type' = "fields" -> 2
                         [] type' = "notation" -> 3
                         [] OTHER -> 0
   BY <1>1 DEF Fields
 <2>2. CASE type' = "field" BY <2>1, <2>2
 <2>3. CASE type' = "revocation_key" BY <2>1, <2>3
 <2>4. CASE type' = "fields" BY <2>1, <2>4
 <2>5. CASE type' = "notation" BY <2>1, <2>5
 <2>6. CASE type' \in {"rest", "unknown"} BY <2>1, <2>6
 <2> QED BY <1>1, <2>2, <2>3, <2>4, <2>5, <2>6 DEF Types
<1>4. sub.len >= 1 /\ sub.len <= MaxLen BY <1>1, <1>2, Numbers DEF LengthInv, ReadSub, Fits
<1>5. todo' \in 0 .. Word - 1 BY <1>1, <1>3, <1>4, Numbers DEF LengthInv
<1>6. TypeOK'
 <2>1. pc' \in Places BY <1>1 DEF Places
 <2> QED BY <1>1, <1>2, <1>5, <2>1, ReadSubFacts DEF LengthInv, TypeOK, Places
<1>7. Extent' BY <1>1, <1>2, ReadSubFacts DEF Extent, InSet, InSub
<1>8. Subpacket' BY <1>1, <1>2, <1>4, ReadSubFacts, Numbers DEF LengthInv, Subpacket, InSub
<1>9. NextSubpacketAligned' BY <1>1 DEF NextSubpacketAligned
<1> QED BY <1>6, <1>7, <1>8, <1>9 DEF LengthInv

\* A step in a subpacket that reads nothing.
LEMMA StandsStill ==
  ASSUME LengthInv,
         UNCHANGED <<hashed, packet, set, sub, type, wanted, alength, ends, hashedLength>>,
         pc' \in Places, todo' \in 0 .. Word - 1, errors' \in BOOLEAN, unread' \in BOOLEAN
  PROVE  TypeOK'
BY DEF LengthInv, TypeOK, Places

LEMMA BodyKeeps == ASSUME LengthInv, Body PROVE LengthInv'
<1>1. /\ pc = "body" /\ todo > 0 /\ ReadSub(Portioned) /\ todo' = todo - Portioned
      /\ UNCHANGED <<pc, hashed, type, wanted, ends, hashedLength, errors, unread>>
  BY DEF Body, current
<1>2. /\ Portioned \in Nat /\ Portioned <= todo
      /\ wanted = "raw" \/ type = "rest" => Portioned = todo
  BY <1>1, Numbers DEF LengthInv, Portioned
<1>3. InSub BY <1>1 DEF InSub
<1>4. todo' \in 0 .. Word - 1 BY <1>1, <1>2, Numbers DEF LengthInv
<1>5. TypeOK' BY <1>1, <1>2, <1>3, <1>4, ReadSubFacts DEF LengthInv, TypeOK
<1>6. Extent' BY <1>1, <1>2, <1>3, ReadSubFacts DEF Extent, InSet, InSub
<1>7. Subpacket'
 <2>1. wanted = "raw" \/ type = "rest" => sub.read + todo = sub.len
   BY <1>1 DEF LengthInv, Subpacket
 <2>2. wanted' = "raw" \/ type' = "rest" => sub'.read + todo' = sub'.len
   BY <1>1, <1>2, <1>3, <2>1, ReadSubFacts, Numbers DEF LengthInv
 <2> QED BY <1>1, <1>2, <1>3, <2>2, ReadSubFacts DEF Subpacket, InSub
<1>8. NextSubpacketAligned' BY <1>1 DEF NextSubpacketAligned
<1> QED BY <1>5, <1>6, <1>7, <1>8 DEF LengthInv

LEMMA limited_read_dataKeeps == ASSUME LengthInv, limited_read_data PROVE LengthInv'
<1>1. /\ pc' = "abort"
      /\ UNCHANGED <<hashed, packet, set, sub, type, wanted, todo, alength, ends,
                     hashedLength, errors, unread>>
  BY DEF limited_read_data, current
<1>2. TypeOK' BY <1>1 DEF LengthInv, TypeOK
<1>3. Extent' /\ Subpacket' /\ NextSubpacketAligned'
  BY <1>1 DEF LengthInv, Extent, Subpacket, NextSubpacketAligned, InSet, InSub
<1> QED BY <1>2, <1>3 DEF LengthInv

\* Delivered or dropped: where the subpacket ends by its length, if it has been
\* read to its end.
LEMMA GoesOn ==
  ASSUME LengthInv, InSub, pc' = "next",
         UNCHANGED <<hashed, packet, set, sub, type, wanted, todo, alength, ends, hashedLength>>,
         errors' \in BOOLEAN, unread' \in BOOLEAN,
         unread' \/ sub.read = sub.len
  PROVE  LengthInv'
<1>1. TypeOK' BY DEF LengthInv, TypeOK
<1>2. Extent' BY DEF LengthInv, Extent, InSet, InSub
<1>3. Subpacket' BY DEF Subpacket, InSub
<1>4. NextSubpacketAligned' BY Numbers DEF LengthInv, Subpacket, NextSubpacketAligned
<1> QED BY <1>1, <1>2, <1>3, <1>4 DEF LengthInv

LEMMA DeliveredKeeps == ASSUME LengthInv, Delivered PROVE LengthInv'
<1>1. /\ pc = "body" /\ todo = 0 /\ pc' = "next"
      /\ wanted = "parsed" => sub.read = sub.len
      /\ unread' = (unread \/ (wanted = "ignored" /\ sub.read # sub.len))
      /\ UNCHANGED <<hashed, packet, set, sub, type, wanted, todo, alength, ends, hashedLength>>
  BY DEF Delivered, current
<1>2. errors' \in BOOLEAN BY DEF Delivered, LengthInv, TypeOK
<1>3. wanted = "raw" => sub.read = sub.len BY <1>1, Numbers DEF LengthInv, Subpacket
<1>4. wanted \in {"raw", "parsed", "ignored"} /\ unread \in BOOLEAN
  BY DEF LengthInv, TypeOK, Wanted
<1>5. unread' \in BOOLEAN /\ (unread' \/ sub.read = sub.len) BY <1>1, <1>3, <1>4
<1> QED BY <1>1, <1>2, <1>5, GoesOn DEF InSub

LEMMA UnknownDeliveredKeeps == ASSUME LengthInv, UnknownDelivered PROVE LengthInv'
BY GoesOn DEF UnknownDelivered, InSub, current

LEMMA UnknownIgnoredKeeps == ASSUME LengthInv, UnknownIgnored PROVE LengthInv'
<1>1. /\ pc = "unknown" /\ pc' = "skip" /\ todo' = Unsigned(sub.len - 1)
      /\ UNCHANGED <<hashed, packet, set, sub, type, wanted, alength, ends, hashedLength, unread>>
  BY DEF UnknownIgnored, current
<1>2. errors' \in BOOLEAN /\ unread' \in BOOLEAN BY DEF UnknownIgnored, LengthInv, TypeOK
<1>3. sub.read = 1 /\ sub.read <= sub.len BY <1>1 DEF LengthInv, Subpacket, InSub
<1>4. todo' = sub.len - 1 BY <1>1, <1>3, Numbers DEF LengthInv, Unsigned
<1>5. TypeOK' BY <1>1, <1>2, <1>3, <1>4, Numbers, StandsStill DEF LengthInv, Places
<1>6. Extent' BY <1>1 DEF LengthInv, Extent, InSet, InSub
<1>7. Subpacket' /\ NextSubpacketAligned'
  BY <1>1, <1>3, <1>4, Numbers DEF LengthInv, Subpacket, NextSubpacketAligned, InSub
<1> QED BY <1>5, <1>6, <1>7 DEF LengthInv

LEMMA SkipSubKeeps == ASSUME LengthInv, SkipSub PROVE LengthInv'
<1>1. /\ pc = "skip" /\ InSub
      /\ UNCHANGED <<hashed, type, wanted, ends, hashedLength, errors, unread>>
  BY DEF SkipSub, current, InSub
<1>2. sub.read + todo = sub.len BY <1>1 DEF LengthInv, Subpacket
<1>3. CASE todo = 0 /\ pc' = "next" /\ UNCHANGED <<packet, set, sub, alength, todo>>
 <2>1. sub.read = sub.len /\ errors' \in BOOLEAN /\ unread' \in BOOLEAN
   BY <1>1, <1>2, <1>3, Numbers DEF LengthInv, TypeOK
 <2> QED BY <1>1, <1>3, <2>1, GoesOn
<1>4. CASE ReadSub(Portion(todo)) /\ todo' = todo - Portion(todo) /\ pc' = pc
 <2>1. Portion(todo) \in Nat /\ Portion(todo) <= todo BY Numbers DEF LengthInv, Portion
 <2>2. todo' \in 0 .. Word - 1 BY <1>4, <2>1, Numbers DEF LengthInv
 <2>3. TypeOK' BY <1>1, <1>4, <2>1, <2>2, ReadSubFacts DEF LengthInv, TypeOK
 <2>4. Extent' BY <1>1, <1>4, <2>1, ReadSubFacts DEF Extent, InSet, InSub
 <2>5. sub'.read + todo' = sub'.len
   BY <1>1, <1>2, <1>4, <2>1, ReadSubFacts, Numbers DEF LengthInv
 <2>6. Subpacket' /\ NextSubpacketAligned'
   BY <1>1, <1>4, <2>1, <2>5, ReadSubFacts DEF Subpacket, NextSubpacketAligned, InSub
 <2> QED BY <2>3, <2>4, <2>6 DEF LengthInv
<1> QED BY <1>3, <1>4 DEF SkipSub

LEMMA NextLengths == LengthInv /\ [Next]_vars => LengthInv'
<1> SUFFICES ASSUME LengthInv, [Next]_vars PROVE LengthInv' OBVIOUS
<1>1. CASE SetLength \/ SetEnds \/ SetMismatch \/ SkipSet
  BY <1>1, SetLengthKeeps, SetEndsKeeps, SetMismatchKeeps, SkipSetKeeps
<1>2. CASE SubLength \/ SubType \/ Body \/ limited_read_data
  BY <1>2, SubLengthKeeps, SubTypeKeeps, BodyKeeps, limited_read_dataKeeps
<1>3. CASE ReadFails \/ WrongClass \/ Unconsumed \/ SkipFails
  BY <1>3, Returns0Keeps DEF ReadFails, WrongClass, Unconsumed, SkipFails
<1>4. CASE Delivered \/ UnknownDelivered \/ UnknownIgnored \/ SkipSub
  BY <1>4, DeliveredKeeps, UnknownDeliveredKeeps, UnknownIgnoredKeeps, SkipSubKeeps
<1>5. CASE Ended \/ UNCHANGED vars
 <2>1. UNCHANGED vars BY <1>5 DEF Ended
 <2> QED BY <2>1 DEF vars, LengthInv, TypeOK, Extent, Subpacket, NextSubpacketAligned,
                     InSet, InSub
<1> QED BY <1>1, <1>2, <1>3, <1>4, <1>5 DEF Next

\* The three lengths hold together at every step.
THEOREM LengthsHold == Spec => []LengthInv
BY InitLengths, NextLengths, PTL DEF Spec

\* Types, and how far lengths that lie can lead: a set is overrun by less than its
\* own length, and the packet by the length of both its sets.
THEOREM SubpacketTypes == Spec => []TypeOK
<1>1. LengthInv => TypeOK BY DEF LengthInv
<1> QED BY <1>1, LengthsHold, PTL

\* What is hashed, where the next subpacket begins and where the numbers of the
\* signature do is as declared, whatever lengths the stream declares and however
\* large the buffer that skips is.
THEOREM SubpacketSetsExact == Spec => []SetsExact
<1>1. LengthInv => SetsExact
  BY Numbers DEF LengthInv, Extent, SetsExact, HashedPartExact, SetsTile
<1> QED BY <1>1, LengthsHold, PTL

HIDE SubpacketConstants

-----------------------------------------------------------------------------
(* FlattenSeq is defined by recursion.  What it does is shown with the least  *)
(* place where it would not, there being one in every set of numbers.         *)

LEMMA Smallest ==
  ASSUME NEW T, T \subseteq Nat, T # {} PROVE \E n \in T : \A m \in T : n <= m
<1>1. PICK n \in T : \A m \in T : ~ (<<m, n>> \in OpToRel(<, Nat))
  BY NatLessThanWellFounded, WFMin
<1>2. \A m \in T : ~ (m < n) BY <1>1 DEF OpToRel
<1> QED BY <1>2

\* What FlattenSeq has put together up to every place.
Joins(f, s, n) == \A i \in 1 .. n : f[i] = IF i = 1 THEN s[i] ELSE f[i - 1] \o s[i]

\* The parts are put together in one way only.
LEMMA JoinsAgree ==
  ASSUME NEW s, NEW t, NEW f, NEW g, NEW n \in Nat, Joins(f, s, n), Joins(g, t, n),
         \A i \in 1 .. n : s[i] = t[i]
  PROVE  \A i \in 1 .. n : f[i] = g[i]
<1> SUFFICES ASSUME NEW k \in 1 .. n, f[k] # g[k] PROVE FALSE OBVIOUS
<1> DEFINE Wrong == {i \in 1 .. n : f[i] # g[i]}
<1>1. PICK i \in Wrong : \A m \in Wrong : i <= m
 <2>1. Wrong \subseteq Nat /\ k \in Wrong OBVIOUS
 <2> QED BY <2>1, Smallest
<1>2. i \in 1 .. n /\ f[i] # g[i] OBVIOUS
<1>3. CASE i = 1 BY <1>2, <1>3 DEF Joins
<1>4. CASE i # 1
 <2>1. i - 1 \in 1 .. n BY <1>2, <1>4
 <2>2. f[i - 1] = g[i - 1]
  <3> SUFFICES ASSUME f[i - 1] # g[i - 1] PROVE FALSE OBVIOUS
  <3>1. i - 1 \in Wrong BY <2>1
  <3>2. i <= i - 1 BY <1>1, <3>1
  <3> QED BY <3>2, <1>2
 <2>3. f[i] = f[i - 1] \o s[i] /\ g[i] = g[i - 1] \o t[i] BY <1>2, <1>4 DEF Joins
 <2> QED BY <2>2, <2>3, <1>2
<1> QED BY <1>3, <1>4

LEMMA JoinsType ==
  ASSUME NEW S, NEW s \in Seq(Seq(S)), NEW f, NEW n \in 0 .. Len(s), Joins(f, s, n)
  PROVE  \A i \in 1 .. n : f[i] \in Seq(S)
<1> SUFFICES ASSUME NEW k \in 1 .. n, f[k] \notin Seq(S) PROVE FALSE OBVIOUS
<1> DEFINE Wrong == {i \in 1 .. n : f[i] \notin Seq(S)}
<1>1. PICK i \in Wrong : \A m \in Wrong : i <= m
 <2>1. Wrong \subseteq Nat /\ k \in Wrong OBVIOUS
 <2> QED BY <2>1, Smallest
<1>2. i \in 1 .. n /\ f[i] \notin Seq(S) /\ s[i] \in Seq(S)
 <2>1. i \in 1 .. n /\ f[i] \notin Seq(S) OBVIOUS
 <2>2. n <= Len(s) /\ Len(s) \in Nat OBVIOUS
 <2> QED BY <2>1, <2>2
<1>3. CASE i = 1 BY <1>2, <1>3 DEF Joins
<1>4. CASE i # 1
 <2>1. i - 1 \in 1 .. n BY <1>2, <1>4
 <2>2. f[i - 1] \in Seq(S)
  <3> SUFFICES ASSUME f[i - 1] \notin Seq(S) PROVE FALSE OBVIOUS
  <3>1. i - 1 \in Wrong BY <2>1
  <3>2. i <= i - 1 BY <1>1, <3>1
  <3> QED BY <3>2, <1>2
 <2>3. f[i] = f[i - 1] \o s[i] BY <1>2, <1>4 DEF Joins
 <2>4. f[i - 1] \o s[i] \in Seq(S) BY <2>2, <1>2
 <2> QED BY <2>3, <2>4, <1>2
<1> QED BY <1>3, <1>4

LEMMA JoinsExists ==
  ASSUME NEW S, NEW s \in Seq(Seq(S)), NEW n \in 1 .. Len(s)
  PROVE  \E f \in [1 .. n -> Seq(S)] : Joins(f, s, n)
<1> DEFINE Wrong == {k \in 1 .. Len(s) : ~ \E f \in [1 .. k -> Seq(S)] : Joins(f, s, k)}
<1> SUFFICES ASSUME n \in Wrong PROVE FALSE OBVIOUS
<1>1. PICK k \in Wrong : \A m \in Wrong : k <= m
 <2>1. Wrong \subseteq Nat OBVIOUS
 <2> QED BY <2>1, Smallest
<1>2. k \in 1 .. Len(s) /\ s[k] \in Seq(S) /\ k \in Nat
 <2>1. k \in 1 .. Len(s) /\ Len(s) \in Nat OBVIOUS
 <2> QED BY <2>1
<1>3. CASE k = 1
 <2> DEFINE g == [i \in 1 .. k |-> s[i]]
 <2>1. g \in [1 .. k -> Seq(S)] BY <1>2, <1>3
 <2>2. Joins(g, s, k) BY <1>3 DEF Joins
 <2> QED BY <2>1, <2>2
<1>4. CASE k # 1
 <2>1. k - 1 \in 1 .. Len(s) /\ k - 1 \notin Wrong
  <3>1. k - 1 \in 1 .. Len(s) BY <1>2, <1>4
  <3>2. ASSUME k - 1 \in Wrong PROVE FALSE
   <4>1. k <= k - 1 BY <1>1, <3>2
   <4> QED BY <4>1, <1>2
  <3> QED BY <3>1, <3>2
 <2>2. PICK f \in [1 .. k - 1 -> Seq(S)] : Joins(f, s, k - 1) BY <2>1
 <2> DEFINE g == [i \in 1 .. k |-> IF i = k THEN f[k - 1] \o s[k] ELSE f[i]]
 <2>3. f[k - 1] \in Seq(S) BY <2>1, <2>2, <1>2
 <2>4. f[k - 1] \o s[k] \in Seq(S) BY <2>3, <1>2
 <2>5. g \in [1 .. k -> Seq(S)]
  <3> SUFFICES ASSUME NEW i \in 1 .. k PROVE g[i] \in Seq(S) OBVIOUS
  <3>1. CASE i = k BY <3>1, <2>4
  <3>2. CASE i # k
   <4>1. i \in 1 .. k - 1 BY <3>2, <1>2
   <4> QED BY <3>2, <4>1, <2>2
  <3> QED BY <3>1, <3>2
 <2>6. Joins(g, s, k)
  <3> SUFFICES ASSUME NEW i \in 1 .. k
               PROVE  g[i] = IF i = 1 THEN s[i] ELSE g[i - 1] \o s[i]
    BY DEF Joins
  <3>1. CASE i = k
   <4>1. k - 1 \in 1 .. k /\ k - 1 # k /\ k \in 1 .. k BY <2>1, <1>2
   <4>2. g[k - 1] = f[k - 1] /\ g[k] = f[k - 1] \o s[k] BY <4>1
   <4> QED BY <3>1, <4>2, <1>4
  <3>2. CASE i # k
   <4>1. i \in 1 .. k - 1 /\ (i # 1 => i - 1 \in 1 .. k /\ i - 1 # k) BY <3>2, <1>2
   <4>2. g[i] = f[i] /\ (i # 1 => g[i - 1] = f[i - 1]) BY <3>2, <4>1
   <4>3. f[i] = IF i = 1 THEN s[i] ELSE f[i - 1] \o s[i] BY <4>1, <2>2 DEF Joins
   <4> QED BY <4>2, <4>3
  <3> QED BY <3>1, <3>2
 <2> QED BY <2>5, <2>6
<1> QED BY <1>3, <1>4

LEMMA FlattenIsJoin ==
  ASSUME NEW S, NEW s \in Seq(Seq(S)), Len(s) # 0
  PROVE  \E f : Joins(f, s, Len(s)) /\ FlattenSeq(s) = f[Len(s)]
<1> DEFINE P(f) == f = [i \in 1 .. Len(s) |-> IF i = 1 THEN s[i] ELSE f[i - 1] \o s[i]]
<1>1. Len(s) \in 1 .. Len(s) /\ Len(s) \in Nat OBVIOUS
<1>2. PICK g \in [1 .. Len(s) -> Seq(S)] : Joins(g, s, Len(s)) BY <1>1, JoinsExists
<1>3. g = [i \in 1 .. Len(s) |-> g[i]] OBVIOUS
<1>4. P(g)
 <2> DEFINE h == [i \in 1 .. Len(s) |-> IF i = 1 THEN s[i] ELSE g[i - 1] \o s[i]]
 <2>1. \A i \in 1 .. Len(s) : g[i] = h[i] BY <1>2 DEF Joins
 <2>2. h = [i \in 1 .. Len(s) |-> h[i]] OBVIOUS
 <2>3. g = h BY <2>1, <2>2, <1>3
 <2> QED BY <2>3
<1> DEFINE f == CHOOSE x : P(x)
<1>5. P(f) BY <1>4
<1>6. Joins(f, s, Len(s)) BY <1>5 DEF Joins
<1>7. FlattenSeq(s) = f[Len(s)] BY <1>1 DEF FlattenSeq
<1> QED BY <1>6, <1>7

\* FlattenSeq puts one part after the other.
LEMMA FlattenType ==
  ASSUME NEW S, NEW s \in Seq(Seq(S)) PROVE FlattenSeq(s) \in Seq(S)
<1>1. CASE Len(s) = 0
 <2>1. s = <<>> BY <1>1
 <2>2. <<>> \in Seq(S) OBVIOUS
 <2> QED BY <1>1, <2>1, <2>2 DEF FlattenSeq
<1>2. CASE Len(s) # 0
 <2>1. PICK f : Joins(f, s, Len(s)) /\ FlattenSeq(s) = f[Len(s)] BY <1>2, FlattenIsJoin
 <2>2. Len(s) \in 1 .. Len(s) /\ Len(s) \in 0 .. Len(s) BY <1>2
 <2> QED BY <2>1, <2>2, JoinsType
<1> QED BY <1>1, <1>2

LEMMA FlattenEmpty == FlattenSeq(<<>>) = <<>>
BY DEF FlattenSeq

LEMMA FlattenAppend ==
  ASSUME NEW S, NEW s \in Seq(Seq(S)), NEW x \in Seq(S)
  PROVE  FlattenSeq(Append(s, x)) = FlattenSeq(s) \o x
<1> DEFINE t == Append(s, x)
           n == Len(s)
<1>1. /\ t \in Seq(Seq(S)) /\ Len(t) = n + 1 /\ n \in Nat
      /\ \A i \in 1 .. n : t[i] = s[i]
      /\ t[n + 1] = x
 <2>1. t \in Seq(Seq(S)) /\ Len(t) = n + 1 /\ n \in Nat OBVIOUS
 <2>2. t[n + 1] = x OBVIOUS
 <2>3. \A i \in 1 .. n : t[i] = s[i] OBVIOUS
 <2> QED BY <2>1, <2>2, <2>3
<1> HIDE DEF t
<1>2. PICK g : Joins(g, t, n + 1) /\ FlattenSeq(t) = g[n + 1] BY <1>1, FlattenIsJoin
<1>3. CASE n = 0
 <2>1. s = <<>> /\ FlattenSeq(s) = <<>> BY <1>3, FlattenEmpty
 <2>2. g[1] = x BY <1>1, <1>2, <1>3 DEF Joins
 <2> QED BY <1>2, <1>3, <2>1, <2>2 DEF t
<1>4. CASE n # 0
 <2>1. PICK f : Joins(f, s, n) /\ FlattenSeq(s) = f[n] BY <1>4, FlattenIsJoin
 <2>2. Joins(g, t, n) BY <1>1, <1>2 DEF Joins
 <2>3. \A i \in 1 .. n : f[i] = g[i]
  <3>1. n \in Nat /\ Joins(f, s, n) /\ \A i \in 1 .. n : s[i] = t[i] BY <1>1, <2>1
  <3> HIDE DEF n
  <3> QED BY <3>1, <2>2, JoinsAgree
 <2>4. n + 1 \in 1 .. n + 1 /\ n + 1 # 1 /\ n \in 1 .. n /\ (n + 1) - 1 = n BY <1>1, <1>4
 <2>5. g[n + 1] = g[n] \o x BY <2>4, <1>1, <1>2 DEF Joins
 <2>6. FlattenSeq(t) = FlattenSeq(s) \o x BY <2>1, <2>3, <2>4, <2>5, <1>2
 <2> QED BY <2>6 DEF t
<1> QED BY <1>3, <1>4

\* The same, by its name in Clearsign.
LEMMA FlattenThere ==
  ASSUME NEW s PROVE C!FlattenSeq(s) = FlattenSeq(s)
BY DEF C!FlattenSeq, FlattenSeq

-----------------------------------------------------------------------------
(* The texts of Clearsign, character after character. *)

Char == C!W!Char

LEMMA Associates ==
  ASSUME NEW s \in Seq(Char), NEW t \in Seq(Char), NEW u \in Seq(Char)
  PROVE  (s \o t) \o u = s \o (t \o u)
BY ConcatAssociative

LEMMA PartsAppend ==
  ASSUME NEW T, NEW F \in Seq(T), NEW x \in T, NEW n, n = Len(F), NEW G,
         G = [i \in 1 .. n + 1 |-> IF i = n + 1 THEN x ELSE F[i]]
  PROVE  G = Append(F, x)
<1>1. n \in Nat OBVIOUS
<1>2. G \in [1 .. n + 1 -> T] BY <1>1
<1>3. G \in Seq(T) /\ Len(G) = n + 1 BY <1>1, <1>2
<1>4. /\ Append(F, x) \in Seq(T) /\ Len(Append(F, x)) = n + 1
      /\ \A i \in 1 .. n : Append(F, x)[i] = F[i]
      /\ Append(F, x)[n + 1] = x
  OBVIOUS
<1>5. \A i \in 1 .. n + 1 : G[i] = Append(F, x)[i] BY <1>1, <1>4
<1> QED BY <1>3, <1>4, <1>5, SeqEqual

LEMMA WithoutParts ==
  ASSUME NEW S, NEW s \in Seq(S), NEW E
  PROVE  [i \in 1 .. Len(s) |-> IF i \in E \/ s[i] = "cr" THEN <<>> ELSE <<s[i]>>] \in Seq(Seq(S))
<1> DEFINE F == [i \in 1 .. Len(s) |-> IF i \in E \/ s[i] = "cr" THEN <<>> ELSE <<s[i]>>]
<1>1. Len(s) \in Nat /\ \A i \in 1 .. Len(s) : s[i] \in S OBVIOUS
<1>2. \A i \in 1 .. Len(s) : <<s[i]>> \in Seq(S) /\ <<>> \in Seq(S) BY <1>1
<1>3. F \in [1 .. Len(s) -> Seq(S)] BY <1>2
<1> QED BY <1>1, <1>3

LEMMA WithoutType ==
  ASSUME NEW S, NEW s \in Seq(S), NEW E PROVE C!Without(s, E) \in Seq(S)
BY WithoutParts, FlattenType, FlattenThere DEF C!Without

LEMMA WithoutEmpty ==
  ASSUME NEW E PROVE C!Without(<<>>, E) = <<>>
<1> DEFINE F == [i \in 1 .. Len(<<>>) |-> IF i \in E \/ <<>>[i] = "cr" THEN <<>> ELSE <<(<<>>)[i]>>]
<1>1. F \in [1 .. 0 -> {}] /\ Len(<<>>) = 0 OBVIOUS
<1>2. F = <<>> BY <1>1
<1> QED BY <1>2, FlattenEmpty, FlattenThere DEF C!Without

\* A character more, and a part more.
LEMMA WithoutAppend ==
  ASSUME NEW S, NEW s \in Seq(S), NEW c \in S, NEW E
  PROVE  C!Without(Append(s, c), E) =
           C!Without(s, E) \o (IF Len(s) + 1 \in E \/ c = "cr" THEN <<>> ELSE <<c>>)
<1> DEFINE t == Append(s, c)
           part(u, i) == IF i \in E \/ u[i] = "cr" THEN <<>> ELSE <<u[i]>>
           F == [i \in 1 .. Len(s) |-> part(s, i)]
           G == [i \in 1 .. Len(t) |-> part(t, i)]
           x == IF Len(s) + 1 \in E \/ c = "cr" THEN <<>> ELSE <<c>>
<1>1. /\ Len(s) \in Nat /\ Len(t) = Len(s) + 1 /\ t[Len(s) + 1] = c
      /\ \A i \in 1 .. Len(s) : t[i] = s[i] /\ s[i] \in S
  OBVIOUS
<1>2. x \in Seq(S) OBVIOUS
<1>3. G = [i \in 1 .. Len(s) + 1 |-> IF i = Len(s) + 1 THEN x ELSE F[i]]
 <2>1. \A i \in 1 .. Len(s) + 1 : part(t, i) = IF i = Len(s) + 1 THEN x ELSE F[i]
  <3> SUFFICES ASSUME NEW i \in 1 .. Len(s) + 1
               PROVE  part(t, i) = IF i = Len(s) + 1 THEN x ELSE F[i]
    OBVIOUS
  <3>1. CASE i = Len(s) + 1 BY <3>1, <1>1
  <3>2. CASE i # Len(s) + 1
   <4>1. i \in 1 .. Len(s) BY <3>2, <1>1
   <4> QED BY <3>2, <4>1, <1>1
  <3> QED BY <3>1, <3>2
 <2> QED BY <2>1, <1>1
<1>4. F \in Seq(Seq(S)) BY WithoutParts
<1>5. Len(F) = Len(s) BY <1>1
<1>7. C!Without(t, E) = FlattenSeq(G) /\ C!Without(s, E) = FlattenSeq(F)
  BY FlattenThere DEF C!Without
<1> HIDE DEF F, G, x, t
<1>8. G = Append(F, x) BY <1>2, <1>3, <1>4, <1>5, PartsAppend
<1>9. FlattenSeq(G) = FlattenSeq(F) \o x BY <1>8, <1>4, <1>2, FlattenAppend
<1> QED BY <1>7, <1>9 DEF t, x

\* What is behind the text does not matter.
LEMMA WithoutSame ==
  ASSUME NEW S, NEW s \in Seq(S), NEW E, NEW F,
         \A i \in 1 .. Len(s) : i \in E <=> i \in F
  PROVE  C!Without(s, E) = C!Without(s, F)
BY DEF C!Without

LEMMA LineEndParts ==
  ASSUME NEW s \in Seq(Char)
  PROVE  [i \in 1 .. Len(s) |-> IF s[i] = "nl" THEN <<"cr", "nl">> ELSE <<s[i]>>] \in Seq(Seq(Char))
<1> DEFINE F == [i \in 1 .. Len(s) |-> IF s[i] = "nl" THEN <<"cr", "nl">> ELSE <<s[i]>>]
<1>1. Len(s) \in Nat /\ \A i \in 1 .. Len(s) : s[i] \in Char OBVIOUS
<1>2. "cr" \in Char /\ "nl" \in Char BY DEF Char, C!W!Char
<1>3. <<"cr", "nl">> \in Seq(Char) /\ \A i \in 1 .. Len(s) : <<s[i]>> \in Seq(Char) BY <1>1, <1>2
<1>4. F \in [1 .. Len(s) -> Seq(Char)] BY <1>3
<1> QED BY <1>1, <1>4

LEMMA LineEndType ==
  ASSUME NEW s \in Seq(Char) PROVE C!CRLF(s) \in Seq(Char)
BY LineEndParts, FlattenType, FlattenThere DEF C!CRLF

LEMMA LineEndEmpty == C!CRLF(<<>>) = <<>>
<1> DEFINE F == [i \in 1 .. Len(<<>>) |-> IF (<<>>)[i] = "nl" THEN <<"cr", "nl">> ELSE <<(<<>>)[i]>>]
<1>1. F \in [1 .. 0 -> {}] /\ Len(<<>>) = 0 OBVIOUS
<1>2. F = <<>> BY <1>1
<1> QED BY <1>2, FlattenEmpty, FlattenThere DEF C!CRLF

LEMMA LineEndAppend ==
  ASSUME NEW s \in Seq(Char), NEW c \in Char
  PROVE  C!CRLF(Append(s, c)) = C!CRLF(s) \o (IF c = "nl" THEN <<"cr", "nl">> ELSE <<c>>)
<1> DEFINE t == Append(s, c)
           part(u, i) == IF u[i] = "nl" THEN <<"cr", "nl">> ELSE <<u[i]>>
           F == [i \in 1 .. Len(s) |-> part(s, i)]
           G == [i \in 1 .. Len(t) |-> part(t, i)]
           x == IF c = "nl" THEN <<"cr", "nl">> ELSE <<c>>
<1>1. /\ Len(s) \in Nat /\ Len(t) = Len(s) + 1 /\ t[Len(s) + 1] = c
      /\ \A i \in 1 .. Len(s) : t[i] = s[i] /\ s[i] \in Char
  OBVIOUS
<1>2. x \in Seq(Char)
 <2>1. "cr" \in Char /\ "nl" \in Char BY DEF Char, C!W!Char
 <2> QED BY <2>1
<1>3. G = [i \in 1 .. Len(s) + 1 |-> IF i = Len(s) + 1 THEN x ELSE F[i]]
 <2>1. \A i \in 1 .. Len(s) + 1 : part(t, i) = IF i = Len(s) + 1 THEN x ELSE F[i]
  <3> SUFFICES ASSUME NEW i \in 1 .. Len(s) + 1
               PROVE  part(t, i) = IF i = Len(s) + 1 THEN x ELSE F[i]
    OBVIOUS
  <3>1. CASE i = Len(s) + 1 BY <3>1, <1>1
  <3>2. CASE i # Len(s) + 1
   <4>1. i \in 1 .. Len(s) BY <3>2, <1>1
   <4> QED BY <3>2, <4>1, <1>1
  <3> QED BY <3>1, <3>2
 <2> QED BY <2>1, <1>1
<1>4. F \in Seq(Seq(Char)) BY LineEndParts
<1>5. Len(F) = Len(s) BY <1>1
<1>7. C!CRLF(t) = FlattenSeq(G) /\ C!CRLF(s) = FlattenSeq(F) BY FlattenThere DEF C!CRLF
<1> HIDE DEF F, G, x, t
<1>8. G = Append(F, x) BY <1>2, <1>3, <1>4, <1>5, PartsAppend
<1>9. FlattenSeq(G) = FlattenSeq(F) \o x BY <1>8, <1>4, <1>2, FlattenAppend
<1> QED BY <1>7, <1>9 DEF t, x

LEMMA LineEndOneMore ==
  ASSUME NEW s \in Seq(Char), NEW a \in Seq(Char), NEW c \in Char,
         C!CRLF(s \o a) = C!CRLF(s) \o C!CRLF(a)
  PROVE  C!CRLF(s \o Append(a, c)) = C!CRLF(s) \o C!CRLF(Append(a, c))
<1>1. s \o Append(a, c) = Append(s \o a, c) /\ s \o a \in Seq(Char) OBVIOUS
<1> DEFINE x == IF c = "nl" THEN <<"cr", "nl">> ELSE <<c>>
<1>2. x \in Seq(Char)
 <2>1. "cr" \in Char /\ "nl" \in Char BY DEF Char, C!W!Char
 <2> QED BY <2>1
<1> HIDE DEF x
<1>3. C!CRLF(Append(s \o a, c)) = C!CRLF(s \o a) \o x BY <1>1, LineEndAppend DEF x
<1>4. C!CRLF(Append(a, c)) = C!CRLF(a) \o x BY LineEndAppend DEF x
<1>5. C!CRLF(s) \in Seq(Char) /\ C!CRLF(a) \in Seq(Char) BY LineEndType
<1>6. (C!CRLF(s) \o C!CRLF(a)) \o x = C!CRLF(s) \o (C!CRLF(a) \o x)
 <2> DEFINE f == C!CRLF(s)
            g == C!CRLF(a)
 <2>1. f \in Seq(Char) /\ g \in Seq(Char) /\ x \in Seq(Char) BY <1>2, <1>5
 <2> HIDE DEF f, g
 <2>2. (f \o g) \o x = f \o (g \o x) BY <2>1, Associates, SMTT(30)
 <2> QED BY <2>2 DEF f, g
<1> QED BY <1>1, <1>3, <1>4, <1>6

\* Line by line or all at once.
LEMMA LineEndConcat ==
  ASSUME NEW s \in Seq(Char), NEW t \in Seq(Char)
  PROVE  C!CRLF(s \o t) = C!CRLF(s) \o C!CRLF(t)
<1> DEFINE upto(n) == SubSeq(t, 1, n)
           Wrong == {n \in 0 .. Len(t) : C!CRLF(s \o upto(n)) # C!CRLF(s) \o C!CRLF(upto(n))}
<1>1. upto(Len(t)) = t /\ Len(t) \in Nat OBVIOUS
<1> SUFFICES ASSUME Wrong # {} PROVE FALSE
 <2>1. Len(t) \in 0 .. Len(t) /\ Len(t) \notin Wrong BY <1>1
 <2> QED BY <1>1, <2>1
<1>2. PICK n \in Wrong : \A m \in Wrong : n <= m
 <2>1. Wrong \subseteq Nat OBVIOUS
 <2> QED BY <2>1, Smallest
<1>3. n \in 0 .. Len(t) /\ C!CRLF(s \o upto(n)) # C!CRLF(s) \o C!CRLF(upto(n)) OBVIOUS
<1>4. CASE n = 0
 <2>1. upto(0) = <<>> OBVIOUS
 <2>2. s \o <<>> = s /\ C!CRLF(s) \o <<>> = C!CRLF(s) BY LineEndType
 <2> QED BY <1>3, <1>4, <2>1, <2>2, LineEndEmpty
<1>5. CASE n # 0
 <2>1. n - 1 \in 0 .. Len(t) /\ n \in 1 .. Len(t) /\ t[n] \in Char BY <1>3, <1>5
 <2>2. C!CRLF(s \o upto(n - 1)) = C!CRLF(s) \o C!CRLF(upto(n - 1))
  <3>1. ASSUME n - 1 \in Wrong PROVE FALSE
   <4>1. n <= n - 1 BY <1>2, <3>1
   <4> QED BY <4>1, <1>3
  <3> QED BY <2>1, <3>1
 <2>3. upto(n - 1) \in Seq(Char) /\ upto(n) = Append(upto(n - 1), t[n]) BY <2>1
 <2> HIDE DEF upto
 <2>4. C!CRLF(s \o Append(upto(n - 1), t[n])) = C!CRLF(s) \o C!CRLF(Append(upto(n - 1), t[n]))
   BY <2>1, <2>2, <2>3, LineEndOneMore
 <2> QED BY <2>3, <2>4, <1>3
<1> QED BY <1>4, <1>5

-----------------------------------------------------------------------------
(* Which blanks end a line is known only when the next character comes.  What *)
(* the signature leaves out of a text, if it went on, is LineBlanks.          *)

LineBlanks(s) ==
  {i \in 1 .. Len(s) : \E j \in i .. Len(s) - 1 :
     /\ \A k \in i .. j : s[k] = "blank"
     /\ s[j + 1] \in {"cr", "nl"}}

Pending(s) == C!CRLF(C!Without(s, LineBlanks(s)))

LEMMA BlanksAppendBlank ==
  ASSUME NEW s \in Seq(Char), NEW c \in {"blank"}, NEW t, t = Append(s, c)
  PROVE  /\ \A i \in 1 .. Len(s) : i \in C!EndBlanks(t) <=> i \in C!EndBlanks(s)
         /\ Len(s) + 1 \in C!EndBlanks(t)
         /\ \A i \in 1 .. Len(s) : i \in LineBlanks(t) <=> i \in LineBlanks(s)
         /\ Len(s) + 1 \notin LineBlanks(t)
<1> DEFINE n == Len(s)
<1>1. n \in Nat /\ Len(t) = n + 1 /\ t[n + 1] = "blank" /\ \A i \in 1 .. n : t[i] = s[i]
 <2>1. c = "blank" /\ c \in Char BY DEF Char, C!W!Char
 <2> QED BY <2>1
<1> HIDE DEF n
<1>2. ASSUME NEW i \in 1 .. n, i \in C!EndBlanks(s) PROVE i \in C!EndBlanks(t)
 <2>1. PICK j \in i .. n : /\ \A k \in i .. j : s[k] = "blank"
                           /\ j = n \/ s[j + 1] \in {"cr", "nl"}
   BY <1>2 DEF C!EndBlanks, n
 <2>2. CASE j = n
  <3>1. n + 1 \in i .. n + 1 /\ \A k \in i .. n + 1 : t[k] = "blank" BY <2>1, <2>2, <1>1
  <3>2. i \in 1 .. Len(t) /\ Len(t) \in i .. Len(t) BY <3>1, <1>1
  <3>3. \A k \in i .. Len(t) : t[k] = "blank" BY <3>1, <1>1
  <3> QED BY <3>2, <3>3 DEF C!EndBlanks
 <2>3. CASE j # n
  <3>1. j + 1 \in 1 .. n /\ j \in i .. n + 1 BY <2>3, <1>1
  <3>2. (\A k \in i .. j : t[k] = "blank") /\ t[j + 1] \in {"cr", "nl"}
    BY <2>1, <2>3, <3>1, <1>1
  <3>3. i \in 1 .. Len(t) /\ \E m \in i .. Len(t) :
          /\ \A k \in i .. m : t[k] = "blank"
          /\ m = Len(t) \/ t[m + 1] \in {"cr", "nl"}
    BY <3>1, <3>2, <1>1
  <3> QED BY <3>3 DEF C!EndBlanks
 <2> QED BY <2>2, <2>3
<1>3. ASSUME NEW i \in 1 .. n, i \in C!EndBlanks(t) PROVE i \in C!EndBlanks(s)
 <2>1. PICK j \in i .. n + 1 : /\ \A k \in i .. j : t[k] = "blank"
                               /\ j = n + 1 \/ t[j + 1] \in {"cr", "nl"}
   BY <1>3, <1>1 DEF C!EndBlanks
 <2>2. CASE j \in {n, n + 1}
  <3>1. n \in i .. n /\ \A k \in i .. n : s[k] = "blank" BY <2>1, <2>2, <1>1
  <3> QED BY <3>1 DEF C!EndBlanks, n
 <2>3. CASE j \notin {n, n + 1}
  <3>1. j + 1 \in 1 .. n /\ j \in i .. n BY <2>3, <1>1
  <3>2. (\A k \in i .. j : s[k] = "blank") /\ s[j + 1] \in {"cr", "nl"}
   <4>1. t[j + 1] \in {"cr", "nl"} BY <2>1, <2>3
   <4>2. \A k \in i .. j : k \in 1 .. n BY <3>1, <1>1
   <4> QED BY <2>1, <3>1, <4>1, <4>2, <1>1
  <3> QED BY <3>1, <3>2 DEF C!EndBlanks, n
 <2> QED BY <2>2, <2>3
<1>4. n + 1 \in C!EndBlanks(t) BY <1>1 DEF C!EndBlanks
<1>5. ASSUME NEW i \in 1 .. n, i \in LineBlanks(s) PROVE i \in LineBlanks(t)
 <2>1. PICK j \in i .. n - 1 : /\ \A k \in i .. j : s[k] = "blank"
                               /\ s[j + 1] \in {"cr", "nl"}
   BY <1>5 DEF LineBlanks, n
 <2>2. j + 1 \in 1 .. n /\ j \in i .. (n + 1) - 1 /\ \A k \in i .. j : k \in 1 .. n BY <2>1, <1>1
 <2>3. (\A k \in i .. j : t[k] = "blank") /\ t[j + 1] \in {"cr", "nl"} BY <2>1, <2>2, <1>1
 <2>4. i \in 1 .. Len(t) /\ \E m \in i .. Len(t) - 1 :
         /\ \A k \in i .. m : t[k] = "blank"
         /\ t[m + 1] \in {"cr", "nl"}
   BY <2>2, <2>3, <1>1
 <2> QED BY <2>4 DEF LineBlanks
<1>6. ASSUME NEW i \in 1 .. n, i \in LineBlanks(t) PROVE i \in LineBlanks(s)
 <2>1. PICK j \in i .. (n + 1) - 1 : /\ \A k \in i .. j : t[k] = "blank"
                                     /\ t[j + 1] \in {"cr", "nl"}
   BY <1>6, <1>1 DEF LineBlanks
 <2>2. j # n BY <2>1, <1>1
 <2>3. j \in i .. n - 1 /\ j + 1 \in 1 .. n /\ \A k \in i .. j : k \in 1 .. n BY <2>1, <2>2, <1>1
 <2>4. (\A k \in i .. j : s[k] = "blank") /\ s[j + 1] \in {"cr", "nl"} BY <2>1, <2>3, <1>1
 <2> QED BY <2>3, <2>4 DEF LineBlanks, n
<1>7. n + 1 \notin LineBlanks(t) BY <1>1 DEF LineBlanks
<1> QED BY <1>2, <1>3, <1>4, <1>5, <1>6, <1>7 DEF n

LEMMA BlanksAppendEnd ==
  ASSUME NEW s \in Seq(Char), NEW c \in {"cr", "nl"}, NEW t, t = Append(s, c)
  PROVE  /\ \A i \in 1 .. Len(s) : i \in C!EndBlanks(t) <=> i \in C!EndBlanks(s)
         /\ \A i \in 1 .. Len(s) : i \in LineBlanks(t) <=> i \in C!EndBlanks(s)
         /\ Len(s) + 1 \notin C!EndBlanks(t) \cup LineBlanks(t)
<1> DEFINE n == Len(s)
<1>1. /\ n \in Nat /\ Len(t) = n + 1 /\ t[n + 1] = c /\ \A i \in 1 .. n : t[i] = s[i]
      /\ c # "blank"
 <2>1. c \in Char BY DEF Char, C!W!Char
 <2> QED BY <2>1
<1> HIDE DEF n
<1>2. ASSUME NEW i \in 1 .. n, i \in C!EndBlanks(s) PROVE i \in LineBlanks(t)
 <2>1. PICK j \in i .. n : /\ \A k \in i .. j : s[k] = "blank"
                           /\ j = n \/ s[j + 1] \in {"cr", "nl"}
   BY <1>2 DEF C!EndBlanks, n
 <2>2. j \in i .. (n + 1) - 1 /\ (\A k \in i .. j : k \in 1 .. n) /\ (j # n => j + 1 \in 1 .. n)
   BY <2>1, <1>1
 <2>3. (\A k \in i .. j : t[k] = "blank") /\ t[j + 1] \in {"cr", "nl"} BY <2>1, <2>2, <1>1
 <2>4. i \in 1 .. Len(t) /\ \E m \in i .. Len(t) - 1 :
         /\ \A k \in i .. m : t[k] = "blank"
         /\ t[m + 1] \in {"cr", "nl"}
   BY <2>2, <2>3, <1>1
 <2> QED BY <2>4 DEF LineBlanks
<1>3. ASSUME NEW i \in 1 .. n + 1, i \in LineBlanks(t) PROVE i \in C!EndBlanks(t)
 <2>1. PICK j \in i .. (n + 1) - 1 : /\ \A k \in i .. j : t[k] = "blank"
                                     /\ t[j + 1] \in {"cr", "nl"}
   BY <1>3, <1>1 DEF LineBlanks
 <2>2. j \in i .. n + 1 BY <2>1, <1>1
 <2> QED BY <2>1, <2>2, <1>1 DEF C!EndBlanks
<1>4. ASSUME NEW i \in 1 .. n, i \in C!EndBlanks(t) PROVE i \in C!EndBlanks(s)
 <2>1. PICK j \in i .. n + 1 : /\ \A k \in i .. j : t[k] = "blank"
                               /\ j = n + 1 \/ t[j + 1] \in {"cr", "nl"}
   BY <1>4, <1>1 DEF C!EndBlanks
 <2>2. j # n + 1 BY <2>1, <1>1
 <2>3. j \in i .. n /\ (\A k \in i .. j : k \in 1 .. n) /\ (j # n => j + 1 \in 1 .. n)
   BY <2>1, <2>2, <1>1
 <2>4. (\A k \in i .. j : s[k] = "blank") /\ (j = n \/ s[j + 1] \in {"cr", "nl"})
   BY <2>1, <2>2, <2>3, <1>1
 <2> QED BY <2>3, <2>4 DEF C!EndBlanks, n
<1>5. n + 1 \notin C!EndBlanks(t) BY <1>1 DEF C!EndBlanks
<1>6. n + 1 \notin LineBlanks(t) BY <1>1 DEF LineBlanks
<1>7. \A i \in 1 .. n : i \in 1 .. n + 1 BY <1>1
<1> QED BY <1>2, <1>3, <1>4, <1>5, <1>6, <1>7 DEF n

LEMMA BlanksAppendOther ==
  ASSUME NEW s \in Seq(Char), NEW c \in {"-", "x"}, NEW t, t = Append(s, c)
  PROVE  /\ \A i \in 1 .. Len(s) : i \in C!EndBlanks(t) <=> i \in LineBlanks(s)
         /\ \A i \in 1 .. Len(s) : i \in LineBlanks(t) <=> i \in LineBlanks(s)
         /\ Len(s) + 1 \notin C!EndBlanks(t) \cup LineBlanks(t)
<1> DEFINE n == Len(s)
<1>1. /\ n \in Nat /\ Len(t) = n + 1 /\ t[n + 1] = c /\ \A i \in 1 .. n : t[i] = s[i]
      /\ c \notin {"blank", "cr", "nl"}
 <2>1. c \in Char BY DEF Char, C!W!Char
 <2> QED BY <2>1
<1> HIDE DEF n
<1>2. ASSUME NEW i \in 1 .. n, i \in LineBlanks(s) PROVE i \in LineBlanks(t)
 <2>1. PICK j \in i .. n - 1 : /\ \A k \in i .. j : s[k] = "blank"
                               /\ s[j + 1] \in {"cr", "nl"}
   BY <1>2 DEF LineBlanks, n
 <2>2. j + 1 \in 1 .. n /\ j \in i .. (n + 1) - 1 /\ \A k \in i .. j : k \in 1 .. n BY <2>1, <1>1
 <2>3. (\A k \in i .. j : t[k] = "blank") /\ t[j + 1] \in {"cr", "nl"} BY <2>1, <2>2, <1>1
 <2>4. i \in 1 .. Len(t) /\ \E m \in i .. Len(t) - 1 :
         /\ \A k \in i .. m : t[k] = "blank"
         /\ t[m + 1] \in {"cr", "nl"}
   BY <2>2, <2>3, <1>1
 <2> QED BY <2>4 DEF LineBlanks
<1>3. ASSUME NEW i \in 1 .. n + 1, i \in LineBlanks(t) PROVE i \in C!EndBlanks(t)
 <2>1. PICK j \in i .. (n + 1) - 1 : /\ \A k \in i .. j : t[k] = "blank"
                                     /\ t[j + 1] \in {"cr", "nl"}
   BY <1>3, <1>1 DEF LineBlanks
 <2>2. j \in i .. n + 1 BY <2>1, <1>1
 <2> QED BY <2>1, <2>2, <1>1 DEF C!EndBlanks
<1>4. ASSUME NEW i \in 1 .. n, i \in C!EndBlanks(t) PROVE i \in LineBlanks(s)
 <2>1. PICK j \in i .. n + 1 : /\ \A k \in i .. j : t[k] = "blank"
                               /\ j = n + 1 \/ t[j + 1] \in {"cr", "nl"}
   BY <1>4, <1>1 DEF C!EndBlanks
 <2>2. j # n + 1 BY <2>1, <1>1
 <2>3. j # n BY <2>1, <2>2, <1>1
 <2>4. j \in i .. n - 1 /\ (\A k \in i .. j : k \in 1 .. n) /\ j + 1 \in 1 .. n
   BY <2>1, <2>2, <2>3, <1>1
 <2>5. (\A k \in i .. j : s[k] = "blank") /\ s[j + 1] \in {"cr", "nl"} BY <2>1, <2>2, <2>4, <1>1
 <2> QED BY <2>4, <2>5 DEF LineBlanks, n
<1>5. n + 1 \notin C!EndBlanks(t) BY <1>1 DEF C!EndBlanks
<1>6. n + 1 \notin LineBlanks(t) BY <1>1 DEF LineBlanks
<1>7. \A i \in 1 .. n : i \in 1 .. n + 1 BY <1>1
<1> QED BY <1>2, <1>3, <1>4, <1>5, <1>6, <1>7 DEF n

\* One character more, with places of the text before that are left out.
LEMMA CanonicalStep ==
  ASSUME NEW s \in Seq(Char), NEW c \in Char, NEW E, NEW F,
         \A i \in 1 .. Len(s) : i \in E <=> i \in F
  PROVE  C!CRLF(C!Without(Append(s, c), E)) =
           C!CRLF(C!Without(s, F)) \o (IF Len(s) + 1 \in E \/ c = "cr" THEN <<>>
                                       ELSE IF c = "nl" THEN <<"cr", "nl">> ELSE <<c>>)
<1> DEFINE u == C!Without(s, F)
<1>1. u \in Seq(Char) /\ C!CRLF(u) \in Seq(Char) BY WithoutType, LineEndType
<1>2. C!Without(s, E) = u BY WithoutSame
<1>3. C!Without(Append(s, c), E) = u \o (IF Len(s) + 1 \in E \/ c = "cr" THEN <<>> ELSE <<c>>)
  BY <1>2, WithoutAppend
<1> HIDE DEF u
<1>4. CASE Len(s) + 1 \in E \/ c = "cr"
 <2>1. u \o <<>> = u /\ C!CRLF(u) \o <<>> = C!CRLF(u) BY <1>1
 <2> QED BY <1>3, <1>4, <2>1 DEF u
<1>5. CASE ~(Len(s) + 1 \in E \/ c = "cr")
 <2>1. u \o <<c>> = Append(u, c) BY <1>1
 <2>2. C!CRLF(Append(u, c)) = C!CRLF(u) \o (IF c = "nl" THEN <<"cr", "nl">> ELSE <<c>>)
   BY <1>1, LineEndAppend
 <2> QED BY <1>3, <1>5, <2>1, <2>2 DEF u
<1> QED BY <1>4, <1>5

\* What a character adds to the canonical text.
LEMMA CanonicalAppend ==
  ASSUME NEW s \in Seq(Char), NEW c \in Char
  PROVE  /\ c = "blank" => /\ C!Canonical(Append(s, c)) = C!Canonical(s)
                           /\ Pending(Append(s, c)) = Append(Pending(s), c)
         /\ c = "cr" => /\ C!Canonical(Append(s, c)) = C!Canonical(s)
                        /\ Pending(Append(s, c)) = C!Canonical(s)
         /\ c = "nl" => /\ C!Canonical(Append(s, c)) = C!Canonical(s) \o <<"cr", "nl">>
                        /\ Pending(Append(s, c)) = C!Canonical(s) \o <<"cr", "nl">>
         /\ c \in {"-", "x"} => /\ C!Canonical(Append(s, c)) = Append(Pending(s), c)
                                /\ Pending(Append(s, c)) = Append(Pending(s), c)
         /\ C!Canonical(s) \in Seq(Char) /\ Pending(s) \in Seq(Char)
<1> DEFINE t == Append(s, c)
           D == C!Canonical(s)
           P == Pending(s)
           added(E) == IF Len(s) + 1 \in E \/ c = "cr" THEN <<>>
                       ELSE IF c = "nl" THEN <<"cr", "nl">> ELSE <<c>>
<1>1. D \in Seq(Char) /\ P \in Seq(Char) BY WithoutType, LineEndType DEF C!Canonical, Pending
<1>2. D \o <<>> = D /\ P \o <<c>> = Append(P, c) BY <1>1
<1>3. D = C!CRLF(C!Without(s, C!EndBlanks(s))) /\ P = C!CRLF(C!Without(s, LineBlanks(s)))
  BY DEF C!Canonical, Pending
<1>4. /\ C!Canonical(t) = C!CRLF(C!Without(t, C!EndBlanks(t)))
      /\ Pending(t) = C!CRLF(C!Without(t, LineBlanks(t)))
  BY DEF C!Canonical, Pending
<1> HIDE DEF D, P, added
<1>5. CASE c = "blank"
 <2>1. /\ \A i \in 1 .. Len(s) : i \in C!EndBlanks(t) <=> i \in C!EndBlanks(s)
       /\ Len(s) + 1 \in C!EndBlanks(t)
       /\ \A i \in 1 .. Len(s) : i \in LineBlanks(t) <=> i \in LineBlanks(s)
       /\ Len(s) + 1 \notin LineBlanks(t)
   BY <1>5, BlanksAppendBlank
 <2>2. C!CRLF(C!Without(t, C!EndBlanks(t))) = D \o <<>>
  <3>0. \A i \in 1 .. Len(s) : i \in C!EndBlanks(t) <=> i \in C!EndBlanks(s) BY <2>1
  <3>1. C!CRLF(C!Without(t, C!EndBlanks(t))) = D \o added(C!EndBlanks(t))
    BY <3>0, <1>3, CanonicalStep DEF added
  <3>2. added(C!EndBlanks(t)) = <<>> BY <2>1, <1>5 DEF added
  <3> QED BY <3>1, <3>2
 <2>3. C!CRLF(C!Without(t, LineBlanks(t))) = P \o <<c>>
  <3>0. \A i \in 1 .. Len(s) : i \in LineBlanks(t) <=> i \in LineBlanks(s) BY <2>1
  <3>1. C!CRLF(C!Without(t, LineBlanks(t))) = P \o added(LineBlanks(t))
    BY <3>0, <1>3, CanonicalStep DEF added
  <3>2. added(LineBlanks(t)) = <<c>> BY <2>1, <1>5 DEF added
  <3> QED BY <3>1, <3>2
 <2> QED BY <2>2, <2>3, <1>1, <1>2, <1>4, <1>5 DEF D, P
<1>6. CASE c \in {"cr", "nl"}
 <2>1. /\ \A i \in 1 .. Len(s) : i \in C!EndBlanks(t) <=> i \in C!EndBlanks(s)
       /\ \A i \in 1 .. Len(s) : i \in LineBlanks(t) <=> i \in C!EndBlanks(s)
       /\ Len(s) + 1 \notin C!EndBlanks(t) /\ Len(s) + 1 \notin LineBlanks(t)
   BY <1>6, BlanksAppendEnd
 <2>2. C!CRLF(C!Without(t, C!EndBlanks(t))) = D \o (IF c = "cr" THEN <<>> ELSE <<"cr", "nl">>)
  <3>0. \A i \in 1 .. Len(s) : i \in C!EndBlanks(t) <=> i \in C!EndBlanks(s) BY <2>1
  <3>1. C!CRLF(C!Without(t, C!EndBlanks(t))) = D \o added(C!EndBlanks(t))
    BY <3>0, <1>3, CanonicalStep DEF added
  <3>2. added(C!EndBlanks(t)) = (IF c = "cr" THEN <<>> ELSE <<"cr", "nl">>)
    BY <2>1, <1>6 DEF added
  <3> QED BY <3>1, <3>2
 <2>3. C!CRLF(C!Without(t, LineBlanks(t))) = D \o (IF c = "cr" THEN <<>> ELSE <<"cr", "nl">>)
  <3>0. \A i \in 1 .. Len(s) : i \in LineBlanks(t) <=> i \in C!EndBlanks(s) BY <2>1
  <3>1. C!CRLF(C!Without(t, LineBlanks(t))) = D \o added(LineBlanks(t))
    BY <3>0, <1>3, CanonicalStep DEF added
  <3>2. added(LineBlanks(t)) = (IF c = "cr" THEN <<>> ELSE <<"cr", "nl">>)
    BY <2>1, <1>6 DEF added
  <3> QED BY <3>1, <3>2
 <2> QED BY <2>2, <2>3, <1>1, <1>2, <1>4, <1>6 DEF D, P
<1>7. CASE c \in {"-", "x"}
 <2>1. /\ \A i \in 1 .. Len(s) : i \in C!EndBlanks(t) <=> i \in LineBlanks(s)
       /\ \A i \in 1 .. Len(s) : i \in LineBlanks(t) <=> i \in LineBlanks(s)
       /\ Len(s) + 1 \notin C!EndBlanks(t) /\ Len(s) + 1 \notin LineBlanks(t)
   BY <1>7, BlanksAppendOther
 <2>2. C!CRLF(C!Without(t, C!EndBlanks(t))) = P \o <<c>>
  <3>0. \A i \in 1 .. Len(s) : i \in C!EndBlanks(t) <=> i \in LineBlanks(s) BY <2>1
  <3>1. C!CRLF(C!Without(t, C!EndBlanks(t))) = P \o added(C!EndBlanks(t))
    BY <3>0, <1>3, CanonicalStep DEF added
  <3>2. added(C!EndBlanks(t)) = <<c>> BY <2>1, <1>7 DEF added
  <3> QED BY <3>1, <3>2
 <2>3. C!CRLF(C!Without(t, LineBlanks(t))) = P \o <<c>>
  <3>0. \A i \in 1 .. Len(s) : i \in LineBlanks(t) <=> i \in LineBlanks(s) BY <2>1
  <3>1. C!CRLF(C!Without(t, LineBlanks(t))) = P \o added(LineBlanks(t))
    BY <3>0, <1>3, CanonicalStep DEF added
  <3>2. added(LineBlanks(t)) = <<c>> BY <2>1, <1>7 DEF added
  <3> QED BY <3>1, <3>2
 <2> QED BY <2>2, <2>3, <1>1, <1>2, <1>4, <1>7 DEF D, P
<1> QED BY <1>5, <1>6, <1>7 DEF Char, C!W!Char

-----------------------------------------------------------------------------
(* The invariant.  A text that is being written may end with a CR that its LF *)
(* has yet to follow.                                                         *)

Length == Len(text)
NoLoneCRYet == \A i \in 1 .. Length - 1 : text[i] = "cr" => text[i + 1] = "nl"
EndsWith(c) == Length > 0 /\ text[Length] = c
OneLineYet == \A i \in 1 .. Length : text[i] \notin {"cr", "nl"}

\* Types that say a little more than MessageTypeOK.
MessageTypes ==
  /\ MessageTypeOK
  /\ bodies \in Seq(Seq(Char)) /\ r_hashed \in Seq(Char) /\ data \in Seq(Char)
  /\ pieces \in Seq(Seq({"x", "nl"}))
  /\ \A i \in 2 .. Len(body) : body[i] # "nl"
  /\ judged \in {Unjudged} \cup V!Lists

\* Before it is read there is nothing of a message on the reader's side, and of a
\* literal packet there is never a text.
Untouched ==
  /\ at = 1 /\ r_nl /\ body = <<>> /\ r_hashed = <<>> /\ bodies = <<>> /\ ~r_errors
Unwritten == text = <<>> /\ wire = <<>> /\ signed = <<>> /\ trailing = <<>>
Apart ==
  /\ phase = "write" => Untouched /\ state = "text" /\ judged = Unjudged /\ literal = <<>> /\ pieces = <<>>
  /\ kind = "literal" => Untouched /\ Unwritten /\ state \in {"text", "trailer"}
  /\ kind = "cleartext" => literal = <<>> /\ pieces = <<>>
  /\ ~own => text = <<>> /\ signed = <<>> /\ trailing = <<>>
  /\ own /\ kind = "cleartext" => /\ w_nl <=> (Length = 0 \/ EndsWith("nl"))
                                  /\ w_cr <=> EndsWith("cr")

\* What is signed is the canonical text, and the blanks held back are those that
\* it may yet have.
Signing ==
  own =>
    /\ NoLoneCRYet =>
         signed = C!Canonical(text) \o (IF EndsWith("cr") THEN <<"cr">> ELSE <<>>)
    /\ phase = "write" /\ NoLoneCRYet /\ ~EndsWith("cr") => signed \o trailing = Pending(text)
    /\ trailing # <<>> => EndsWith("blank")
    /\ ~OneLineYet => \E j \in 1 .. Len(signed) : signed[j] = "cr"
    /\ phase = "write" /\ OneLineYet => signed \o trailing = text
    /\ phase = "read" /\ OneLineYet /\ C!EndBlanks(text) = {} => signed = text

\* The hash of the verifier has what the application has got.
Hashing ==
  (\A i \in 1 .. Len(bodies) : Len(bodies[i]) < BodySize) =>
    r_hashed = C!CRLF(FlattenSeq(bodies))

\* Where each character of a text is on the wire, with what comes before it.
StartsLine(t, k) == k = 1 \/ t[k - 1] = "nl"
Chunk(t, w, k, p, q) ==
  LET c == t[k]
  IN  IF c = "-" /\ StartsLine(t, k)
        THEN q = p + 3 /\ w[p] = "-" /\ w[p + 1] = "blank" /\ w[p + 2] = c
      ELSE IF c = "nl" /\ (k = 1 \/ t[k - 1] # "cr")
        THEN q = p + 2 /\ w[p] = "cr" /\ w[p + 1] = c
      ELSE q = p + 1 /\ w[p] = c
Spans(t, w, pos) ==
  /\ pos \in [1 .. Len(t) + 1 -> 1 .. Len(w) + 1] /\ pos[1] = 1
  /\ \A k \in 1 .. Len(t) : Chunk(t, w, k, pos[k], pos[k + 1])
Closing(w, p) ==
  /\ Len(w) = p + 6 /\ w[p] = "cr" /\ w[p + 1] = "nl"
  /\ \A i \in 2 .. 6 : w[p + i] = "-"

\* The reader is in front of a character of the text, or in front of the dashes
\* behind it, or has read them.
InFront(pos, k) ==
  /\ at = pos[k] /\ (k > 1 => text[k - 1] # "cr") /\ (r_nl <=> StartsLine(text, k))
  /\ FlattenSeq(bodies) \o body = C!NoCR(SubSeq(text, 1, k - 1))
Behind(pos) ==
  /\ at = pos[Length + 1] + 2 /\ r_nl /\ body = <<"nl">>
  /\ FlattenSeq(bodies) = C!NoCR(text)
InPlace(pos) ==
  /\ state = "text" => Behind(pos) \/ \E k \in 1 .. Length + 1 : InFront(pos, k)
  /\ state = "trailer" => at = Len(wire) + 1 /\ FlattenSeq(bodies) = C!NoCR(text)

Reading ==
  (own /\ kind = "cleartext") =>
    (\E pos : /\ Spans(text, wire, pos)
             /\ (phase = "write" => Len(wire) + 1 = pos[Length + 1])
             /\ (phase = "read" => Closing(wire, pos[Length + 1]))
             /\ (phase = "read" /\ C!NoLoneCR => InPlace(pos)))

\* What the application gets of such a text.
Handing ==
  own /\ kind = "cleartext" /\ phase = "read" /\ C!NoLoneCR =>
    /\ state \in {"text", "trailer", "failed"} /\ ~r_errors
    /\ \A i \in 1 .. Len(body) : body[i] # "cr"
    /\ \A n \in 1 .. Len(bodies) : \A i \in 1 .. Len(bodies[n]) : bodies[n][i] # "cr"
    /\ OneLineYet /\ Length <= BodySize => bodies \in {<<>>, <<text>>}

\* What validate_data_cb has kept, and what the callback has got of a literal packet.
Keeping ==
  /\ bodies # <<>> => data = bodies[Len(bodies)]
  /\ pieces # <<>> => data = pieces[Len(pieces)]
  /\ pieces # <<>> /\ Len(literal) <= BodySize => pieces[Len(pieces)] = literal /\ Taken = Len(literal)
  /\ Taken \in 0 .. Len(literal) /\ FlattenSeq(pieces) = SubSeq(literal, 1, Taken)
  /\ kind = "literal" /\ state = "trailer" => Taken = Len(literal)

\* The verdict is on what was kept, and counted once.
Judging ==
  /\ judged # Unjudged =>
       /\ MessageEnded /\ sig \in Signatures /\ judged = V!Judged(sig)
       /\ result[judged] > 0
  /\ result["valid"] + result["invalid"] + result["unknown"]
       = (IF later THEN 1 ELSE 0) + (IF judged = Unjudged THEN 0 ELSE 1)

MessageInv == MessageTypes /\ Apart /\ Signing /\ Hashing /\ Reading /\ Handing /\ Keeping /\ Judging

-----------------------------------------------------------------------------
(* The steps, each with all it does. *)

SameMessage == UNCHANGED <<kind, literal, pieces, later, sig, judged>>
SameKept == UNCHANGED <<use, data, result>>
SameReader == UNCHANGED <<at, r_nl, body, r_hashed, bodies, state, r_errors>>

Writes(c) ==
  /\ kind = "cleartext" /\ phase = "write" /\ own /\ UNCHANGED <<own, phase>>
  /\ text' = Append(text, c)
  /\ wire' = wire \o C!W!Escape(c) \o C!W!LineEnd(c) \o <<c>>
  /\ signed' = signed \o C!W!LineEnd(c) \o (IF c = "blank" THEN <<>> ELSE C!W!Held(c) \o <<c>>)
  /\ trailing' = IF c = "blank" THEN Append(trailing, c) ELSE <<>>
  /\ w_nl' = (c = "nl") /\ w_cr' = (c = "cr")
  /\ SameReader /\ SameMessage /\ SameKept

TextEnds ==
  /\ kind = "cleartext" /\ phase = "write" /\ own /\ phase' = "read"
  /\ wire' = wire \o <<"cr", "nl">> \o <<"-", "-", "-", "-", "-">>
  /\ trailing' = <<>>
  /\ UNCHANGED <<own, text, w_nl, w_cr, signed>> /\ SameReader /\ SameMessage /\ SameKept

\* Another program writes what it likes.
Foreign ==
  /\ kind = "cleartext" /\ phase = "write" /\ ~own /\ phase' \in {"write", "read"}
  /\ wire' \in Seq(Char)
  /\ UNCHANGED <<own, text, w_nl, w_cr, trailing, signed>> /\ SameReader /\ SameMessage /\ SameKept

Reads ==
  /\ kind = "cleartext" /\ phase = "read"
  /\ UNCHANGED <<own, text, phase, w_nl, w_cr, trailing, wire, signed, result>> /\ SameMessage

\* A character: it ends a line, it fills the buffer or it is put into it.
Takes(c) ==
  /\ r_nl' = (c = "nl") /\ UNCHANGED <<state, r_errors>>
  /\ \/ /\ c = "nl" /\ body # <<>>
        /\ r_hashed' = r_hashed \o C!R!Hashed(body)
        /\ bodies' = Append(bodies, body) /\ body' = <<c>>
        /\ data' = body /\ use' = "cleartext"
     \/ /\ ~(c = "nl" /\ body # <<>>) /\ Len(body) + 1 = BodySize
        /\ bodies' = Append(bodies, Append(body, c)) /\ body' = <<>>
        /\ data' = Append(body, c) /\ use' = "cleartext" /\ UNCHANGED r_hashed
     \/ /\ ~(c = "nl" /\ body # <<>>) /\ Len(body) + 1 < BodySize
        /\ body' = Append(body, c) /\ UNCHANGED <<r_hashed, bodies, data, use>>

\* Behind the CRs that read_char leaves out.
Comes(h) == h \in at .. Len(wire) /\ wire[h] # "cr" /\ \A j \in at .. h - 1 : wire[j] = "cr"

ReadsPlain(h) ==
  /\ Reads /\ state = "text" /\ Comes(h) /\ ~(r_nl /\ wire[h] = "-")
  /\ at' = h + 1 /\ Takes(wire[h])
ReadsEscaped(h) ==
  /\ Reads /\ state = "text" /\ Comes(h) /\ r_nl /\ wire[h] = "-"
  /\ h + 2 <= Len(wire) /\ wire[h + 1] = "blank"
  /\ at' = h + 3 /\ Takes(wire[h + 2])
ReadsTrailer(h) ==
  /\ Reads /\ state = "text" /\ Comes(h) /\ r_nl /\ wire[h] = "-"
  /\ h + 4 <= Len(wire) /\ wire[h + 1] # "blank"
  /\ r_errors' = (\E k \in 1 .. 4 : wire[h + k] # "-")
  /\ at' = h + 5 /\ r_nl' = (wire[h + 4] = "nl")
  /\ state' = IF body = <<"nl">> THEN "trailer" ELSE "abort"
  /\ UNCHANGED <<body, r_hashed, bodies, use, data>>
ReadsNoMore ==
  /\ Reads /\ state = "text" /\ state' = "failed"
  /\ UNCHANGED <<at, r_nl, body, r_hashed, bodies, r_errors, use, data>>

USE SignedMessageAssumption DEF SignedMessageAssumption

LEMMA HereIs ==
  ASSUME MessageTypes, C!R!NotCR # {} PROVE Comes(C!R!Here) /\ wire[C!R!Here] \in Char
<1>1. at \in Nat /\ Len(wire) \in Nat /\ wire \in Seq(Char)
  BY DEF MessageTypes, MessageTypeOK, C!TypeOK, Char
<1>2. C!R!NotCR = {i \in at .. Len(wire) : wire[i] # "cr"} BY DEF C!R!NotCR
<1>3. C!R!NotCR \subseteq Nat BY <1>1, <1>2
<1>4. \E i \in C!R!NotCR : \A j \in C!R!NotCR : i <= j BY <1>3, Smallest
<1>5. C!R!Here \in C!R!NotCR /\ \A j \in C!R!NotCR : C!R!Here <= j BY <1>4 DEF C!R!Here
<1> DEFINE h == C!R!Here
<1>6. h \in at .. Len(wire) /\ wire[h] # "cr" BY <1>2, <1>5
<1>7. ASSUME NEW j \in at .. h - 1, wire[j] # "cr" PROVE FALSE
 <2>1. j \in at .. Len(wire) BY <1>1, <1>6
 <2>2. h <= j BY <2>1, <1>2, <1>5, <1>7
 <2> QED BY <2>2, <1>1, <1>6
<1>8. wire[h] \in Char
 <2>1. h \in 1 .. Len(wire)
  <3>1. at >= 1 BY DEF MessageTypes, MessageTypeOK, C!TypeOK
  <3> QED BY <3>1, <1>1, <1>6
 <2> QED BY <2>1, <1>1
<1> QED BY <1>6, <1>7, <1>8 DEF Comes

LEMMA TakeIs ==
  ASSUME MessageTypes, NEW c \in Char, C!R!Take(c),
         V!Bodies("cleartext", SubSeq(bodies', Len(bodies) + 1, Len(bodies')))
  PROVE  Takes(c) /\ UNCHANGED result
<1>1. body \in Seq(Char) /\ Len(body) < BodySize /\ Len(body) \in Nat /\ bodies \in Seq(Seq(Char))
  BY DEF MessageTypes, MessageTypeOK, C!TypeOK, Char
<1>2. /\ r_nl' = (c = "nl") /\ UNCHANGED <<state, r_errors>> BY DEF C!R!Take
<1>3. ASSUME NEW b \in Seq(Char), bodies' = Append(bodies, b)
      PROVE  data' = b /\ use' = "cleartext" /\ UNCHANGED result
 <2> DEFINE p == SubSeq(bodies', Len(bodies) + 1, Len(bodies'))
 <2>1. Len(bodies') = Len(bodies) + 1 /\ bodies'[Len(bodies) + 1] = b /\ Len(bodies) \in Nat
   BY <1>1, <1>3
 <2>2. Len(p) = 1 /\ p[1] = b /\ p # <<>> BY <2>1
 <2> HIDE DEF p
 <2>3. V!Bodies("cleartext", p) BY DEF p
 <2> QED BY <2>2, <2>3 DEF V!Bodies, V!Kept
<1>4. ASSUME bodies' = bodies PROVE UNCHANGED <<data, use, result>>
 <2> DEFINE p == SubSeq(bodies', Len(bodies) + 1, Len(bodies'))
 <2>1. Len(bodies) \in Nat BY <1>1
 <2>2. p = <<>> BY <1>4, <2>1, SubSeqEmpty
 <2> HIDE DEF p
 <2>3. V!Bodies("cleartext", p) BY DEF p
 <2> QED BY <2>2, <2>3 DEF V!Bodies
<1>5. CASE c = "nl" /\ body # <<>>
 <2>1. ~C!R!Full(<<c>>) BY DEF C!R!Full
 <2>2. /\ r_hashed' = r_hashed \o C!R!Hashed(body) /\ body' = <<c>>
       /\ bodies' = (bodies \o <<body>>) \o <<>>
   BY <1>5, <2>1 DEF C!R!Take
 <2>3. bodies' = Append(bodies, body) BY <2>2, <1>1
 <2> QED BY <1>1, <1>2, <1>3, <1>5, <2>2, <2>3 DEF Takes
<1>6. CASE ~(c = "nl" /\ body # <<>>) /\ Len(body) + 1 = BodySize
 <2>1. Append(body, c) \in Seq(Char) /\ Len(Append(body, c)) = BodySize BY <1>1, <1>6
 <2>2. C!R!Full(Append(body, c)) BY <2>1 DEF C!R!Full
 <2>3. /\ r_hashed' = r_hashed /\ body' = <<>>
       /\ bodies' = (bodies \o <<>>) \o <<Append(body, c)>>
   BY <1>6, <2>2 DEF C!R!Take
 <2>4. bodies' = Append(bodies, Append(body, c)) BY <2>1, <2>3, <1>1
 <2> QED BY <1>2, <1>3, <1>6, <2>1, <2>3, <2>4 DEF Takes
<1>7. CASE ~(c = "nl" /\ body # <<>>) /\ Len(body) + 1 # BodySize
 <2>1. Len(Append(body, c)) # BodySize /\ Len(body) + 1 < BodySize
  <3>1. Len(Append(body, c)) = Len(body) + 1 BY <1>1
  <3>2. Len(body) + 1 # BodySize BY <1>7
  <3> QED BY <3>1, <3>2, <1>1
 <2>2. ~C!R!Full(Append(body, c)) BY <2>1 DEF C!R!Full
 <2>3. /\ r_hashed' = r_hashed /\ body' = Append(body, c)
       /\ bodies' = (bodies \o <<>>) \o <<>>
   BY <1>7, <2>2 DEF C!R!Take
 <2>4. bodies' = bodies BY <2>3, <1>1
 <2> QED BY <1>2, <1>4, <1>7, <2>1, <2>3, <2>4 DEF Takes
<1> QED BY <1>5, <1>6, <1>7

LEMMA StepsOfWriting ==
  ASSUME MessageTypes, WriteCleartext
  PROVE  (\E c \in Char : Writes(c)) \/ TextEnds \/ Foreign
<1>1. /\ kind = "cleartext" /\ phase = "write" /\ C!Next /\ SameMessage /\ SameKept
  BY DEF WriteCleartext, SameMessage, SameKept
<1>2. ASSUME NEW c \in C!W!Char, C!WriteChar(c) PROVE Writes(c)
  BY <1>1, <1>2 DEF C!WriteChar, C!W!Write, C!readerVars, Writes, SameReader
<1>3. ASSUME NEW c \in C!W!Char, C!ForeignChar(c) PROVE Foreign
 <2>1. wire' \in Seq(Char) BY <1>3 DEF C!ForeignChar, MessageTypes, MessageTypeOK, C!TypeOK, Char
 <2> QED BY <1>1, <1>3, <2>1 DEF C!ForeignChar, C!readerVars, Foreign, SameReader
<1>4. CASE C!EndText
  BY <1>1, <1>4 DEF C!EndText, C!W!SwitchToSignature, C!W!Gap, C!W!Dashes, C!readerVars, TextEnds,
     SameReader
<1>5. CASE C!ForeignEnd
 <2>1. PICK end \in {C!W!Dashes, C!W!Gap \o C!W!Dashes} : wire' = wire \o end
   BY <1>5 DEF C!ForeignEnd
 <2>2. C!W!Dashes \in Seq(Char) /\ C!W!Gap \in Seq(Char)
  <3>1. {"-", "cr", "nl"} \subseteq Char BY DEF Char, C!W!Char
  <3> QED BY <3>1 DEF C!W!Dashes, C!W!Gap
 <2>3. wire \in Seq(Char) BY DEF MessageTypes, MessageTypeOK, C!TypeOK, Char
 <2>4. end \in Seq(Char)
  <3>1. C!W!Gap \o C!W!Dashes \in Seq(Char) BY <2>2
  <3>2. end = C!W!Dashes \/ end = C!W!Gap \o C!W!Dashes BY <2>1
  <3> QED BY <2>2, <3>1, <3>2, Zenon
 <2>5. wire' \in Seq(Char) BY <2>1, <2>3, <2>4
 <2> QED BY <1>1, <1>5, <2>5 DEF C!ForeignEnd, C!readerVars, Foreign, SameReader
<1>6. ~C!Read BY <1>1 DEF C!Read
<1> QED BY <1>1, <1>2, <1>3, <1>4, <1>5, <1>6 DEF C!Next, Char

LEMMA StepsOfReading ==
  ASSUME MessageTypes, ReadCleartext
  PROVE  \/ \E h : ReadsPlain(h) \/ ReadsEscaped(h) \/ ReadsTrailer(h)
         \/ ReadsNoMore
<1>1. /\ kind = "cleartext" /\ phase = "read" /\ C!Next /\ SameMessage
      /\ V!Bodies("cleartext", SubSeq(bodies', Len(bodies) + 1, Len(bodies')))
  BY DEF ReadCleartext, SameMessage
<1>2. C!Read BY <1>1 DEF C!Next, C!WriteChar, C!ForeignChar, C!EndText, C!ForeignEnd
<1>3. UNCHANGED <<own, text, phase, w_nl, w_cr, trailing, wire, signed>> /\ C!R!Next
  BY <1>2 DEF C!Read, C!writerVars
<1>4. result' = result BY <1>1 DEF V!Bodies
<1>5. Reads BY <1>1, <1>3, <1>4 DEF Reads
<1>6. ASSUME bodies' = bodies PROVE UNCHANGED <<use, data>>
 <2> DEFINE p == SubSeq(bodies', Len(bodies) + 1, Len(bodies'))
 <2>1. Len(bodies) \in Nat BY DEF MessageTypes
 <2>2. p = <<>> BY <1>6, <2>1, SubSeqEmpty
 <2> HIDE DEF p
 <2>3. V!Bodies("cleartext", p) BY <1>1 DEF p
 <2> QED BY <2>2, <2>3 DEF V!Bodies
<1>7. CASE C!R!ReadText
 <2> DEFINE h == C!R!Here
 <2>1. state = "text" /\ C!R!NotCR # {} BY <1>7 DEF C!R!ReadText
 <2>2. Comes(h) /\ wire[h] \in Char BY <2>1, HereIs
 <2>3. ASSUME ~C!R!Escaped, C!R!Take(wire[C!R!Here]), at' = C!R!Here + 1
       PROVE  ReadsPlain(h)
  <3>1. Takes(wire[h]) BY <2>2, <2>3, <1>1, TakeIs
  <3>2. ~(r_nl /\ wire[h] = "-") BY <2>3 DEF C!R!Escaped
  <3> HIDE DEF h
  <3>3. at' = h + 1 BY <2>3 DEF h
  <3> QED BY <1>5, <2>1, <2>2, <3>1, <3>2, <3>3 DEF ReadsPlain
 <2>4. ASSUME C!R!Escaped, C!R!Here + 2 <= Len(wire), wire[C!R!Here + 1] = "blank",
              C!R!Take(wire[C!R!Here + 2]), at' = C!R!Here + 3
       PROVE  ReadsEscaped(h)
  <3>1. wire[h + 2] \in Char
   <4>1. h \in at .. Len(wire) /\ at \in Nat /\ at >= 1 /\ wire \in Seq(Char) /\ Len(wire) \in Nat
     BY <2>2 DEF Comes, MessageTypes, MessageTypeOK, C!TypeOK, Char
   <4>2. h + 2 \in 1 .. Len(wire) BY <4>1, <2>4
   <4> QED BY <4>1, <4>2
  <3>2. Takes(wire[h + 2]) BY <3>1, <2>4, <1>1, TakeIs
  <3>3. r_nl /\ wire[h] = "-" BY <2>4 DEF C!R!Escaped
  <3> HIDE DEF h
  <3>4. h + 2 <= Len(wire) /\ wire[h + 1] = "blank" /\ at' = h + 3 BY <2>4 DEF h
  <3> QED BY <1>5, <2>1, <2>2, <3>2, <3>3, <3>4 DEF ReadsEscaped
 <2>5. \/ ~C!R!Escaped /\ C!R!Take(wire[C!R!Here]) /\ at' = C!R!Here + 1
       \/ /\ C!R!Escaped /\ C!R!Here + 2 <= Len(wire) /\ wire[C!R!Here + 1] = "blank"
          /\ C!R!Take(wire[C!R!Here + 2]) /\ at' = C!R!Here + 3
   BY <1>7 DEF C!R!ReadText
 <2> QED BY <2>3, <2>4, <2>5
<1>8. CASE C!R!ReadTrailer
 <2> DEFINE h == C!R!Here
 <2>1. /\ state = "text" /\ C!R!NotCR # {} /\ r_nl /\ wire[h] = "-"
       /\ h + 4 <= Len(wire) /\ wire[h + 1] # "blank"
       /\ r_errors' = (\E k \in 1 .. 4 : wire[h + k] # "-")
       /\ at' = h + 5 /\ r_nl' = (wire[h + 4] = "nl")
       /\ state' = IF body = <<"nl">> THEN "trailer" ELSE "abort"
       /\ UNCHANGED <<body, r_hashed, bodies>>
   BY <1>8 DEF C!R!ReadTrailer, C!R!Escaped
 <2>2. Comes(h) BY <2>1, HereIs
 <2> HIDE DEF h
 <2>3. ReadsTrailer(h) BY <1>5, <1>6, <2>1, <2>2 DEF ReadsTrailer
 <2> QED BY <2>3
<1>9. CASE C!R!ReadFails BY <1>5, <1>6, <1>9 DEF C!R!ReadFails, ReadsNoMore
<1> QED BY <1>3, <1>7, <1>8, <1>9 DEF C!R!Next

-----------------------------------------------------------------------------
(* A message that has yet to be written. *)

Fresh ==
  /\ text = <<>> /\ phase = "write" /\ w_nl /\ ~w_cr /\ trailing = <<>> /\ wire = <<>> /\ signed = <<>>
  /\ Untouched /\ state = "text" /\ literal = <<>> /\ pieces = <<>> /\ judged = Unjudged

LEMMA CanonicalEmpty == C!Canonical(<<>>) = <<>> /\ Pending(<<>>) = <<>>
<1>1. C!Canonical(<<>>) = C!CRLF(<<>>) BY WithoutEmpty DEF C!Canonical
<1>2. Pending(<<>>) = C!CRLF(<<>>) BY WithoutEmpty DEF Pending
<1> QED BY <1>1, <1>2, LineEndEmpty

NothingSigned == text = <<>> /\ signed = <<>> /\ trailing = <<>>

LEMMA SigningNothing == NothingSigned => Signing
<1> SUFFICES ASSUME text = <<>>, signed = <<>>, trailing = <<>> PROVE Signing BY DEF NothingSigned
<1>1. Length = 0 BY DEF Length
<1>2. signed = C!Canonical(text) /\ signed \o trailing = Pending(text) /\ signed \o trailing = text
  BY CanonicalEmpty
<1>3. ~EndsWith("cr") /\ OneLineYet /\ signed = signed \o <<>> BY <1>1 DEF EndsWith, OneLineYet
<1> QED BY <1>2, <1>3 DEF Signing

LEMMA SigningNothingThen == NothingSigned' => Signing'
BY SigningNothing, PTL

LEMMA FreshIs == Fresh => Apart /\ Signing /\ Hashing /\ Reading /\ Handing /\ Keeping
<1> SUFFICES ASSUME Fresh PROVE Apart /\ Signing /\ Hashing /\ Reading /\ Handing /\ Keeping
  OBVIOUS
<1>1. /\ text = <<>> /\ phase = "write" /\ w_nl /\ ~w_cr /\ trailing = <<>> /\ wire = <<>> /\ signed = <<>>
      /\ Untouched /\ state = "text" /\ literal = <<>> /\ pieces = <<>> /\ judged = Unjudged
  BY DEF Fresh
<1>2. Length = 0 BY <1>1 DEF Length
<1>3. Apart BY <1>1, <1>2 DEF Apart, EndsWith, Unwritten
<1>4. Signing BY <1>1, SigningNothing DEF NothingSigned
<1>5. Hashing
 <2>1. r_hashed = <<>> /\ bodies = <<>> BY <1>1 DEF Untouched
 <2> QED BY <2>1, FlattenEmpty, LineEndEmpty DEF Hashing
<1>6. Reading
 <2> DEFINE pos == [k \in 1 .. 1 |-> 1]
 <2>1. Spans(text, wire, pos) BY <1>1, <1>2 DEF Spans, Length
 <2>2. Len(wire) + 1 = pos[Length + 1] BY <1>1, <1>2
 <2> QED BY <1>1, <2>1, <2>2 DEF Reading
<1>7. Handing BY <1>1 DEF Handing
<1>8. Keeping
 <2>1. Taken = 0 /\ FlattenSeq(pieces) = <<>> /\ Len(literal) = 0 BY <1>1, FlattenEmpty DEF Taken
 <2>2. SubSeq(literal, 1, 0) = <<>> BY <1>1
 <2>3. bodies = <<>> /\ state # "trailer" BY <1>1 DEF Untouched
 <2>4. Taken \in 0 .. Len(literal) /\ FlattenSeq(pieces) = SubSeq(literal, 1, Taken)
   BY <2>1, <2>2
 <2> QED BY <1>1, <2>3, <2>4 DEF Keeping
<1> QED BY <1>3, <1>4, <1>5, <1>6, <1>7, <1>8

LEMMA FreshThen == Fresh' => Apart' /\ Signing' /\ Hashing' /\ Reading' /\ Handing' /\ Keeping'
BY FreshIs, PTL

LEMMA Beginning == MessageInit => MessageInv
<1> SUFFICES ASSUME MessageInit PROVE MessageInv OBVIOUS
<1>1. /\ own \in BOOLEAN /\ Fresh /\ kind \in {"cleartext", "literal"} /\ later = FALSE /\ sig = Unjudged
      /\ use = "none" /\ data = <<>> /\ result = [list \in V!Lists |-> 0]
  BY DEF MessageInit, C!Init, C!W!Init, C!R!Init, V!Init, Fresh, Untouched
<1>2. Apart /\ Signing /\ Hashing /\ Reading /\ Handing /\ Keeping BY <1>1, FreshIs
<1>3. MessageTypes
 <2>1. C!TypeOK
  <3>1. {w_nl, w_cr, r_nl, r_errors} \subseteq BOOLEAN
    BY DEF MessageInit, C!Init, C!W!Init, C!R!Init
  <3>2. <<>> \in Seq(C!W!Char) /\ <<>> \in Seq({"blank"}) /\ Len(<<>>) = 0 OBVIOUS
  <3>3. /\ text = <<>> /\ phase = "write" /\ trailing = <<>> /\ wire = <<>> /\ signed = <<>>
        /\ at = 1 /\ body = <<>> /\ bodies = <<>> /\ state = "text"
    BY <1>1 DEF Fresh, Untouched
  <3> QED BY <1>1, <3>1, <3>2, <3>3 DEF C!TypeOK
 <2>2. MessageTypeOK
  <3>1. <<>> \in Seq({"x", "nl"}) /\ Len(<<>>) = 0 /\ DOMAIN <<>> = {} OBVIOUS
  <3>2. literal = <<>> /\ pieces = <<>> BY <1>1 DEF Fresh
  <3>3. literal \in Seq({"x", "nl"}) /\ \A i \in DOMAIN pieces : Len(pieces[i]) \in 1 .. BodySize
    BY <3>1, <3>2
  <3>4. Len(data) <= BodySize BY <1>1, <3>1
  <3>5. result \in [V!Lists -> 0 .. 2] BY <1>1
  <3> QED BY <1>1, <2>1, <3>3, <3>4, <3>5 DEF MessageTypeOK
 <2> QED BY <1>1, <2>2 DEF MessageTypes, Fresh, Untouched
<1>4. Judging BY <1>1 DEF Judging, Fresh, V!Lists
<1> QED BY <1>2, <1>3, <1>4 DEF MessageInv

-----------------------------------------------------------------------------
(* The steps that are left. *)

TakesPiece ==
  /\ kind = "literal" /\ phase = "read" /\ state = "text" /\ Taken < Len(literal)
  /\ pieces' = Append(pieces, Piece) /\ use' = "literal" /\ data' = Piece
  /\ UNCHANGED <<clear, kind, literal, later, sig, judged, result>>
LiteralEnds ==
  /\ kind = "literal" /\ phase = "read" /\ state = "text" /\ ~(Taken < Len(literal)) /\ state' = "trailer"
  /\ UNCHANGED <<own, text, phase, w_nl, w_cr, trailing, wire, signed, at, r_nl, body, r_hashed, bodies,
                 r_errors, kind, literal, pieces, later, sig, judged, use, data, result>>

LEMMA StepsOfLiterals ==
  ASSUME MessageTypes, ReadLiteral PROVE TakesPiece \/ LiteralEnds
<1>1. ReadingLiteral
      /\ UNCHANGED <<own, text, phase, w_nl, w_cr, trailing, wire, signed, at, r_nl, body, r_hashed, bodies,
                     r_errors, kind, literal, later, sig, judged>>
  BY DEF ReadLiteral
<1>2. CASE Taken < Len(literal)
 <2>1. pieces' = Append(pieces, Piece) /\ UNCHANGED state /\ V!Bodies("literal", <<Last(pieces')>>)
   BY <1>2 DEF ReadLiteral
 <2>2. Last(pieces') = Piece
  <3>1. Len(pieces) \in Nat /\ pieces \in Seq(Seq({"x", "nl"})) BY DEF MessageTypes
  <3>2. Len(pieces') = Len(pieces) + 1 /\ pieces'[Len(pieces) + 1] = Piece BY <2>1, <3>1
  <3> QED BY <3>2 DEF Last
 <2>3. use' = "literal" /\ data' = Piece /\ UNCHANGED result
  <3> DEFINE p == <<Last(pieces')>>
  <3>1. p # <<>> /\ Len(p) = 1 /\ p[1] = Piece BY <2>2
  <3> HIDE DEF p
  <3>2. V!Bodies("literal", p) BY <2>1 DEF p
  <3> QED BY <3>1, <3>2 DEF V!Bodies, V!Kept
 <2> QED BY <1>1, <1>2, <2>1, <2>3 DEF TakesPiece, ReadingLiteral, clear
<1>3. CASE ~(Taken < Len(literal)) BY <1>1, <1>3 DEF ReadLiteral, LiteralEnds, ReadingLiteral
<1> QED BY <1>2, <1>3

LEMMA Steps ==
  ASSUME MessageTypes, MessageNext
  PROVE  \/ \E c \in Char : Writes(c)
         \/ TextEnds \/ Foreign
         \/ \E h : ReadsPlain(h) \/ ReadsEscaped(h) \/ ReadsTrailer(h)
         \/ ReadsNoMore \/ WriteLiteral \/ TakesPiece \/ LiteralEnds \/ Judge \/ AnotherMessage
BY StepsOfWriting, StepsOfReading, StepsOfLiterals DEF MessageNext

-----------------------------------------------------------------------------
(* Types. *)

WriterTyped ==
  /\ own \in BOOLEAN /\ phase \in {"write", "read"} /\ text \in Seq(Char) /\ wire \in Seq(Char)
  /\ signed \in Seq(Char) /\ trailing \in Seq({"blank"}) /\ w_nl \in BOOLEAN /\ w_cr \in BOOLEAN
TextTyped ==
  /\ r_nl \in BOOLEAN /\ body \in Seq(Char) /\ Len(body) < BodySize
  /\ \A i \in 2 .. Len(body) : body[i] # "nl"
  /\ bodies \in Seq(Seq(Char)) /\ \A i \in 1 .. Len(bodies) : Len(bodies[i]) \in 1 .. BodySize
  /\ r_hashed \in Seq(Char)
  /\ use \in {"none", "cleartext", "literal"} /\ data \in Seq(Char) /\ Len(data) <= BodySize
PlaceTyped ==
  /\ at \in Nat /\ 1 <= at /\ at <= Len(wire) + 1
  /\ state \in {"text", "trailer", "failed", "abort"} /\ r_errors \in BOOLEAN
LiteralTyped ==
  /\ kind \in {"cleartext", "literal"} /\ later \in BOOLEAN /\ literal \in Seq({"x", "nl"})
  /\ pieces \in Seq(Seq({"x", "nl"})) /\ \A i \in 1 .. Len(pieces) : Len(pieces[i]) \in 1 .. BodySize
  /\ result \in [V!Lists -> 0 .. 2] /\ judged \in {Unjudged} \cup V!Lists

LEMMA TypesAre == MessageTypes <=> WriterTyped /\ TextTyped /\ PlaceTyped /\ LiteralTyped
<1>1. ASSUME MessageTypes PROVE WriterTyped
  BY <1>1 DEF MessageTypes, MessageTypeOK, C!TypeOK, WriterTyped, Char
<1>2. ASSUME MessageTypes PROVE TextTyped
  BY <1>2 DEF MessageTypes, MessageTypeOK, C!TypeOK, TextTyped, Char
<1>3. ASSUME MessageTypes PROVE PlaceTyped
 <2>1. wire \in Seq(Char) /\ at \in 1 .. Len(wire) + 1
   BY <1>3 DEF MessageTypes, MessageTypeOK, C!TypeOK, Char
 <2>2. at \in Nat /\ 1 <= at /\ at <= Len(wire) + 1 BY <2>1
 <2> QED BY <1>3, <2>2 DEF MessageTypes, MessageTypeOK, C!TypeOK, PlaceTyped
<1>4. ASSUME MessageTypes PROVE LiteralTyped
 <2>1. pieces \in Seq(Seq({"x", "nl"})) /\ \A i \in DOMAIN pieces : Len(pieces[i]) \in 1 .. BodySize
   BY <1>4 DEF MessageTypes, MessageTypeOK
 <2>2. \A i \in 1 .. Len(pieces) : Len(pieces[i]) \in 1 .. BodySize BY <2>1
 <2> QED BY <1>4, <2>1, <2>2 DEF MessageTypes, MessageTypeOK, LiteralTyped
<1>5. ASSUME WriterTyped, TextTyped, PlaceTyped, LiteralTyped PROVE MessageTypes
 <2>1. C!TypeOK
  <3>1. at \in 1 .. Len(wire) + 1 BY <1>5 DEF PlaceTyped, WriterTyped
  <3>2. {w_nl, w_cr, r_nl, r_errors} \subseteq BOOLEAN
    BY <1>5 DEF WriterTyped, TextTyped, PlaceTyped
  <3> QED BY <1>5, <3>1, <3>2 DEF C!TypeOK, WriterTyped, TextTyped, PlaceTyped, Char
 <2>2. \A i \in DOMAIN pieces : Len(pieces[i]) \in 1 .. BodySize BY <1>5 DEF LiteralTyped
 <2>3. MessageTypeOK BY <1>5, <2>1, <2>2 DEF MessageTypeOK, TextTyped, LiteralTyped
 <2> QED BY <1>5, <2>3 DEF MessageTypes, TextTyped, LiteralTyped
<1> QED BY <1>1, <1>2, <1>3, <1>4, <1>5

LEMMA TypesThen == MessageTypes' <=> WriterTyped' /\ TextTyped' /\ PlaceTyped' /\ LiteralTyped'
BY TypesAre, PTL

LEMMA CharsAre ==
  /\ {"-", "blank", "cr", "nl", "x"} = Char /\ {"x", "nl"} \subseteq Char
  /\ <<"cr">> \in Seq(Char) /\ <<"cr", "nl">> \in Seq(Char) /\ <<"-", "blank">> \in Seq(Char)
  /\ <<"nl">> \in Seq(Char) /\ <<"-", "-", "-", "-", "-">> \in Seq(Char) /\ <<>> \in Seq(Char)
<1>1. /\ "-" \in Char /\ "blank" \in Char /\ "cr" \in Char /\ "nl" \in Char /\ "x" \in Char
      /\ {"-", "blank", "cr", "nl", "x"} = Char
  BY DEF Char, C!W!Char
<1> QED BY <1>1

LEMMA TypesWritten ==
  ASSUME MessageTypes, NEW c \in Char, Writes(c)
  PROVE  /\ C!W!Escape(c) \in Seq(Char) /\ C!W!LineEnd(c) \in Seq(Char) /\ C!W!Held(c) \in Seq(Char)
         /\ WriterTyped' /\ Len(wire') >= Len(wire) /\ Len(wire') \in Nat /\ Len(wire) \in Nat
<1>1. WriterTyped BY TypesAre
<1>2. trailing \in Seq(Char)
 <2>1. "blank" \in Char /\ trailing \in Seq({"blank"}) BY <1>1, CharsAre DEF WriterTyped
 <2> QED BY <2>1
<1>3. C!W!Escape(c) \in Seq(Char) BY CharsAre DEF C!W!Escape
<1>4. C!W!LineEnd(c) \in Seq(Char) BY CharsAre DEF C!W!LineEnd
<1>5. C!W!Held(c) \in Seq(Char) BY <1>2, CharsAre DEF C!W!Held
<1>6. wire' \in Seq(Char) /\ Len(wire') >= Len(wire) /\ Len(wire') \in Nat /\ Len(wire) \in Nat
 <2>1. wire \in Seq(Char) /\ <<c>> \in Seq(Char) BY <1>1 DEF WriterTyped
 <2>2. wire' = wire \o C!W!Escape(c) \o C!W!LineEnd(c) \o <<c>> BY DEF Writes
 <2> QED BY <2>1, <2>2, <1>3, <1>4
<1>7. signed' \in Seq(Char)
 <2>1. signed \in Seq(Char) /\ <<c>> \in Seq(Char) /\ <<>> \in Seq(Char) BY <1>1 DEF WriterTyped
 <2>2. (IF c = "blank" THEN <<>> ELSE C!W!Held(c) \o <<c>>) \in Seq(Char) BY <2>1, <1>5
 <2>3. signed' = signed \o C!W!LineEnd(c) \o (IF c = "blank" THEN <<>> ELSE C!W!Held(c) \o <<c>>)
   BY DEF Writes
 <2> QED BY <2>1, <2>2, <2>3, <1>4
<1>8. trailing' \in Seq({"blank"})
 <2>1. trailing \in Seq({"blank"}) /\ trailing' = IF c = "blank" THEN Append(trailing, c) ELSE <<>>
   BY <1>1 DEF WriterTyped, Writes
 <2>2. CASE c = "blank" BY <2>1, <2>2
 <2>3. CASE c # "blank" BY <2>1, <2>3
 <2> QED BY <2>2, <2>3
<1>9. text' \in Seq(Char) /\ w_nl' \in BOOLEAN /\ w_cr' \in BOOLEAN
  BY <1>1 DEF Writes, WriterTyped
<1> QED BY <1>1, <1>3, <1>4, <1>5, <1>6, <1>7, <1>8, <1>9 DEF Writes, WriterTyped

LEMMA HashedType ==
  ASSUME NEW s \in Seq(Char), s # <<>> PROVE C!R!Hashed(s) \in Seq(Char)
BY CharsAre DEF C!R!Hashed

LEMMA TypesTaken ==
  ASSUME MessageTypes, NEW c \in Char, Takes(c), Reads PROVE TextTyped'
<1>1. TextTyped BY TypesAre
<1>2. r_nl' \in BOOLEAN BY DEF Takes
<1>3. CASE c = "nl" /\ body # <<>>
 <2>1. /\ r_hashed' = r_hashed \o C!R!Hashed(body) /\ bodies' = Append(bodies, body) /\ body' = <<c>>
       /\ data' = body /\ use' = "cleartext"
   BY <1>3 DEF Takes
 <2>2. r_hashed' \in Seq(Char)
  <3>1. body \in Seq(Char) /\ r_hashed \in Seq(Char) BY <1>1 DEF TextTyped
  <3>2. C!R!Hashed(body) \in Seq(Char) BY <3>1, <1>3, HashedType
  <3> QED BY <2>1, <3>1, <3>2
 <2>3. bodies' \in Seq(Seq(Char)) /\ \A i \in 1 .. Len(bodies') : Len(bodies'[i]) \in 1 .. BodySize
  <3>1. Len(body) \in 1 .. BodySize /\ body \in Seq(Char) /\ bodies \in Seq(Seq(Char))
    BY <1>1, <1>3 DEF TextTyped
  <3> QED BY <1>1, <2>1, <3>1 DEF TextTyped
 <2>4. body' \in Seq(Char) /\ Len(body') = 1 BY <2>1
 <2> QED BY <1>1, <1>2, <2>1, <2>2, <2>3, <2>4 DEF TextTyped
<1>4. CASE ~(c = "nl" /\ body # <<>>)
 <2> DEFINE b == Append(body, c)
 <2>1. b \in Seq(Char) /\ Len(b) = Len(body) + 1 /\ Len(body) \in Nat /\ Len(body) < BodySize
   BY <1>1 DEF TextTyped
 <2>2. \A i \in 2 .. Len(b) : b[i] # "nl"
  <3> SUFFICES ASSUME NEW i \in 2 .. Len(b) PROVE b[i] # "nl" OBVIOUS
  <3>1. CASE i = Len(b)
   <4>1. Len(body) # 0 /\ body \in Seq(Char) BY <2>1, <3>1, <1>1 DEF TextTyped
   <4>2. body # <<>> /\ b[i] = c BY <4>1, <3>1, <2>1
   <4> QED BY <4>2, <1>4
  <3>2. CASE i # Len(b)
   <4>1. i \in 2 .. Len(body) /\ body \in Seq(Char) BY <2>1, <3>2, <1>1 DEF TextTyped
   <4>2. b[i] = body[i] BY <4>1
   <4> QED BY <4>1, <4>2, <1>1 DEF TextTyped
  <3> QED BY <3>1, <3>2
 <2>3. CASE Len(body) + 1 = BodySize
  <3> HIDE DEF b
  <3>1. bodies' = Append(bodies, b) /\ body' = <<>> /\ data' = b /\ use' = "cleartext" /\ UNCHANGED r_hashed
    BY <1>4, <2>3 DEF Takes, b
  <3>2. bodies' \in Seq(Seq(Char)) /\ \A i \in 1 .. Len(bodies') : Len(bodies'[i]) \in 1 .. BodySize
   <4>1. Len(b) \in 1 .. BodySize /\ bodies \in Seq(Seq(Char))
         /\ \A i \in 1 .. Len(bodies) : Len(bodies[i]) \in 1 .. BodySize
     BY <2>1, <2>3, <1>1 DEF TextTyped
   <4>2. /\ bodies' \in Seq(Seq(Char)) /\ Len(bodies') = Len(bodies) + 1
         /\ bodies'[Len(bodies) + 1] = b /\ \A i \in 1 .. Len(bodies) : bodies'[i] = bodies[i]
     BY <2>1, <3>1, <4>1
   <4>3. Len(bodies) \in Nat /\ \A i \in 1 .. Len(bodies) + 1 : i \in 1 .. Len(bodies) \/ i = Len(bodies) + 1
     BY <4>1
   <4> QED BY <4>1, <4>2, <4>3
  <3>3. body' \in Seq(Char) /\ Len(body') = 0 BY <3>1
  <3> QED BY <1>1, <1>2, <2>1, <2>3, <3>1, <3>2, <3>3 DEF TextTyped
 <2>4. CASE Len(body) + 1 # BodySize
  <3> HIDE DEF b
  <3>1. body' = b /\ UNCHANGED <<r_hashed, bodies, data, use>> /\ Len(body) + 1 < BodySize
    BY <1>4, <2>4 DEF Takes, b
  <3> QED BY <1>1, <1>2, <2>1, <2>2, <3>1 DEF TextTyped
 <2> QED BY <2>3, <2>4
<1> QED BY <1>3, <1>4

-----------------------------------------------------------------------------
(* What types are after every step. *)

LEMMA SmallerIs ==
  ASSUME NEW a \in Nat, NEW b \in Nat PROVE Min({a, b}) = IF a <= b THEN a ELSE b
<1>1. \E m \in {a, b} : \A y \in {a, b} : m <= y
 <2>1. CASE a <= b BY <2>1
 <2>2. CASE b <= a BY <2>2
 <2> QED BY <2>1, <2>2
<1>2. Min({a, b}) \in {a, b} /\ \A y \in {a, b} : Min({a, b}) <= y BY <1>1 DEF Min
<1> QED BY <1>2

\* A piece goes on where the one before it ended, and is as long as it can be.
LEMMA PieceIs ==
  ASSUME literal \in Seq({"x", "nl"}), Taken \in Nat, Taken < Len(literal)
  PROVE  /\ Piece \in Seq({"x", "nl"}) /\ Piece \in Seq(Char) /\ Len(Piece) \in 1 .. BodySize
         /\ Taken + Len(Piece) \in Taken .. Len(literal)
         /\ SubSeq(literal, 1, Taken) \o Piece = SubSeq(literal, 1, Taken + Len(Piece))
         /\ Taken = 0 /\ Len(literal) <= BodySize => Piece = literal
<1> DEFINE n == Min({Taken + BodySize, Len(literal)})
<1>1. Len(literal) \in Nat /\ BodySize \in Nat /\ BodySize > 1 OBVIOUS
<1>2. n = IF Taken + BodySize <= Len(literal) THEN Taken + BodySize ELSE Len(literal)
  BY <1>1, SmallerIs
<1>3. n \in Taken + 1 .. Len(literal) /\ n <= Taken + BodySize BY <1>1, <1>2
<1>4. Piece = SubSeq(literal, Taken + 1, n) BY DEF Piece
<1>5. Taken = 0 /\ Len(literal) <= BodySize => n = Len(literal) BY <1>1, <1>2
<1> HIDE DEF n
<1>6. Piece \in Seq({"x", "nl"}) /\ Len(Piece) = n - Taken /\ \A i \in 1 .. n - Taken : Piece[i] = literal[Taken + i]
 <2>1. Taken + 1 \in Int /\ n \in Int /\ \A i \in Taken + 1 .. n : literal[i] \in {"x", "nl"}
   BY <1>3
 <2>2. /\ Piece \in Seq({"x", "nl"})
       /\ Len(Piece) = IF Taken + 1 <= n THEN n - (Taken + 1) + 1 ELSE 0
       /\ \A i \in 1 .. n - (Taken + 1) + 1 : Piece[i] = literal[(Taken + 1) + i - 1]
   BY <1>4, <2>1, SubSeqProperties
 <2>3. Taken + 1 <= n /\ n - (Taken + 1) + 1 = n - Taken /\ \A i \in Nat : (Taken + 1) + i - 1 = Taken + i
   BY <1>3
 <2> QED BY <1>3, <2>2, <2>3
<1>7. {"x", "nl"} \subseteq Char BY CharsAre
<1>8. Piece \in Seq(Char) BY <1>6, <1>7
<1>9. SubSeq(literal, 1, Taken) \o Piece = SubSeq(literal, 1, n)
 <2>1. 1 \in 1 .. Len(literal) + 1 /\ Taken \in 1 - 1 .. Len(literal) /\ n \in Taken .. Len(literal)
   BY <1>3
 <2> QED BY <1>4, <2>1, ConcatAdjacentSubSeq
<1>10. Taken = 0 /\ n = Len(literal) => Piece = literal
 <2> SUFFICES ASSUME Taken = 0, n = Len(literal) PROVE Piece = literal OBVIOUS
 <2>1. Len(Piece) = Len(literal) /\ \A i \in 1 .. Len(literal) : Piece[i] = literal[i] BY <1>6
 <2> QED BY <2>1, <1>6, SeqEqual
<1>11. Len(Piece) \in 1 .. BodySize /\ Taken + Len(Piece) = n BY <1>1, <1>3, <1>6
<1> QED BY <1>3, <1>5, <1>6, <1>8, <1>9, <1>10, <1>11

\* Where the reader goes on, and what it takes, is on the wire.
LEMMA PlaceRead ==
  ASSUME MessageTypes, NEW h, Comes(h)
  PROVE  /\ h \in Nat /\ 1 <= h /\ h <= Len(wire) /\ Len(wire) \in Nat /\ wire \in Seq(Char)
         /\ \A i \in h .. Len(wire) : wire[i] \in Char
<1>1. wire \in Seq(Char) /\ at \in Nat /\ 1 <= at BY TypesAre DEF WriterTyped, PlaceTyped
<1>2. h \in at .. Len(wire) /\ Len(wire) \in Nat BY <1>1 DEF Comes
<1> QED BY <1>1, <1>2

\* The list that judged is chosen by is the one that grew.
LEMMA JudgeIs ==
  ASSUME MessageTypes, Judge
  PROVE  /\ judged' = V!Judged(sig') /\ judged' \in V!Lists
         /\ result' = [result EXCEPT ![judged'] = @ + 1]
<1> DEFINE v == V!Judged(sig')
<1>1. V!Signature(sig') /\ judged' = CHOOSE list \in V!Lists : result'[list] > result[list]
  BY DEF Judge
<1>2. v \in V!Lists /\ result' = [result EXCEPT ![v] = @ + 1]
  BY <1>1 DEF V!Signature, V!Judged, V!Lists
<1>3. result \in [V!Lists -> 0 .. 2] BY TypesAre DEF LiteralTyped
<1> HIDE DEF v
<1>4. result'[v] > result[v] /\ \A list \in V!Lists : result'[list] > result[list] => list = v
  BY <1>2, <1>3
<1>5. judged' = v BY <1>1, <1>2, <1>4
<1> QED BY <1>2, <1>5 DEF v

LEMMA TypesKept ==
  ASSUME MessageInv, MessageNext PROVE MessageTypes'
<1>1. MessageTypes /\ Apart /\ Keeping /\ Judging BY DEF MessageInv
<1>2. WriterTyped /\ TextTyped /\ PlaceTyped /\ LiteralTyped BY <1>1, TypesAre
<1>3. ASSUME NEW c \in Char, Writes(c) PROVE MessageTypes'
 <2>1. WriterTyped' /\ Len(wire') >= Len(wire) /\ Len(wire') \in Nat /\ Len(wire) \in Nat
   BY <1>1, <1>3, TypesWritten
 <2>2. SameReader /\ SameMessage /\ SameKept BY <1>3 DEF Writes
 <2>3. TextTyped' BY <1>2, <2>2 DEF TextTyped, SameReader, SameKept
 <2>4. PlaceTyped' BY <1>2, <2>1, <2>2 DEF PlaceTyped, SameReader
 <2>5. LiteralTyped' BY <1>2, <2>2 DEF LiteralTyped, SameMessage, SameKept
 <2> QED BY <2>1, <2>3, <2>4, <2>5, TypesThen
<1>4. ASSUME TextEnds \/ Foreign PROVE MessageTypes'
 <2>1. UNCHANGED <<own, text, w_nl, w_cr, signed>> /\ SameReader /\ SameMessage /\ SameKept
       /\ phase = "write" /\ phase' \in {"write", "read"} /\ (trailing' = trailing \/ trailing' = <<>>)
   BY <1>4 DEF TextEnds, Foreign
 <2>2. wire' \in Seq(Char)
  <3>1. CASE TextEnds
   <4>1. wire \in Seq(Char) BY <1>2 DEF WriterTyped
   <4>2. wire' = wire \o <<"cr", "nl">> \o <<"-", "-", "-", "-", "-">> BY <3>1 DEF TextEnds
   <4>3. <<"cr", "nl">> \in Seq(Char) /\ <<"-", "-", "-", "-", "-">> \in Seq(Char) BY CharsAre
   <4> QED BY <4>1, <4>2, <4>3
  <3>2. CASE Foreign BY <3>2 DEF Foreign
  <3> QED BY <1>4, <3>1, <3>2
 <2>3. WriterTyped'
  <3>1. <<>> \in Seq({"blank"}) OBVIOUS
  <3>2. trailing' \in Seq({"blank"}) BY <1>2, <2>1, <3>1 DEF WriterTyped
  <3> QED BY <1>2, <2>1, <2>2, <3>2 DEF WriterTyped
 <2>4. TextTyped' BY <1>2, <2>1 DEF TextTyped, SameReader, SameKept
 <2>5. PlaceTyped'
  <3>1. at = 1 BY <1>1, <2>1 DEF Apart, Untouched
  <3>2. Len(wire') \in Nat BY <2>2
  <3> QED BY <1>2, <2>1, <3>1, <3>2 DEF PlaceTyped, SameReader
 <2>6. LiteralTyped' BY <1>2, <2>1 DEF LiteralTyped, SameMessage, SameKept
 <2> QED BY <2>3, <2>4, <2>5, <2>6, TypesThen
<1>5. ASSUME Reads PROVE WriterTyped' /\ LiteralTyped'
  BY <1>2, <1>5 DEF Reads, SameMessage, WriterTyped, LiteralTyped
<1>6. ASSUME NEW h, ReadsPlain(h) PROVE MessageTypes'
 <2>1. /\ h \in Nat /\ 1 <= h /\ h <= Len(wire) /\ Len(wire) \in Nat /\ wire \in Seq(Char)
       /\ wire[h] \in Char
   BY <1>1, <1>6, PlaceRead DEF ReadsPlain
 <2>2. Reads /\ Takes(wire[h]) /\ at' = h + 1 BY <1>6 DEF ReadsPlain
 <2>3. TextTyped' BY <1>1, <2>1, <2>2, TypesTaken
 <2>4. PlaceTyped' BY <1>2, <2>1, <2>2 DEF PlaceTyped, Takes, Reads
 <2> QED BY <1>5, <2>2, <2>3, <2>4, TypesThen
<1>7. ASSUME NEW h, ReadsEscaped(h) PROVE MessageTypes'
 <2>1. /\ h \in Nat /\ 1 <= h /\ h + 2 <= Len(wire) /\ Len(wire) \in Nat /\ wire \in Seq(Char)
       /\ wire[h + 2] \in Char
   BY <1>1, <1>7, PlaceRead DEF ReadsEscaped
 <2>2. Reads /\ Takes(wire[h + 2]) /\ at' = h + 3 BY <1>7 DEF ReadsEscaped
 <2>3. TextTyped' BY <1>1, <2>1, <2>2, TypesTaken
 <2>4. PlaceTyped' BY <1>2, <2>1, <2>2 DEF PlaceTyped, Takes, Reads
 <2> QED BY <1>5, <2>2, <2>3, <2>4, TypesThen
<1>8. ASSUME NEW h, ReadsTrailer(h) PROVE MessageTypes'
 <2>1. h \in Nat /\ 1 <= h /\ h + 4 <= Len(wire) /\ Len(wire) \in Nat
   BY <1>1, <1>8, PlaceRead DEF ReadsTrailer
 <2>2. /\ Reads /\ r_errors' \in BOOLEAN /\ r_nl' \in BOOLEAN /\ at' = h + 5
       /\ state' \in {"trailer", "abort"} /\ UNCHANGED <<body, r_hashed, bodies, use, data>>
   BY <1>8 DEF ReadsTrailer
 <2>3. TextTyped' BY <1>2, <2>2 DEF TextTyped
 <2>4. PlaceTyped' BY <1>2, <2>1, <2>2 DEF PlaceTyped, Reads
 <2> QED BY <1>5, <2>2, <2>3, <2>4, TypesThen
<1>9. ASSUME ReadsNoMore PROVE MessageTypes'
 <2>1. TextTyped' /\ PlaceTyped' BY <1>2, <1>9 DEF ReadsNoMore, Reads, TextTyped, PlaceTyped
 <2> QED BY <1>5, <1>9, <2>1, TypesThen DEF ReadsNoMore
<1>10. ASSUME WriteLiteral PROVE MessageTypes'
 <2>1. /\ phase' = "read" /\ UNCHANGED <<own, text, w_nl, w_cr, trailing, wire, signed, at, r_nl, body, r_hashed,
                bodies, state, r_errors, kind, pieces, later, sig, judged, use, data, result>>
   BY <1>10 DEF WriteLiteral
 <2>2. literal' \in Seq({"x", "nl"})
  <3> DEFINE n == IF later THEN MaxLater ELSE MaxText
  <3>1. PICK m \in 0 .. n : literal' \in [1 .. m -> {"x", "nl"}]
    BY <1>10 DEF WriteLiteral, SeqOf
  <3>2. m \in Nat BY <3>1
  <3> QED BY <3>1, <3>2
 <2>3. WriterTyped' /\ TextTyped' /\ PlaceTyped' /\ LiteralTyped'
   BY <1>2, <2>1, <2>2 DEF WriterTyped, TextTyped, PlaceTyped, LiteralTyped
 <2> QED BY <2>3, TypesThen
<1>11. ASSUME TakesPiece PROVE MessageTypes'
 <2>1. Piece \in Seq({"x", "nl"}) /\ Piece \in Seq(Char) /\ Len(Piece) \in 1 .. BodySize
  <3>1. Taken \in Nat /\ Taken < Len(literal) /\ literal \in Seq({"x", "nl"})
    BY <1>1, <1>2, <1>11 DEF Keeping, TakesPiece, LiteralTyped
  <3> QED BY <3>1, PieceIs
 <2>2. /\ pieces' = Append(pieces, Piece) /\ use' = "literal" /\ data' = Piece
       /\ UNCHANGED <<clear, kind, literal, later, sig, judged, result>>
   BY <1>11 DEF TakesPiece
 <2>3. WriterTyped' /\ PlaceTyped' BY <1>2, <2>2 DEF WriterTyped, PlaceTyped, clear
 <2>4. TextTyped' BY <1>2, <2>1, <2>2 DEF TextTyped, clear
 <2>5. LiteralTyped'
  <3>1. pieces' \in Seq(Seq({"x", "nl"})) /\ \A i \in 1 .. Len(pieces') : Len(pieces'[i]) \in 1 .. BodySize
    BY <1>2, <2>1, <2>2 DEF LiteralTyped
  <3> QED BY <1>2, <2>2, <3>1 DEF LiteralTyped
 <2> QED BY <2>3, <2>4, <2>5, TypesThen
<1>12. ASSUME LiteralEnds PROVE MessageTypes'
 <2>1. WriterTyped' /\ TextTyped' /\ PlaceTyped' /\ LiteralTyped'
   BY <1>2, <1>12 DEF LiteralEnds, WriterTyped, TextTyped, PlaceTyped, LiteralTyped
 <2> QED BY <2>1, TypesThen
<1>13. ASSUME Judge PROVE MessageTypes'
 <2>1. judged' \in V!Lists /\ result' = [result EXCEPT ![judged'] = @ + 1]
   BY <1>1, <1>13, JudgeIs
 <2>2. judged = Unjudged /\ UNCHANGED <<clear, kind, literal, pieces, later, use, data>>
   BY <1>13 DEF Judge, V!Signature
 <2>3. result \in [V!Lists -> 0 .. 2] /\ V!Lists = {"valid", "invalid", "unknown"}
   BY <1>2 DEF LiteralTyped, V!Lists
 <2>4. result["valid"] + result["invalid"] + result["unknown"] = (IF later THEN 1 ELSE 0)
  <3>1. result["valid"] + result["invalid"] + result["unknown"]
          = (IF later THEN 1 ELSE 0) + (IF judged = Unjudged THEN 0 ELSE 1)
    BY <1>1 DEF Judging
  <3> QED BY <3>1, <2>2
 <2>5. result[judged'] <= 1 BY <2>1, <2>3, <2>4
 <2>6. result' \in [V!Lists -> 0 .. 2] BY <2>1, <2>3, <2>5
 <2>7. WriterTyped' /\ TextTyped' /\ PlaceTyped'
   BY <1>2, <2>2 DEF WriterTyped, TextTyped, PlaceTyped, clear
 <2>8. LiteralTyped' BY <1>2, <2>1, <2>2, <2>6 DEF LiteralTyped
 <2> QED BY <2>7, <2>8, TypesThen
<1>14. ASSUME AnotherMessage PROVE MessageTypes'
 <2>1. WriterTyped'
  <3>1. <<>> \in Seq({"blank"}) /\ <<>> \in Seq(Char) OBVIOUS
  <3>2. /\ text' = <<>> /\ wire' = <<>> /\ signed' = <<>> /\ trailing' = <<>>
        /\ w_nl' = TRUE /\ w_cr' = FALSE /\ own' \in BOOLEAN /\ phase' = "write"
    BY <1>14 DEF AnotherMessage
  <3> QED BY <3>1, <3>2 DEF WriterTyped
 <2>2. TextTyped'
  <3>1. <<>> \in Seq(Char) /\ Len(<<>>) = 0 /\ <<>> \in Seq(Seq(Char)) OBVIOUS
  <3>2. body' = <<>> /\ bodies' = <<>> /\ r_hashed' = <<>> /\ r_nl' = TRUE /\ UNCHANGED <<use, data>>
    BY <1>14 DEF AnotherMessage
  <3> QED BY <1>2, <3>1, <3>2 DEF TextTyped
 <2>3. PlaceTyped'
  <3>1. wire' = <<>> /\ at' = 1 /\ state' = "text" /\ r_errors' = FALSE
    BY <1>14 DEF AnotherMessage
  <3>2. Len(wire') = 0 BY <3>1
  <3>3. at' \in Nat /\ 1 <= at' /\ at' <= Len(wire') + 1 BY <3>1, <3>2
  <3>4. r_errors' \in BOOLEAN /\ state' \in {"text", "trailer", "failed", "abort"} BY <3>1
  <3> QED BY <3>3, <3>4 DEF PlaceTyped
 <2>4. LiteralTyped'
  <3>1. <<>> \in Seq({"x", "nl"}) /\ <<>> \in Seq(Seq({"x", "nl"})) /\ Len(<<>>) = 0 OBVIOUS
  <3>2. /\ kind' \in {"cleartext", "literal"} /\ literal' = <<>> /\ pieces' = <<>> /\ later' = TRUE
        /\ judged' = Unjudged /\ UNCHANGED result
    BY <1>14 DEF AnotherMessage
  <3> QED BY <1>2, <3>1, <3>2 DEF LiteralTyped
 <2> QED BY <2>1, <2>2, <2>3, <2>4, TypesThen
<1> QED BY <1>1, <1>3, <1>4, <1>6, <1>7, <1>8, <1>9, <1>10, <1>11, <1>12, <1>13, <1>14, Steps

-----------------------------------------------------------------------------
(* What stays apart, and the verdict. *)

LEMMA FreshAnother == ASSUME AnotherMessage PROVE Fresh'
BY DEF AnotherMessage, Fresh, Untouched

LEMMA ApartKept ==
  ASSUME MessageInv, MessageNext PROVE Apart'
<1>1. MessageTypes /\ Apart BY DEF MessageInv
<1>2. ASSUME NEW c \in Char, Writes(c) PROVE Apart'
 <2>1. /\ phase' = "write" /\ kind' = "cleartext" /\ own' /\ w_nl' = (c = "nl") /\ w_cr' = (c = "cr")
       /\ Untouched /\ state = "text" /\ judged = Unjudged /\ literal = <<>> /\ pieces = <<>>
   BY <1>1, <1>2 DEF Apart, Writes, SameMessage
 <2>2. /\ Untouched' /\ state' = "text" /\ judged' = Unjudged /\ literal' = <<>> /\ pieces' = <<>>
   BY <1>2, <2>1 DEF Writes, SameMessage, SameReader, Untouched
 <2>3. Length' # 0 /\ text'[Length'] = c /\ Length' > 0
  <3>1. text \in Seq(Char) /\ text' = Append(text, c)
    BY <1>1, <1>2, TypesAre DEF WriterTyped, Writes
  <3> QED BY <3>1 DEF Length
 <2> QED BY <2>1, <2>2, <2>3 DEF Apart, EndsWith
<1>3. ASSUME TextEnds PROVE Apart'
 <2>1. trailing' = <<>> /\ phase' = "read" /\ kind' = "cleartext" /\ own'
       /\ UNCHANGED <<w_nl, w_cr, text, literal, pieces, own, kind>>
   BY <1>3 DEF TextEnds, SameMessage
 <2> QED BY <1>1, <2>1 DEF Apart, Length, EndsWith
<1>4. ASSUME Foreign PROVE Apart'
 <2>1. /\ UNCHANGED <<own, text, w_nl, w_cr, trailing, signed>> /\ SameReader /\ SameMessage
       /\ ~own /\ kind = "cleartext" /\ phase = "write"
   BY <1>4 DEF Foreign
 <2>2. /\ Untouched /\ state = "text" /\ judged = Unjudged /\ literal = <<>> /\ pieces = <<>>
   BY <1>1, <2>1 DEF Apart
 <2>3. /\ Untouched' /\ state' = "text" /\ judged' = Unjudged /\ literal' = <<>> /\ pieces' = <<>>
       /\ kind' = "cleartext" /\ ~own'
   BY <2>1, <2>2 DEF SameMessage, SameReader, Untouched
 <2> QED BY <1>1, <2>1, <2>3 DEF Apart
<1>5. ASSUME Reads PROVE Apart' BY <1>1, <1>5 DEF Reads, SameMessage, Apart, Length, EndsWith
<1>6. ASSUME WriteLiteral \/ TakesPiece \/ LiteralEnds PROVE Apart'
 <2>1. /\ UNCHANGED <<own, text, w_nl, w_cr, trailing, wire, signed, at, r_nl, body, r_hashed, bodies, r_errors, kind>>
       /\ state' \in {state, "trailer"} /\ kind = "literal" /\ phase' = "read"
   BY <1>6 DEF WriteLiteral, TakesPiece, LiteralEnds, clear
 <2>2. Untouched /\ Unwritten /\ state \in {"text", "trailer"} BY <1>1, <2>1 DEF Apart
 <2>3. Untouched' /\ Unwritten' /\ state' \in {"text", "trailer"} /\ kind' = "literal"
   BY <2>1, <2>2 DEF Untouched, Unwritten
 <2>4. ~own' => text' = <<>> /\ signed' = <<>> /\ trailing' = <<>> BY <2>3 DEF Unwritten
 <2> QED BY <2>1, <2>3, <2>4 DEF Apart
<1>7. ASSUME Judge PROVE Apart'
 <2>1. UNCHANGED <<clear, kind, literal, pieces>> /\ phase = "read"
   BY <1>7 DEF Judge, MessageEnded
 <2> QED BY <1>1, <2>1 DEF Apart, clear, Untouched, Unwritten, Length, EndsWith
<1>8. ASSUME AnotherMessage PROVE Apart' BY <1>8, FreshAnother, FreshThen
<1> QED
  BY <1>1, <1>2, <1>3, <1>4, <1>5, <1>6, <1>7, <1>8, Steps DEF ReadsPlain, ReadsEscaped,
     ReadsTrailer, ReadsNoMore

LEMMA JudgingKept ==
  ASSUME MessageInv, MessageNext PROVE Judging'
<1>1. MessageTypes /\ Judging BY DEF MessageInv
<1>2. ASSUME phase = "write" \/ state = "text", UNCHANGED <<later, judged, result>> PROVE Judging'
 <2>1. judged = Unjudged BY <1>1, <1>2 DEF Judging, MessageEnded
 <2> QED BY <1>1, <1>2, <2>1 DEF Judging, Unjudged
<1>3. ASSUME NEW c \in Char, Writes(c) PROVE Judging'
  BY <1>2, <1>3 DEF Writes, SameMessage, SameKept
<1>4. ASSUME TextEnds \/ Foreign PROVE Judging'
  BY <1>2, <1>4 DEF TextEnds, Foreign, SameMessage, SameKept
<1>5. ASSUME Reads, state = "text" PROVE Judging' BY <1>2, <1>5 DEF Reads, SameMessage
<1>6. ASSUME WriteLiteral \/ TakesPiece \/ LiteralEnds PROVE Judging'
  BY <1>2, <1>6 DEF WriteLiteral, TakesPiece, LiteralEnds
<1>7. ASSUME Judge PROVE Judging'
 <2>1. /\ judged' = V!Judged(sig') /\ judged' \in V!Lists
       /\ result' = [result EXCEPT ![judged'] = @ + 1]
   BY <1>1, <1>7, JudgeIs
 <2>2. /\ MessageEnded /\ judged = Unjudged /\ sig' \in Signatures /\ UNCHANGED <<clear, kind, literal, pieces, later>>
       /\ UNCHANGED data
   BY <1>7 DEF Judge, V!Signature
 <2>3. MessageEnded' /\ sig' \in Signatures'
   BY <2>2 DEF MessageEnded, Signatures, Best, Over, clear
 <2>4. judged' = (V!Judged(sig))' BY <2>1, <2>2 DEF V!Judged, V!Checked
 <2>5. judged' \in V!Lists /\ result \in [V!Lists -> 0 .. 2] /\ V!Lists = {"valid", "invalid", "unknown"}
   BY <1>1, <2>1, TypesAre DEF LiteralTyped, V!Lists
 <2>6. result'[judged'] > 0 BY <2>1, <2>5
 <2>7. result["valid"] + result["invalid"] + result["unknown"] = (IF later THEN 1 ELSE 0) + 0
   BY <1>1, <2>2 DEF Judging
 <2>8. judged' # Unjudged BY <2>5 DEF Unjudged
 <2>9. result'["valid"] + result'["invalid"] + result'["unknown"] = (IF later THEN 1 ELSE 0) + 1
   BY <2>1, <2>5, <2>7
 <2> QED BY <2>2, <2>3, <2>4, <2>6, <2>8, <2>9 DEF Judging
<1>8. ASSUME AnotherMessage PROVE Judging'
 <2>1. judged # Unjudged /\ ~later /\ later' = TRUE /\ judged' = Unjudged /\ UNCHANGED result
   BY <1>8 DEF AnotherMessage
 <2>2. result["valid"] + result["invalid"] + result["unknown"] = 0 + 1 BY <1>1, <2>1 DEF Judging
 <2>3. result'["valid"] + result'["invalid"] + result'["unknown"] = 1 + 0 BY <2>1, <2>2
 <2> QED BY <2>1, <2>3 DEF Judging
<1> QED
  BY <1>1, <1>3, <1>4, <1>5, <1>6, <1>7, <1>8, Steps DEF ReadsPlain, ReadsEscaped, ReadsTrailer,
     ReadsNoMore

-----------------------------------------------------------------------------
(* What was kept, and what the verifier hashes. *)

LEMMA KeepingSame ==
  ASSUME Keeping, UNCHANGED <<bodies, data, pieces, literal, kind>>, state' = state \/ kind = "cleartext"
  PROVE  Keeping'
BY DEF Keeping, Taken

LEMMA KeepingKept ==
  ASSUME MessageInv, MessageNext PROVE Keeping'
<1>1. MessageTypes /\ Apart /\ Keeping BY DEF MessageInv
<1>2. ASSUME NEW c \in Char, Writes(c) PROVE Keeping'
  BY <1>1, <1>2, KeepingSame DEF Writes, SameReader, SameMessage, SameKept
<1>3. ASSUME TextEnds \/ Foreign PROVE Keeping'
  BY <1>1, <1>3, KeepingSame DEF TextEnds, Foreign, SameReader, SameMessage, SameKept
<1>4. ASSUME NEW c \in Char, Takes(c), Reads PROVE Keeping'
 <2>1. pieces = <<>> /\ kind = "cleartext" /\ UNCHANGED <<pieces, literal, kind, state>>
   BY <1>1, <1>4 DEF Apart, Reads, SameMessage, Takes
 <2>2. CASE bodies' = bodies /\ data' = data BY <1>1, <2>1, <2>2, KeepingSame
 <2>3. ASSUME NEW b \in Seq(Char), bodies' = Append(bodies, b), data' = b PROVE Keeping'
  <3>1. bodies \in Seq(Seq(Char)) BY <1>1, TypesAre DEF TextTyped
  <3>2. data' = bodies'[Len(bodies')] BY <2>3, <3>1
  <3> QED BY <1>1, <2>1, <3>2 DEF Keeping, Taken
 <2>4. body \in Seq(Char) /\ Append(body, c) \in Seq(Char)
  <3>1. body \in Seq(Char) BY <1>1, TypesAre DEF TextTyped
  <3> QED BY <3>1
 <2>5. \/ bodies' = bodies /\ data' = data
       \/ bodies' = Append(bodies, body) /\ data' = body
       \/ bodies' = Append(bodies, Append(body, c)) /\ data' = Append(body, c)
   BY <1>4 DEF Takes
 <2> QED BY <2>2, <2>3, <2>4, <2>5
<1>5. ASSUME NEW h, ReadsPlain(h) \/ ReadsEscaped(h) \/ ReadsTrailer(h) PROVE Keeping'
 <2>1. CASE ReadsPlain(h)
  <3>1. wire[h] \in Char BY <1>1, <2>1, PlaceRead DEF ReadsPlain
  <3> QED BY <1>4, <2>1, <3>1 DEF ReadsPlain
 <2>2. CASE ReadsEscaped(h)
  <3>1. wire[h + 2] \in Char BY <1>1, <2>2, PlaceRead DEF ReadsEscaped
  <3> QED BY <1>4, <2>2, <3>1 DEF ReadsEscaped
 <2>3. CASE ReadsTrailer(h) BY <1>1, <2>3, KeepingSame DEF ReadsTrailer, Reads, SameMessage
 <2> QED BY <1>5, <2>1, <2>2, <2>3
<1>6. ASSUME ReadsNoMore PROVE Keeping'
  BY <1>1, <1>6, KeepingSame DEF ReadsNoMore, Reads, SameMessage
<1>7. ASSUME WriteLiteral PROVE Keeping'
 <2>1. /\ bodies = <<>> /\ pieces = <<>> /\ state = "text" /\ UNCHANGED <<bodies, pieces, state>>
   BY <1>1, <1>7 DEF WriteLiteral, Apart, Untouched
 <2>2. literal' \in Seq({"x", "nl"}) BY <1>7, TypesKept, TypesThen DEF LiteralTyped, MessageNext
 <2>3. Taken' = 0 /\ FlattenSeq(pieces') = <<>> BY <2>1, FlattenEmpty DEF Taken
 <2>4. SubSeq(literal', 1, 0) = <<>> /\ Len(literal') \in Nat BY <2>2
 <2>5. Taken' \in 0 .. Len(literal') /\ FlattenSeq(pieces') = SubSeq(literal', 1, Taken')
   BY <2>3, <2>4
 <2> QED BY <2>1, <2>5 DEF Keeping
<1>8. ASSUME TakesPiece PROVE Keeping'
 <2>1. /\ bodies = <<>> /\ state = "text" /\ UNCHANGED <<bodies, literal, state>>
       /\ pieces' = Append(pieces, Piece) /\ data' = Piece /\ Taken < Len(literal)
   BY <1>1, <1>8 DEF TakesPiece, Apart, Untouched, clear
 <2>2. /\ Taken \in 0 .. Len(literal) /\ FlattenSeq(pieces) = SubSeq(literal, 1, Taken)
       /\ literal \in Seq({"x", "nl"}) /\ pieces \in Seq(Seq({"x", "nl"}))
   BY <1>1, TypesAre DEF Keeping, LiteralTyped
 <2>3. Taken \in Nat BY <2>2
 <2> DEFINE p == Piece
            n == Taken
 <2>4. /\ p \in Seq({"x", "nl"}) /\ Len(p) \in 1 .. BodySize /\ n + Len(p) \in n .. Len(literal)
       /\ SubSeq(literal, 1, n) \o p = SubSeq(literal, 1, n + Len(p))
       /\ n = 0 /\ Len(literal) <= BodySize => p = literal
   BY <2>1, <2>2, <2>3, PieceIs
 <2> HIDE DEF p, n
 <2>5. pieces' = Append(pieces, p) /\ data' = p /\ FlattenSeq(pieces) = SubSeq(literal, 1, n) /\ n \in Nat
   BY <2>1, <2>2, <2>3 DEF p, n
 <2>6. FlattenSeq(pieces') = SubSeq(literal, 1, n + Len(p))
  <3>1. FlattenSeq(Append(pieces, p)) = FlattenSeq(pieces) \o p BY <2>2, <2>4, FlattenAppend
  <3> QED BY <2>4, <2>5, <3>1
 <2>7. Taken' = n + Len(p)
  <3>1. Len(SubSeq(literal, 1, n + Len(p))) = n + Len(p) BY <2>2, <2>4, <2>5
  <3> QED BY <2>6, <3>1 DEF Taken
 <2>8. pieces' # <<>> /\ pieces'[Len(pieces')] = p
  <3>1. pieces \in Seq(Seq({"x", "nl"})) /\ pieces' = Append(pieces, p) BY <2>2, <2>5
  <3>2. Len(pieces') = Len(pieces) + 1 /\ pieces'[Len(pieces) + 1] = p /\ Len(pieces) \in Nat
    BY <3>1
  <3> QED BY <3>2
 <2>9. ASSUME Len(literal) <= BodySize PROVE p = literal /\ n + Len(p) = Len(literal)
  <3>1. pieces = <<>> BY <1>1, <2>1, <2>9 DEF Keeping
  <3>2. n = 0 BY <3>1, FlattenEmpty DEF n, Taken
  <3> QED BY <2>2, <2>4, <2>9, <3>2
 <2>10. Taken' \in 0 .. Len(literal') BY <2>1, <2>4, <2>5, <2>7
 <2> QED BY <2>1, <2>5, <2>6, <2>7, <2>8, <2>9, <2>10 DEF Keeping
<1>9. ASSUME LiteralEnds PROVE Keeping'
 <2>1. UNCHANGED <<bodies, data, pieces, literal, kind>> /\ ~(Taken < Len(literal))
   BY <1>9 DEF LiteralEnds
 <2>2. Taken \in 0 .. Len(literal) /\ literal \in Seq({"x", "nl"})
   BY <1>1, TypesAre DEF Keeping, LiteralTyped
 <2>3. Taken = Len(literal) BY <2>1, <2>2
 <2> QED BY <1>1, <2>1, <2>3 DEF Keeping, Taken
<1>10. ASSUME Judge PROVE Keeping' BY <1>1, <1>10, KeepingSame DEF Judge, V!Signature, clear
<1>11. ASSUME AnotherMessage PROVE Keeping' BY <1>11, FreshAnother, FreshThen
<1> QED BY <1>1, <1>2, <1>3, <1>5, <1>6, <1>7, <1>8, <1>9, <1>10, <1>11, Steps

LEMMA LineEndNone ==
  ASSUME NEW s \in Seq(Char), \A i \in 1 .. Len(s) : s[i] # "nl" PROVE C!CRLF(s) = s
<1> DEFINE P(n) == SubSeq(s, 1, n)
           T == {n \in 0 .. Len(s) : C!CRLF(P(n)) # P(n)}
<1>1. ASSUME T # {} PROVE FALSE
 <2>1. T \subseteq Nat OBVIOUS
 <2> HIDE DEF P
 <2>2. PICK n \in T : \A m \in T : n <= m BY <1>1, <2>1, Smallest
 <2>3. n \in 0 .. Len(s) /\ C!CRLF(P(n)) # P(n) BY <2>2
 <2>4. n # 0
  <3>1. P(0) = <<>> BY DEF P
  <3> QED BY <2>3, <3>1, LineEndEmpty
 <2>5. n - 1 \in 0 .. Len(s) /\ n \in 1 .. Len(s) BY <2>3, <2>4
 <2>6. C!CRLF(P(n - 1)) = P(n - 1)
  <3>1. n - 1 \notin T BY <2>2, <2>5
  <3> QED BY <2>5, <3>1
 <2>7. P(n) = Append(P(n - 1), s[n]) /\ P(n - 1) \in Seq(Char) /\ s[n] \in Char
  <3>1. P(n) = P(n - 1) \o <<s[n]>> BY <2>5, SubSeqRecursiveSecond DEF P
  <3>2. P(n - 1) \in Seq(Char) /\ s[n] \in Char BY <2>5 DEF P
  <3> QED BY <3>1, <3>2, AppendIsConcat
 <2>8. C!CRLF(P(n)) = P(n - 1) \o <<s[n]>>
  <3>1. s[n] # "nl" BY <2>5
  <3>2. C!CRLF(Append(P(n - 1), s[n])) = C!CRLF(P(n - 1)) \o <<s[n]>>
    BY <2>7, <3>1, LineEndAppend
  <3> QED BY <2>6, <2>7, <3>2
 <2> QED BY <2>3, <2>7, <2>8, AppendIsConcat
<1>2. Len(s) \notin T BY <1>1
<1>3. P(Len(s)) = s BY SubSeqFull
<1> HIDE DEF P
<1>4. C!CRLF(P(Len(s))) = P(Len(s))
 <2>1. Len(s) \in 0 .. Len(s) OBVIOUS
 <2> QED BY <1>2, <2>1
<1> QED BY <1>3, <1>4

\* A body has a LF in front only.
LEMMA LineHashed ==
  ASSUME NEW s \in Seq(Char), s # <<>>, \A i \in 2 .. Len(s) : s[i] # "nl"
  PROVE  C!CRLF(s) = C!R!Hashed(s)
<1> DEFINE c == s[1]
           t == SubSeq(s, 2, Len(s))
<1>1. c \in Char /\ t \in Seq(Char) /\ Len(s) \in Nat /\ Len(s) >= 1 OBVIOUS
<1>2. \A i \in 1 .. Len(t) : t[i] # "nl"
 <2>1. Len(t) = Len(s) - 1
  <3>1. 2 \in Int /\ Len(s) \in Int /\ \A i \in 2 .. Len(s) : s[i] \in Char BY <1>1
  <3>2. Len(t) = IF 2 <= Len(s) THEN Len(s) - 2 + 1 ELSE 0 BY <3>1, SubSeqProperties
  <3> HIDE DEF t
  <3> QED BY <1>1, <3>2
 <2>2. \A i \in 1 .. Len(s) - 1 : t[i] = s[i + 1] /\ i + 1 \in 2 .. Len(s) BY <1>1
 <2> QED BY <2>1, <2>2
<1>3. s = <<c>> \o t
 <2>1. SubSeq(s, 1, Len(s)) = <<s[1]>> \o SubSeq(s, 1 + 1, Len(s)) BY <1>1, SubSeqRecursiveFirst
 <2>2. SubSeq(s, 1, Len(s)) = s BY SubSeqFull
 <2> QED BY <2>1, <2>2
<1> HIDE DEF c, t
<1>4. C!CRLF(t) = t BY <1>1, <1>2, LineEndNone
<1>5. C!CRLF(<<c>>) = IF c = "nl" THEN <<"cr", "nl">> ELSE <<c>>
 <2>1. <<>> \in Seq(Char) /\ Append(<<>>, c) = <<c>> BY <1>1
 <2>2. C!CRLF(Append(<<>>, c)) = C!CRLF(<<>>) \o (IF c = "nl" THEN <<"cr", "nl">> ELSE <<c>>)
   BY <1>1, <2>1, LineEndAppend
 <2>3. (IF c = "nl" THEN <<"cr", "nl">> ELSE <<c>>) \in Seq(Char) BY <1>1, CharsAre
 <2> QED BY <2>1, <2>2, <2>3, LineEndEmpty, ConcatEmptySeq
<1>6. C!CRLF(s) = C!CRLF(<<c>>) \o t
 <2>1. <<c>> \in Seq(Char) BY <1>1
 <2> QED BY <1>1, <1>3, <1>4, <2>1, LineEndConcat
<1>7. CASE c = "nl"
 <2>1. C!CRLF(s) = <<"cr", "nl">> \o t BY <1>5, <1>6, <1>7
 <2>2. <<"cr", "nl">> = <<"cr">> \o <<"nl">> /\ <<"cr">> \in Seq(Char) /\ <<"nl">> \in Seq(Char)
   BY CharsAre
 <2>3. C!CRLF(s) = <<"cr">> \o (<<"nl">> \o t) BY <1>1, <2>1, <2>2, Associates
 <2>4. C!CRLF(s) = <<"cr">> \o s BY <1>3, <1>7, <2>3
 <2> QED BY <1>7, <2>4 DEF C!R!Hashed, c
<1>8. CASE c # "nl" BY <1>3, <1>5, <1>6, <1>8 DEF C!R!Hashed, c
<1> QED BY <1>7, <1>8

LEMMA HashingKept ==
  ASSUME MessageInv, MessageNext PROVE Hashing'
<1>1. MessageTypes /\ Hashing /\ TextTyped BY TypesAre DEF MessageInv
<1>2. ASSUME UNCHANGED <<bodies, r_hashed>> PROVE Hashing' BY <1>1, <1>2 DEF Hashing
<1>3. ASSUME NEW c \in Char, Takes(c) PROVE Hashing'
 <2>1. CASE c = "nl" /\ body # <<>>
  <3>1. r_hashed' = r_hashed \o C!R!Hashed(body) /\ bodies' = Append(bodies, body)
    BY <1>3, <2>1 DEF Takes
  <3>2. body \in Seq(Char) /\ bodies \in Seq(Seq(Char)) /\ r_hashed \in Seq(Char)
    BY <1>1 DEF TextTyped
  <3>3. C!R!Hashed(body) = C!CRLF(body) BY <1>1, <2>1, <3>2, LineHashed DEF TextTyped
  <3> SUFFICES ASSUME \A i \in 1 .. Len(bodies') : Len(bodies'[i]) < BodySize
               PROVE  r_hashed' = C!CRLF(FlattenSeq(bodies'))
    BY DEF Hashing
  <3>4. \A i \in 1 .. Len(bodies) : Len(bodies[i]) < BodySize BY <3>1, <3>2
  <3>5. r_hashed = C!CRLF(FlattenSeq(bodies)) BY <1>1, <3>4 DEF Hashing
  <3>6. FlattenSeq(bodies) \in Seq(Char) /\ FlattenSeq(bodies') = FlattenSeq(bodies) \o body
    BY <3>1, <3>2, FlattenType, FlattenAppend
  <3>7. C!CRLF(FlattenSeq(bodies) \o body) = C!CRLF(FlattenSeq(bodies)) \o C!CRLF(body)
    BY <3>2, <3>6, LineEndConcat
  <3> QED BY <3>1, <3>3, <3>5, <3>6, <3>7
 <2>2. CASE ~(c = "nl" /\ body # <<>>) /\ Len(body) + 1 = BodySize
  <3> DEFINE b == Append(body, c)
  <3>1. body \in Seq(Char) /\ bodies \in Seq(Seq(Char)) BY <1>1 DEF TextTyped
  <3>2. b \in Seq(Char) /\ Len(b) = BodySize BY <2>2, <3>1
  <3> HIDE DEF b
  <3>3. bodies' = Append(bodies, b) BY <1>3, <2>2 DEF Takes, b
  <3>4. Len(bodies') \in 1 .. Len(bodies') /\ bodies'[Len(bodies')] = b BY <3>1, <3>2, <3>3
  <3>5. ~(Len(bodies'[Len(bodies')]) < BodySize) BY <3>2, <3>4
  <3> QED BY <3>4, <3>5 DEF Hashing
 <2>3. CASE ~(c = "nl" /\ body # <<>>) /\ Len(body) + 1 # BodySize BY <1>2, <1>3, <2>3 DEF Takes
 <2> QED BY <2>1, <2>2, <2>3
<1>4. ASSUME NEW h, ReadsPlain(h) \/ ReadsEscaped(h) \/ ReadsTrailer(h) PROVE Hashing'
 <2>1. CASE ReadsPlain(h)
  <3>1. wire[h] \in Char BY <1>1, <2>1, PlaceRead DEF ReadsPlain
  <3> QED BY <1>3, <2>1, <3>1 DEF ReadsPlain
 <2>2. CASE ReadsEscaped(h)
  <3>1. wire[h + 2] \in Char BY <1>1, <2>2, PlaceRead DEF ReadsEscaped
  <3> QED BY <1>3, <2>2, <3>1 DEF ReadsEscaped
 <2>3. CASE ReadsTrailer(h) BY <1>2, <2>3 DEF ReadsTrailer
 <2> QED BY <1>4, <2>1, <2>2, <2>3
<1>5. ASSUME (\E c \in Char : Writes(c)) \/ TextEnds \/ Foreign PROVE Hashing'
  BY <1>2, <1>5 DEF Writes, TextEnds, Foreign, SameReader
<1>6. ASSUME ReadsNoMore \/ WriteLiteral \/ TakesPiece \/ LiteralEnds \/ Judge PROVE Hashing'
  BY <1>2, <1>6 DEF ReadsNoMore, WriteLiteral, TakesPiece, LiteralEnds, Judge, clear
<1>7. ASSUME AnotherMessage PROVE Hashing' BY <1>7, FreshAnother, FreshThen
<1> QED BY <1>1, <1>4, <1>5, <1>6, <1>7, Steps

-----------------------------------------------------------------------------
(* What is signed. *)

LEMMA LineEndIs == <<"cr">> \o <<"nl">> = <<"cr", "nl">>
<1> DEFINE s == <<"cr">> \o <<"nl">>
           t == <<"cr", "nl">>
<1>1. s \in Seq(Char) /\ Len(s) = 2 /\ s[1] = "cr" /\ s[2] = "nl" BY CharsAre
<1>2. t \in Seq(Char) /\ Len(t) = 2 /\ t[1] = "cr" /\ t[2] = "nl" BY CharsAre
<1> HIDE DEF s, t
<1>3. \A i \in 1 .. 2 : s[i] = t[i] BY <1>1, <1>2
<1>4. s = t BY <1>1, <1>2, <1>3, SeqEqual
<1> QED BY <1>4 DEF s, t

LEMMA TextGrows ==
  ASSUME MessageTypes, NEW c \in Char, Writes(c)
  PROVE  /\ Length \in Nat /\ Length' = Length + 1 /\ text'[Length'] = c
         /\ \A i \in 1 .. Length : text'[i] = text[i]
         /\ \A d : EndsWith(d)' <=> d = c
         /\ NoLoneCRYet' => NoLoneCRYet /\ (EndsWith("cr") => c = "nl")
         /\ OneLineYet' <=> OneLineYet /\ c \notin {"cr", "nl"}
<1>1. text \in Seq(Char) /\ text' = Append(text, c) BY TypesAre DEF WriterTyped, Writes
<1>2. Length \in Nat /\ Length' = Length + 1 /\ text'[Length'] = c /\ \A i \in 1 .. Length : text'[i] = text[i]
  BY <1>1 DEF Length
<1>3. \A d : EndsWith(d)' <=> d = c BY <1>2 DEF EndsWith
<1>4. ASSUME NoLoneCRYet' PROVE NoLoneCRYet /\ (EndsWith("cr") => c = "nl")
 <2>1. \A i \in 1 .. Length : text'[i] = "cr" => text'[i + 1] = "nl"
   BY <1>2, <1>4 DEF NoLoneCRYet
 <2>2. NoLoneCRYet
  <3> SUFFICES ASSUME NEW i \in 1 .. Length - 1, text[i] = "cr" PROVE text[i + 1] = "nl"
    BY DEF NoLoneCRYet
  <3>1. i \in 1 .. Length /\ i + 1 \in 1 .. Length BY <1>2
  <3> QED BY <1>2, <2>1, <3>1
 <2>3. ASSUME EndsWith("cr") PROVE c = "nl"
  <3>1. Length \in 1 .. Length /\ text[Length] = "cr" BY <1>2, <2>3 DEF EndsWith
  <3> QED BY <1>2, <2>1, <3>1
 <2> QED BY <2>2, <2>3
<1>5. OneLineYet' <=> OneLineYet /\ c \notin {"cr", "nl"}
 <2>1. OneLineYet' <=> \A i \in 1 .. Length + 1 : text'[i] \notin {"cr", "nl"}
   BY <1>2 DEF OneLineYet
 <2>2. (\A i \in 1 .. Length + 1 : text'[i] \notin {"cr", "nl"})
         <=> (\A i \in 1 .. Length : text'[i] \notin {"cr", "nl"}) /\ text'[Length + 1] \notin {"cr", "nl"}
   BY <1>2
 <2> QED BY <1>2, <2>1, <2>2 DEF OneLineYet
<1> QED BY <1>2, <1>3, <1>4, <1>5

\* Characters that are not held back go behind those that were.
LEMMA SignedNow ==
  ASSUME MessageTypes, Apart, NEW c \in Char, Writes(c)
  PROVE  /\ signed \in Seq(Char) /\ trailing \in Seq(Char) /\ signed' \in Seq(Char)
         /\ c = "blank" => signed' = signed /\ trailing' = Append(trailing, c)
         /\ c = "cr" => signed' = Append(signed, c) /\ trailing' = <<>>
         /\ c = "nl" => /\ signed' = (IF EndsWith("cr") THEN signed ELSE Append(signed, "cr")) \o <<c>>
                        /\ trailing' = <<>>
         /\ c \in {"-", "x"} => signed' = Append(signed \o trailing, c) /\ trailing' = <<>>
<1>1. /\ signed' = signed \o C!W!LineEnd(c) \o (IF c = "blank" THEN <<>> ELSE C!W!Held(c) \o <<c>>)
      /\ trailing' = IF c = "blank" THEN Append(trailing, c) ELSE <<>>
  BY DEF Writes
<1>2. signed \in Seq(Char) /\ signed' \in Seq(Char) /\ "cr" \in Char
  BY TypesAre, TypesWritten, CharsAre DEF WriterTyped
<1>3. trailing \in Seq(Char)
 <2>1. trailing \in Seq({"blank"}) /\ {"blank"} \subseteq Char
   BY TypesAre, CharsAre DEF WriterTyped
 <2> QED BY <2>1, SeqMonotonic
<1>4. w_cr <=> EndsWith("cr") BY DEF Apart, Writes
<1>5. CASE c = "blank"
 <2>1. C!W!LineEnd(c) = <<>> BY <1>5 DEF C!W!LineEnd
 <2>2. signed' = (signed \o <<>>) \o <<>> BY <1>1, <1>5, <2>1
 <2>3. signed' = signed BY <1>2, <2>2, ConcatEmptySeq
 <2> QED BY <1>1, <1>2, <1>3, <1>5, <2>3
<1>6. CASE c = "cr"
 <2>1. C!W!LineEnd(c) = <<>> /\ C!W!Held(c) = <<>> /\ <<c>> \in Seq(Char)
   BY <1>6 DEF C!W!LineEnd, C!W!Held
 <2>2. signed' = (signed \o <<>>) \o (<<>> \o <<c>>) BY <1>1, <1>6, <2>1
 <2>3. signed' = signed \o <<c>> BY <1>2, <2>1, <2>2, ConcatEmptySeq
 <2> QED BY <1>1, <1>2, <1>3, <1>6, <2>3, AppendIsConcat
<1>7. CASE c = "nl"
 <2>1. C!W!LineEnd(c) = (IF EndsWith("cr") THEN <<>> ELSE <<"cr">>) /\ C!W!Held(c) = <<>> /\ <<c>> \in Seq(Char)
   BY <1>4, <1>7 DEF C!W!LineEnd, C!W!Held
 <2>2. signed' = (signed \o (IF EndsWith("cr") THEN <<>> ELSE <<"cr">>)) \o (<<>> \o <<c>>)
   BY <1>1, <1>7, <2>1
 <2>3. <<>> \o <<c>> = <<c>> BY <2>1, ConcatEmptySeq
 <2>4. signed \o <<>> = signed /\ signed \o <<"cr">> = Append(signed, "cr")
   BY <1>2, ConcatEmptySeq, AppendIsConcat
 <2> QED BY <1>1, <1>2, <1>3, <1>7, <2>2, <2>3, <2>4
<1>8. CASE c \in {"-", "x"}
 <2>1. C!W!LineEnd(c) = <<>> /\ C!W!Held(c) = trailing /\ <<c>> \in Seq(Char)
   BY <1>8 DEF C!W!LineEnd, C!W!Held
 <2>2. signed' = (signed \o <<>>) \o (trailing \o <<c>>) BY <1>1, <1>8, <2>1
 <2>3. signed' = (signed \o trailing) \o <<c>>
   BY <1>2, <1>3, <2>1, <2>2, ConcatEmptySeq, Associates
 <2>4. signed \o trailing \in Seq(Char) BY <1>2, <1>3
 <2> QED BY <1>1, <1>2, <1>3, <1>8, <2>3, <2>4, AppendIsConcat
<1> QED BY <1>2, <1>3, <1>5, <1>6, <1>7, <1>8

LEMMA SigningWritten ==
  ASSUME MessageInv, NEW c \in Char, Writes(c) PROVE Signing'
<1>1. MessageTypes /\ Apart /\ Signing BY DEF MessageInv
<1>2. /\ Length \in Nat /\ Length' = Length + 1 /\ text'[Length'] = c
      /\ \A d : EndsWith(d)' <=> d = c
      /\ NoLoneCRYet' => NoLoneCRYet /\ (EndsWith("cr") => c = "nl")
      /\ OneLineYet' <=> OneLineYet /\ c \notin {"cr", "nl"}
  BY <1>1, TextGrows
<1>3. /\ signed \in Seq(Char) /\ trailing \in Seq(Char) /\ signed' \in Seq(Char)
      /\ c = "blank" => signed' = signed /\ trailing' = Append(trailing, c)
      /\ c = "cr" => signed' = Append(signed, c) /\ trailing' = <<>>
      /\ c = "nl" => /\ signed' = (IF EndsWith("cr") THEN signed ELSE Append(signed, "cr")) \o <<c>>
                     /\ trailing' = <<>>
      /\ c \in {"-", "x"} => signed' = Append(signed \o trailing, c) /\ trailing' = <<>>
  BY <1>1, SignedNow
<1>4. own /\ phase = "write" /\ phase' = "write" /\ text' = Append(text, c) /\ text \in Seq(Char)
  BY <1>1, TypesAre DEF Writes, WriterTyped
<1>5. c \in {"-", "blank", "cr", "nl", "x"} BY CharsAre
<1> DEFINE now == C!Canonical(text)
           new == C!Canonical(text')
           old == Pending(text)
           yet == Pending(text')
<1>6. /\ c = "blank" => new = now /\ yet = Append(old, c)
      /\ c = "cr" => new = now /\ yet = now
      /\ c = "nl" => new = now \o <<"cr", "nl">> /\ yet = now \o <<"cr", "nl">>
      /\ c \in {"-", "x"} => new = Append(old, c) /\ yet = Append(old, c)
      /\ now \in Seq(Char) /\ old \in Seq(Char)
  BY <1>4, CanonicalAppend
<1>7. /\ NoLoneCRYet => signed = now \o (IF EndsWith("cr") THEN <<"cr">> ELSE <<>>)
      /\ NoLoneCRYet /\ ~EndsWith("cr") => signed \o trailing = old
      /\ trailing # <<>> => EndsWith("blank")
      /\ ~OneLineYet => \E j \in 1 .. Len(signed) : signed[j] = "cr"
      /\ OneLineYet => signed \o trailing = text
  BY <1>1, <1>4 DEF Signing
<1> HIDE DEF now, new, old, yet
<1>8. ASSUME NoLoneCRYet'
      PROVE  /\ signed' = new \o (IF c = "cr" THEN <<"cr">> ELSE <<>>)
             /\ c # "cr" => signed' \o trailing' = yet
 <2>1. NoLoneCRYet /\ (EndsWith("cr") => c = "nl") BY <1>2, <1>8
 <2>2. ~EndsWith("cr") => signed = now /\ signed \o trailing = old
   BY <1>6, <1>7, <2>1, ConcatEmptySeq
 <2>3. CASE c = "blank"
  <3>1. signed = now /\ signed \o trailing = old /\ signed' = signed /\ trailing' = Append(trailing, c)
    BY <1>3, <2>1, <2>2, <2>3
  <3>2. signed \o Append(trailing, c) = Append(signed \o trailing, c)
   <4>1. <<c>> \in Seq(Char) /\ signed \o trailing \in Seq(Char) BY <1>3
   <4>2. signed \o (trailing \o <<c>>) = (signed \o trailing) \o <<c>>
     BY <1>3, <4>1, Associates
   <4> QED BY <1>3, <4>1, <4>2, AppendIsConcat
  <3>3. new \o <<>> = new BY <1>6, <2>3, ConcatEmptySeq
  <3> QED BY <1>6, <2>3, <3>1, <3>2, <3>3
 <2>4. CASE c = "cr"
  <3>1. signed = now /\ signed' = Append(signed, c) BY <1>3, <2>1, <2>2, <2>4
  <3> QED BY <1>3, <1>6, <2>4, <3>1, AppendIsConcat
 <2>5. CASE c = "nl"
  <3>1. (IF EndsWith("cr") THEN signed ELSE Append(signed, "cr")) = now \o <<"cr">>
   <4>1. CASE EndsWith("cr") BY <1>7, <2>1, <4>1
   <4>2. CASE ~EndsWith("cr") BY <1>6, <2>2, <4>2, CharsAre, AppendIsConcat
   <4> QED BY <4>1, <4>2
  <3>2. signed' = (now \o <<"cr">>) \o <<"nl">> BY <1>3, <2>5, <3>1
  <3>3. (now \o <<"cr">>) \o <<"nl">> = now \o (<<"cr">> \o <<"nl">>)
    BY <1>6, CharsAre, Associates
  <3>4. <<"cr">> \o <<"nl">> = <<"cr", "nl">> BY LineEndIs
  <3>5. signed' = now \o <<"cr", "nl">> BY <3>2, <3>3, <3>4
  <3>6. signed' \o <<>> = signed' BY <1>3, ConcatEmptySeq
  <3> QED BY <1>3, <1>6, <2>5, <3>5, <3>6
 <2>6. CASE c \in {"-", "x"}
  <3>1. signed' = Append(old, c) /\ trailing' = <<>> BY <1>3, <2>1, <2>2, <2>6
  <3>2. signed' \o <<>> = signed' BY <1>3, ConcatEmptySeq
  <3> QED BY <1>6, <2>6, <3>1, <3>2
 <2> QED BY <1>5, <2>3, <2>4, <2>5, <2>6
<1>9. trailing' # <<>> => c = "blank" BY <1>3, <1>5
<1>10. ASSUME ~OneLineYet' PROVE \E j \in 1 .. Len(signed') : signed'[j] = "cr"
 <2>1. Len(signed) \in Nat /\ Len(signed') \in Nat BY <1>3
 <2>2. CASE ~OneLineYet
  <3>1. PICK j \in 1 .. Len(signed) : signed[j] = "cr" BY <1>7, <2>2
  <3>2. \E t \in Seq(Char) : signed' = signed \o t
   <4>1. CASE c = "blank" BY <1>3, <4>1, ConcatEmptySeq, CharsAre
   <4>2. CASE c = "cr" BY <1>3, <4>2, AppendIsConcat, CharsAre
   <4>3. CASE c = "nl"
    <5>1. (signed \o <<"cr">>) \o <<"nl">> = signed \o (<<"cr">> \o <<"nl">>)
      BY <1>3, CharsAre, Associates, SMTT(30)
    <5>2. Append(signed, "cr") = signed \o <<"cr">> BY <1>3, CharsAre, AppendIsConcat
    <5>3. signed' = signed \o <<"nl">> \/ signed' = signed \o (<<"cr">> \o <<"nl">>)
      BY <1>3, <4>3, <5>1, <5>2
    <5>4. <<"cr">> \o <<"nl">> \in Seq(Char) /\ <<"nl">> \in Seq(Char) BY CharsAre
    <5> QED BY <5>3, <5>4
   <4>4. CASE c \in {"-", "x"}
    <5>1. <<c>> \in Seq(Char) /\ signed \o trailing \in Seq(Char) /\ trailing \o <<c>> \in Seq(Char)
          /\ signed \in Seq(Char) /\ trailing \in Seq(Char)
      BY <1>3
    <5>2. Append(signed \o trailing, c) = (signed \o trailing) \o <<c>>
      BY <5>1, AppendIsConcat
    <5>3. (signed \o trailing) \o <<c>> = signed \o (trailing \o <<c>>) BY <5>1, Associates
    <5>4. signed' = signed \o (trailing \o <<c>>) BY <1>3, <4>4, <5>2, <5>3
    <5> QED BY <5>1, <5>4
   <4> QED BY <1>5, <4>1, <4>2, <4>3, <4>4
  <3>3. PICK t \in Seq(Char) : signed' = signed \o t BY <3>2
  <3>4. j \in 1 .. Len(signed') /\ signed'[j] = signed[j] BY <1>3, <3>3
  <3> QED BY <3>1, <3>4
 <2>3. CASE OneLineYet
  <3>1. c \in {"cr", "nl"} BY <1>2, <1>10, <2>3
  <3>2. ~EndsWith("cr")
   <4>1. ASSUME EndsWith("cr") PROVE FALSE
    <5>1. Length \in 1 .. Length /\ text[Length] = "cr" BY <1>2, <4>1 DEF EndsWith
    <5> QED BY <2>3, <5>1 DEF OneLineYet
   <4> QED BY <4>1
  <3> DEFINE s == Append(signed, "cr")
  <3>3. s \in Seq(Char) /\ Len(s) = Len(signed) + 1 /\ s[Len(signed) + 1] = "cr"
    BY <1>3, CharsAre
  <3>4. \/ signed' = s
        \/ signed' = s \o <<"nl">>
    BY <1>3, <3>1, <3>2
  <3> HIDE DEF s
  <3>5. Len(signed) + 1 \in 1 .. Len(signed') /\ signed'[Len(signed) + 1] = "cr"
   <4>1. CASE signed' = s BY <2>1, <3>3, <4>1
   <4>2. CASE signed' = s \o <<"nl">> BY <2>1, <3>3, <4>2, CharsAre
   <4> QED BY <3>4, <4>1, <4>2
  <3> QED BY <3>5
 <2> QED BY <2>2, <2>3
<1>11. ASSUME OneLineYet' PROVE signed' \o trailing' = text'
 <2>1. signed \o trailing = text /\ c \in {"-", "blank", "x"} BY <1>2, <1>5, <1>7, <1>11
 <2>2. CASE c = "blank"
  <3>1. signed' \o trailing' = signed \o Append(trailing, c) BY <1>3, <2>2
  <3>2. signed \o (trailing \o <<c>>) = (signed \o trailing) \o <<c>> /\ <<c>> \in Seq(Char)
    BY <1>3, Associates
  <3>3. Append(trailing, c) = trailing \o <<c>> /\ Append(text, c) = text \o <<c>>
    BY <1>3, <1>4, AppendIsConcat
  <3> QED BY <1>4, <2>1, <3>1, <3>2, <3>3
 <2>3. CASE c \in {"-", "x"}
  <3>1. signed' = text' /\ trailing' = <<>> BY <1>3, <1>4, <2>1, <2>3
  <3> QED BY <1>3, <3>1, ConcatEmptySeq
 <2> QED BY <2>1, <2>2, <2>3
<1>12. phase' # "read" /\ (\A d : EndsWith(d)' <=> d = c) BY <1>2, <1>4
<1> QED BY <1>8, <1>9, <1>10, <1>11, <1>12 DEF Signing, new, yet

LEMMA SigningKept ==
  ASSUME MessageInv, MessageNext PROVE Signing'
<1>1. MessageTypes /\ Apart /\ Signing BY DEF MessageInv
<1>2. ASSUME UNCHANGED <<own, text, signed, trailing, phase>> PROVE Signing'
  BY <1>1, <1>2 DEF Signing, NoLoneCRYet, OneLineYet, EndsWith, Length
<1>3. ASSUME TextEnds PROVE Signing'
 <2>1. own /\ phase = "write" /\ phase' = "read" /\ trailing' = <<>> /\ UNCHANGED <<own, text, signed>>
   BY <1>3 DEF TextEnds
 <2>2. UNCHANGED <<NoLoneCRYet, OneLineYet, EndsWith("cr"), C!Canonical(text), C!EndBlanks(text)>>
   BY <2>1 DEF NoLoneCRYet, OneLineYet, EndsWith, Length
 <2>3. ASSUME OneLineYet, C!EndBlanks(text) = {} PROVE signed = text
  <3>1. signed \o trailing = text /\ signed \in Seq(Char) /\ (trailing # <<>> => EndsWith("blank"))
    BY <1>1, <2>1, <2>3, TypesAre DEF Signing, WriterTyped
  <3>2. ASSUME EndsWith("blank") PROVE FALSE
   <4>1. text \in Seq(Char) BY <1>1, TypesAre DEF WriterTyped
   <4>2. Length \in 1 .. Len(text) /\ text[Length] = "blank" /\ Length = Len(text) /\ Len(text) \in Nat
     BY <3>2, <4>1 DEF EndsWith, Length
   <4>3. Length \in C!EndBlanks(text)
    <5>1. Length \in Length .. Len(text) /\ \A k \in Length .. Length : text[k] = "blank"
      BY <4>2
    <5> QED BY <4>2, <5>1 DEF C!EndBlanks
   <4> QED BY <2>3, <4>3
  <3>3. signed \o <<>> = signed BY <3>1, ConcatEmptySeq
  <3> QED BY <3>1, <3>2, <3>3
 <2> QED BY <1>1, <2>1, <2>2, <2>3 DEF Signing
<1>4. ASSUME Foreign PROVE Signing' BY <1>4 DEF Foreign, Signing
<1>5. ASSUME Reads PROVE Signing' BY <1>2, <1>5 DEF Reads
<1>6. ASSUME WriteLiteral \/ TakesPiece \/ LiteralEnds PROVE Signing'
 <2>1. text = <<>> /\ signed = <<>> /\ trailing = <<>> /\ UNCHANGED <<text, signed, trailing>>
   BY <1>1, <1>6 DEF WriteLiteral, TakesPiece, LiteralEnds, clear, Apart, Unwritten
 <2> QED BY <2>1, SigningNothingThen DEF NothingSigned
<1>7. ASSUME Judge PROVE Signing' BY <1>2, <1>7 DEF Judge, clear
<1>8. ASSUME AnotherMessage PROVE Signing' BY <1>8, FreshAnother, FreshThen
<1> QED
  BY <1>1, <1>3, <1>4, <1>5, <1>6, <1>7, <1>8, Steps, SigningWritten DEF ReadsPlain, ReadsEscaped,
     ReadsTrailer, ReadsNoMore

-----------------------------------------------------------------------------
(* Where the characters of a text are, while it is written. *)

\* What is in front stays there, what comes is behind it.
LEMMA WireGrows ==
  ASSUME NEW w \in Seq(Char), NEW a \in Seq(Char)
  PROVE  /\ Len(w) \in Nat /\ Len(a) \in Nat /\ Len(w \o a) = Len(w) + Len(a)
         /\ \A i \in 1 .. Len(w) : (w \o a)[i] = w[i]
         /\ \A i \in 1 .. Len(a) : (w \o a)[Len(w) + i] = a[i]
<1>1. /\ Len(w \o a) = Len(w) + Len(a) /\ Len(w) \in Nat /\ Len(a) \in Nat
      /\ \A i \in 1 .. Len(w) : (w \o a)[i] = w[i]
  OBVIOUS
<1>2. ASSUME NEW i \in 1 .. Len(a) PROVE (w \o a)[Len(w) + i] = a[i]
 <2>1. Len(w) + i \in 1 .. Len(w) + Len(a) /\ ~(Len(w) + i <= Len(w)) /\ Len(w) + i - Len(w) = i
   BY <1>1
 <2>2. (w \o a)[Len(w) + i] = IF Len(w) + i <= Len(w) THEN w[Len(w) + i] ELSE a[Len(w) + i - Len(w)]
   BY <2>1, ConcatProperties
 <2> QED BY <2>1, <2>2
<1> QED BY <1>1, <1>2

\* What Escape, LineEnd and the character itself put on the wire.
LEMMA WireNow ==
  ASSUME MessageTypes, Apart, NEW c \in Char, Writes(c)
  PROVE  /\ Len(wire) \in Nat /\ \A i \in 1 .. Len(wire) : wire'[i] = wire[i]
         /\ w_nl /\ c = "-" =>
              /\ Len(wire') = Len(wire) + 3 /\ wire'[Len(wire) + 1] = "-"
              /\ wire'[Len(wire) + 2] = "blank" /\ wire'[Len(wire) + 3] = c
         /\ ~w_cr /\ c = "nl" =>
              Len(wire') = Len(wire) + 2 /\ wire'[Len(wire) + 1] = "cr" /\ wire'[Len(wire) + 2] = c
         /\ ~(w_nl /\ c = "-") /\ ~(~w_cr /\ c = "nl") =>
              Len(wire') = Len(wire) + 1 /\ wire'[Len(wire) + 1] = c
<1>1. wire \in Seq(Char) /\ <<c>> \in Seq(Char) /\ <<>> \in Seq(Char) BY TypesAre DEF WriterTyped
<1>2. wire' = wire \o C!W!Escape(c) \o C!W!LineEnd(c) \o <<c>> BY DEF Writes
<1>3. CASE w_nl /\ c = "-"
 <2>1. C!W!Escape(c) = <<"-", "blank">> /\ C!W!LineEnd(c) = <<>>
   BY <1>3 DEF C!W!Escape, C!W!LineEnd
 <2> DEFINE e == <<"-", "blank">>
 <2>2. e \in Seq(Char) /\ Len(e) = 2 /\ e[1] = "-" /\ e[2] = "blank" BY CharsAre
 <2> HIDE DEF e
 <2>3. wire' = ((wire \o e) \o <<>>) \o <<c>> BY <1>2, <2>1 DEF e
 <2>4. wire' = (wire \o e) \o <<c>> /\ wire \o e \in Seq(Char)
   BY <1>1, <2>2, <2>3, ConcatEmptySeq
 <2>5. /\ Len(wire \o e) = Len(wire) + 2 /\ \A i \in 1 .. Len(wire) : (wire \o e)[i] = wire[i]
       /\ (wire \o e)[Len(wire) + 1] = "-" /\ (wire \o e)[Len(wire) + 2] = "blank"
  <3>1. /\ Len(wire \o e) = Len(wire) + Len(e) /\ \A i \in 1 .. Len(wire) : (wire \o e)[i] = wire[i]
        /\ \A i \in 1 .. Len(e) : (wire \o e)[Len(wire) + i] = e[i]
    BY <1>1, <2>2, WireGrows
  <3> QED BY <2>2, <3>1
 <2> DEFINE f == wire \o e
 <2> HIDE DEF f
 <2>6. wire' = f \o <<c>> /\ f \in Seq(Char) /\ Len(f) = Len(wire) + 2 /\ \A i \in 1 .. Len(wire) : f[i] = wire[i]
   BY <2>4, <2>5 DEF f
 <2>7. f[Len(wire) + 1] = "-" /\ f[Len(wire) + 2] = "blank" /\ Len(wire) \in Nat
   BY <1>1, <2>5 DEF f
 <2>8. Len(wire') = Len(wire) + 3 /\ wire'[Len(wire) + 3] = c /\ \A i \in 1 .. Len(wire) + 2 : wire'[i] = f[i]
   BY <1>1, <2>6, <2>7
 <2>9. Len(wire) + 1 \in 1 .. Len(wire) + 2 /\ Len(wire) + 2 \in 1 .. Len(wire) + 2
       /\ \A i \in 1 .. Len(wire) : i \in 1 .. Len(wire) + 2
   BY <2>7
 <2> QED BY <1>3, <2>6, <2>7, <2>8, <2>9
<1>4. CASE ~w_cr /\ c = "nl"
 <2>1. C!W!Escape(c) = <<>> /\ C!W!LineEnd(c) = <<"cr">> BY <1>4 DEF C!W!Escape, C!W!LineEnd
 <2>2. wire' = ((wire \o <<>>) \o <<"cr">>) \o <<c>> BY <1>2, <2>1
 <2> DEFINE f == wire \o <<"cr">>
 <2>3. wire' = f \o <<c>> BY <1>1, <2>2, ConcatEmptySeq
 <2>4. f \in Seq(Char) /\ Len(f) = Len(wire) + 1 /\ f[Len(wire) + 1] = "cr" /\ Len(wire) \in Nat
       /\ \A i \in 1 .. Len(wire) : f[i] = wire[i]
   BY <1>1, CharsAre
 <2> HIDE DEF f
 <2>5. Len(wire') = Len(wire) + 2 /\ wire'[Len(wire) + 2] = c /\ \A i \in 1 .. Len(wire) + 1 : wire'[i] = f[i]
   BY <1>1, <2>3, <2>4
 <2>6. Len(wire) + 1 \in 1 .. Len(wire) + 1 /\ \A i \in 1 .. Len(wire) : i \in 1 .. Len(wire) + 1
   BY <2>4
 <2> QED BY <1>4, <2>4, <2>5, <2>6
<1>5. CASE ~(w_nl /\ c = "-") /\ ~(~w_cr /\ c = "nl")
 <2>1. C!W!Escape(c) = <<>> /\ C!W!LineEnd(c) = <<>> BY <1>5 DEF C!W!Escape, C!W!LineEnd
 <2>2. wire' = ((wire \o <<>>) \o <<>>) \o <<c>> BY <1>2, <2>1
 <2>3. wire' = wire \o <<c>> BY <1>1, <2>2, ConcatEmptySeq
 <2> QED BY <1>1, <1>5, <2>3
<1> QED BY <1>3, <1>4, <1>5

LEMMA ReadingWritten ==
  ASSUME MessageInv, NEW c \in Char, Writes(c) PROVE Reading'
<1>1. MessageTypes /\ Apart /\ Reading BY DEF MessageInv
<1>2. own /\ kind = "cleartext" /\ phase = "write" /\ phase' = "write" BY DEF Writes
<1>3. PICK pos : Spans(text, wire, pos) /\ Len(wire) + 1 = pos[Length + 1]
  BY <1>1, <1>2 DEF Reading
<1> DEFINE n == Length
           w == wire
           new == [k \in 1 .. n + 2 |-> IF k = n + 2 THEN Len(wire') + 1 ELSE pos[k]]
<1>4. n \in Nat /\ Len(text) = n /\ Len(text') = n + 1 /\ text'[n + 1] = c /\ \A i \in 1 .. n : text'[i] = text[i]
  BY <1>1, TextGrows DEF Length
<1>5. /\ Len(w) \in Nat /\ \A i \in 1 .. Len(w) : wire'[i] = w[i]
      /\ w_nl /\ c = "-" =>
           /\ Len(wire') = Len(w) + 3 /\ wire'[Len(w) + 1] = "-"
           /\ wire'[Len(w) + 2] = "blank" /\ wire'[Len(w) + 3] = c
      /\ ~w_cr /\ c = "nl" =>
           Len(wire') = Len(w) + 2 /\ wire'[Len(w) + 1] = "cr" /\ wire'[Len(w) + 2] = c
      /\ ~(w_nl /\ c = "-") /\ ~(~w_cr /\ c = "nl") =>
           Len(wire') = Len(w) + 1 /\ wire'[Len(w) + 1] = c
  BY <1>1, WireNow
<1>6. Len(wire') \in Nat /\ Len(wire') > Len(w) BY <1>5
<1>7. (w_nl <=> n = 0 \/ text[n] = "nl") /\ (w_cr <=> n > 0 /\ text[n] = "cr")
  BY <1>1, <1>2, <1>4 DEF Apart, EndsWith, Length
<1>8. /\ pos \in [1 .. n + 1 -> 1 .. Len(w) + 1] /\ pos[1] = 1 /\ pos[n + 1] = Len(w) + 1
      /\ \A k \in 1 .. n : Chunk(text, w, k, pos[k], pos[k + 1])
  BY <1>3, <1>4 DEF Spans
<1>9. new \in [1 .. n + 2 -> 1 .. Len(wire') + 1] /\ new[1] = 1 /\ Len(wire') + 1 = new[n + 2]
      /\ \A k \in 1 .. n + 1 : new[k] = pos[k]
 <2>1. ASSUME NEW k \in 1 .. n + 2 PROVE new[k] \in 1 .. Len(wire') + 1
  <3>1. CASE k = n + 2 BY <1>6, <3>1
  <3>2. CASE k # n + 2
   <4>1. k \in 1 .. n + 1 BY <1>4, <3>2
   <4>2. pos[k] \in 1 .. Len(w) + 1 BY <1>8, <4>1
   <4> QED BY <1>5, <1>6, <3>2, <4>2
  <3> QED BY <3>1, <3>2
 <2>2. 1 \in 1 .. n + 2 /\ 1 # n + 2 /\ n + 2 \in 1 .. n + 2 BY <1>4
 <2>3. \A k \in 1 .. n + 1 : new[k] = pos[k] BY <1>4
 <2> QED BY <1>8, <2>1, <2>2, <2>3
<1> HIDE DEF n, w, new
<1>10. ASSUME NEW k \in 1 .. n PROVE Chunk(text', wire', k, new[k], new[k + 1])
 <2> DEFINE p == pos[k]
            q == pos[k + 1]
 <2>1. k \in 1 .. n + 1 /\ k + 1 \in 1 .. n + 1 BY <1>4
 <2>2. new[k] = p /\ new[k + 1] = q /\ Chunk(text, w, k, p, q) /\ p \in 1 .. Len(w) + 1 /\ q \in 1 .. Len(w) + 1
   BY <1>8, <1>9, <2>1
 <2> HIDE DEF p, q
 <2>3. text'[k] = text[k] /\ (k # 1 => text'[k - 1] = text[k - 1])
  <3>1. k # 1 => k - 1 \in 1 .. n BY <1>4
  <3> QED BY <1>4, <3>1
 <2>4. /\ q = p + 1 => wire'[p] = w[p]
       /\ q = p + 2 => wire'[p] = w[p] /\ wire'[p + 1] = w[p + 1]
       /\ q = p + 3 => wire'[p] = w[p] /\ wire'[p + 1] = w[p + 1] /\ wire'[p + 2] = w[p + 2]
   BY <1>5, <2>2
 <2>5. StartsLine(text', k) <=> StartsLine(text, k) BY <2>3 DEF StartsLine
 <2>6. Chunk(text', wire', k, p, q) BY <2>2, <2>3, <2>4, <2>5 DEF Chunk
 <2> QED BY <2>2, <2>6
<1>11. Chunk(text', wire', n + 1, new[n + 1], new[n + 2])
 <2>1. new[n + 1] = Len(w) + 1 /\ new[n + 2] = Len(wire') + 1
  <3>1. n + 1 \in 1 .. n + 1 BY <1>4
  <3>2. new[n + 1] = pos[n + 1] BY <1>9, <3>1
  <3> QED BY <1>8, <1>9, <3>2
 <2> DEFINE p == Len(w) + 1
            q == Len(wire') + 1
            last == text'[n + 1 - 1]
 <2>2. (n + 1 # 1 => last = text[n]) /\ (n + 1 = 1 <=> n = 0) /\ n + 1 - 1 = n BY <1>4
 <2>3. StartsLine(text', n + 1) <=> w_nl BY <1>4, <1>7, <2>2 DEF StartsLine
 <2>4. (n + 1 = 1 \/ last # "cr") <=> ~w_cr BY <1>4, <1>7, <2>2
 <2>5. /\ w_nl /\ c = "-" => q = p + 3 /\ wire'[p] = "-" /\ wire'[p + 1] = "blank" /\ wire'[p + 2] = c
       /\ ~w_cr /\ c = "nl" => q = p + 2 /\ wire'[p] = "cr" /\ wire'[p + 1] = c
       /\ ~(w_nl /\ c = "-") /\ ~(~w_cr /\ c = "nl") => q = p + 1 /\ wire'[p] = c
   BY <1>5
 <2> HIDE DEF p, q
 <2>6. Chunk(text', wire', n + 1, p, q) BY <1>4, <2>3, <2>4, <2>5 DEF Chunk
 <2> QED BY <2>1, <2>6 DEF p, q
<1>12. \A k \in 1 .. n + 1 : Chunk(text', wire', k, new[k], new[k + 1])
 <2>1. n + 1 + 1 = n + 2 /\ \A k \in 1 .. n + 1 : k \in 1 .. n \/ k = n + 1 BY <1>4
 <2> QED BY <1>10, <1>11, <2>1
<1>13. Spans(text', wire', new) /\ Len(wire') + 1 = new[Length' + 1]
 <2>1. Len(text') + 1 = n + 2 /\ Length' + 1 = n + 2 BY <1>4 DEF Length
 <2> QED BY <1>4, <1>9, <1>12, <2>1 DEF Spans
<1>14. \E f : Spans(text', wire', f) /\ Len(wire') + 1 = f[Length' + 1] BY <1>13
<1> QED BY <1>2, <1>14 DEF Reading

-----------------------------------------------------------------------------
(* Where the characters are found again. *)

LEMMA ReadingEnded ==
  ASSUME MessageInv, TextEnds PROVE Reading'
<1>1. MessageTypes /\ Apart /\ Reading BY DEF MessageInv
<1>2. /\ own /\ kind = "cleartext" /\ phase = "write" /\ phase' = "read" /\ SameReader
      /\ UNCHANGED <<text, kind, own>> /\ wire' = wire \o <<"cr", "nl">> \o <<"-", "-", "-", "-", "-">>
  BY DEF TextEnds, SameMessage
<1>3. PICK pos : Spans(text, wire, pos) /\ Len(wire) + 1 = pos[Length + 1]
  BY <1>1, <1>2 DEF Reading
<1> DEFINE n == Length
           w == wire
           e == <<"cr", "nl">> \o <<"-", "-", "-", "-", "-">>
<1>4. n \in Nat /\ Len(text) = n /\ w \in Seq(Char) /\ Len(w) \in Nat /\ text \in Seq(Char)
  BY <1>1, TypesAre DEF WriterTyped, Length
<1>5. e \in Seq(Char) /\ Len(e) = 7 /\ e[1] = "cr" /\ e[2] = "nl" /\ \A i \in 3 .. 7 : e[i] = "-"
 <2> DEFINE d == <<"-", "-", "-", "-", "-">>
            g == <<"cr", "nl">>
 <2>1. g \in Seq(Char) /\ Len(g) = 2 /\ g[1] = "cr" /\ g[2] = "nl" BY CharsAre
 <2>2. d \in Seq(Char) /\ Len(d) = 5 /\ \A i \in 1 .. 5 : d[i] = "-" BY CharsAre
 <2> HIDE DEF d, g
 <2>3. /\ g \o d \in Seq(Char) /\ Len(g \o d) = 7 /\ (g \o d)[1] = "cr" /\ (g \o d)[2] = "nl"
       /\ \A i \in 1 .. 5 : (g \o d)[2 + i] = "-"
  <3>1. /\ Len(g \o d) = Len(g) + Len(d) /\ \A i \in 1 .. Len(g) : (g \o d)[i] = g[i]
        /\ \A i \in 1 .. Len(d) : (g \o d)[Len(g) + i] = d[i]
    BY <2>1, <2>2, WireGrows
  <3>2. g \o d \in Seq(Char) BY <2>1, <2>2
  <3> QED BY <2>1, <2>2, <3>1, <3>2
 <2>4. \A i \in 3 .. 7 : (g \o d)[i] = "-"
  <3> SUFFICES ASSUME NEW i \in 3 .. 7 PROVE (g \o d)[i] = "-" OBVIOUS
  <3>1. i - 2 \in 1 .. 5 /\ 2 + (i - 2) = i OBVIOUS
  <3> QED BY <2>3, <3>1
 <2> QED BY <2>3, <2>4 DEF d, g
<1>6. wire' = w \o e
 <2> DEFINE d == <<"-", "-", "-", "-", "-">>
            g == <<"cr", "nl">>
 <2>1. w \in Seq(Char) /\ g \in Seq(Char) /\ d \in Seq(Char) /\ wire' = (w \o g) \o d
   BY <1>2, <1>4, CharsAre
 <2> HIDE DEF d, g, w
 <2>2. wire' = w \o (g \o d) BY <2>1, Associates
 <2> QED BY <2>2 DEF d, g
<1> HIDE DEF n, w, e
<1>7. Len(wire') = Len(w) + 7 /\ (\A i \in 1 .. Len(w) : wire'[i] = w[i]) /\ \A i \in 1 .. 7 : wire'[Len(w) + i] = e[i]
 <2>1. /\ Len(w \o e) = Len(w) + Len(e) /\ \A i \in 1 .. Len(w) : (w \o e)[i] = w[i]
       /\ \A i \in 1 .. Len(e) : (w \o e)[Len(w) + i] = e[i]
   BY <1>4, <1>5, WireGrows
 <2> QED BY <1>5, <1>6, <2>1
<1>8. /\ pos \in [1 .. n + 1 -> 1 .. Len(w) + 1] /\ pos[1] = 1 /\ pos[n + 1] = Len(w) + 1
      /\ \A k \in 1 .. n : Chunk(text, w, k, pos[k], pos[k + 1])
  BY <1>3, <1>4 DEF Spans, n, w
<1>9. \A k \in 1 .. n : Chunk(text, wire', k, pos[k], pos[k + 1])
 <2> SUFFICES ASSUME NEW k \in 1 .. n PROVE Chunk(text, wire', k, pos[k], pos[k + 1]) OBVIOUS
 <2> DEFINE p == pos[k]
            q == pos[k + 1]
 <2>1. k \in 1 .. n + 1 /\ k + 1 \in 1 .. n + 1 BY <1>4
 <2>2. Chunk(text, w, k, p, q) /\ p \in 1 .. Len(w) + 1 /\ q \in 1 .. Len(w) + 1 BY <1>8, <2>1
 <2> HIDE DEF p, q
 <2>3. /\ q = p + 1 => wire'[p] = w[p]
       /\ q = p + 2 => wire'[p] = w[p] /\ wire'[p + 1] = w[p + 1]
       /\ q = p + 3 => wire'[p] = w[p] /\ wire'[p + 1] = w[p + 1] /\ wire'[p + 2] = w[p + 2]
  <3>1. CASE q = p + 1
   <4>1. p \in 1 .. Len(w) /\ q # p + 2 /\ q # p + 3 BY <1>4, <2>2, <3>1
   <4>2. wire'[p] = w[p] BY <1>7, <4>1
   <4> QED BY <4>1, <4>2
  <3>2. CASE q = p + 2
   <4>1. p \in 1 .. Len(w) /\ p + 1 \in 1 .. Len(w) /\ q # p + 1 /\ q # p + 3
     BY <1>4, <2>2, <3>2
   <4>2. wire'[p] = w[p] /\ wire'[p + 1] = w[p + 1] BY <1>7, <4>1
   <4> QED BY <4>1, <4>2
  <3>3. CASE q = p + 3
   <4>1. p \in 1 .. Len(w) /\ p + 1 \in 1 .. Len(w) /\ p + 2 \in 1 .. Len(w) /\ q # p + 1 /\ q # p + 2
     BY <1>4, <2>2, <3>3
   <4>2. wire'[p] = w[p] /\ wire'[p + 1] = w[p + 1] /\ wire'[p + 2] = w[p + 2] BY <1>7, <4>1
   <4> QED BY <4>1, <4>2
  <3> QED BY <3>1, <3>2, <3>3
 <2>4. Chunk(text, wire', k, p, q) BY <2>2, <2>3 DEF Chunk
 <2> QED BY <2>4 DEF p, q
<1>10. Spans(text, wire', pos)
 <2>1. pos \in [1 .. n + 1 -> 1 .. Len(wire') + 1]
  <3>1. \A i \in 1 .. Len(w) + 1 : i \in 1 .. Len(wire') + 1 BY <1>4, <1>7
  <3> QED BY <1>8, <3>1
 <2> QED BY <1>4, <1>8, <1>9, <2>1 DEF Spans
<1>11. Closing(wire', pos[n + 1])
 <2> DEFINE p == Len(w) + 1
 <2>1. Len(wire') = p + 6 /\ wire'[p] = "cr" /\ wire'[p + 1] = "nl"
  <3>1. 1 \in 1 .. 7 /\ 2 \in 1 .. 7 /\ Len(w) + 2 = p + 1 BY <1>4
  <3> QED BY <1>4, <1>5, <1>7, <3>1
 <2>2. \A i \in 2 .. 6 : wire'[p + i] = "-"
  <3> SUFFICES ASSUME NEW i \in 2 .. 6 PROVE wire'[p + i] = "-" OBVIOUS
  <3>1. i + 1 \in 1 .. 7 /\ i + 1 \in 3 .. 7 /\ Len(w) + (i + 1) = p + i BY <1>4
  <3> QED BY <1>5, <1>7, <3>1
 <2> QED BY <1>8, <2>1, <2>2 DEF Closing
<1>12. InPlace(pos)'
 <2>1. Untouched /\ state = "text" BY <1>1, <1>2 DEF Apart
 <2>2. at' = 1 /\ r_nl' /\ body' = <<>> /\ bodies' = <<>> /\ state' = "text"
   BY <1>2, <2>1 DEF Untouched, SameReader
 <2>3. FlattenSeq(<<>>) \o <<>> = C!NoCR(SubSeq(text, 1, 1 - 1))
  <3>1. SubSeq(text, 1, 0) = <<>> /\ 1 - 1 = 0 BY <1>4
  <3>2. C!NoCR(<<>>) = <<>> BY WithoutEmpty DEF C!NoCR
  <3>3. <<>> \o <<>> = <<>> BY CharsAre, ConcatEmptySeq
  <3>4. FlattenSeq(<<>>) \o <<>> = <<>> BY <3>3, FlattenEmpty
  <3>5. SubSeq(text, 1, 1 - 1) = <<>> BY <3>1
  <3> QED BY <3>2, <3>4, <3>5
 <2>4. InFront(pos, 1)' BY <1>2, <1>8, <2>2, <2>3 DEF InFront, StartsLine
 <2>5. 1 \in 1 .. Length' + 1 BY <1>2, <1>4 DEF n, Length
 <2> QED BY <2>2, <2>4, <2>5 DEF InPlace
<1>13. /\ Spans(text', wire', pos) /\ Closing(wire', pos[Length' + 1]) /\ InPlace(pos)'
  BY <1>2, <1>10, <1>11, <1>12 DEF n, Length
<1> QED BY <1>2, <1>13 DEF Reading

\* A step of the reader is over a character, with the CR before it if there is one.
Advance(pos, k) ==
  \/ k <= Length /\ text[k] # "cr" /\ at' = pos[k + 1] /\ Takes(text[k])
  \/ k < Length /\ text[k] = "cr" /\ text[k + 1] = "nl" /\ at' = pos[k + 2] /\ Takes("nl")
  \/ k = Length + 1 /\ at' = pos[k] + 2 /\ Takes("nl")

\* The characters that the reader goes on with.
LEMMA PlaceIs ==
  ASSUME MessageTypes, NEW pos, Spans(text, wire, pos), Closing(wire, pos[Length + 1]),
         C!NoLoneCR, NEW k \in 1 .. Length + 1, InFront(pos, k)
  PROVE  /\ at \in Nat /\ Length \in Nat /\ Len(wire) \in Nat
         /\ at <= Len(wire) /\ (wire[at] = "cr" => at < Len(wire) /\ wire[at + 1] = "nl")
         /\ wire[at] = "-" /\ r_nl => at + 2 <= Len(wire) /\ wire[at + 1] = "blank" /\ k <= Length
                                      /\ text[k] = "-" /\ pos[k + 1] = at + 3 /\ wire[at + 2] = "-"
         /\ wire[at] # "cr" /\ ~(wire[at] = "-" /\ r_nl) =>
              k <= Length /\ text[k] # "cr" /\ text[k] = wire[at] /\ pos[k + 1] = at + 1
         /\ wire[at] = "cr" =>
              \/ k <= Length /\ text[k] = "nl" /\ pos[k + 1] = at + 2
              \/ k < Length /\ text[k] = "cr" /\ text[k + 1] = "nl" /\ pos[k + 2] = at + 2
              \/ k = Length + 1
<1>1. /\ Length \in Nat /\ Len(text) = Length /\ Len(wire) \in Nat /\ text \in Seq(Char) /\ at = pos[k]
      /\ (k > 1 => text[k - 1] # "cr") /\ (r_nl <=> StartsLine(text, k))
  BY TypesAre DEF WriterTyped, Length, InFront
<1>2. /\ pos \in [1 .. Length + 1 -> 1 .. Len(wire) + 1]
      /\ \A i \in 1 .. Length : Chunk(text, wire, i, pos[i], pos[i + 1])
  BY <1>1 DEF Spans
<1>3. at \in 1 .. Len(wire) + 1 BY <1>1, <1>2
<1>4. Closing(wire, pos[Length + 1]) OBVIOUS
<1>0. at \in Nat /\ Length \in Nat /\ Len(wire) \in Nat /\ k \in Nat BY <1>1, <1>3
<1>5. CASE k = Length + 1
 <2>1. wire[at] = "cr" /\ wire[at + 1] = "nl" /\ Len(wire) = at + 6
   BY <1>1, <1>4, <1>5 DEF Closing
 <2> QED BY <1>1, <1>3, <1>5, <2>1
<1>6. CASE k # Length + 1
 <2>1. k \in 1 .. Length /\ k + 1 \in 1 .. Length + 1 BY <1>1, <1>6
 <2> DEFINE c == text[k]
            q == pos[k + 1]
 <2>2. Chunk(text, wire, k, at, q) /\ q \in 1 .. Len(wire) + 1 /\ c \in Char BY <1>1, <1>2, <2>1
 <2>0. q \in Nat /\ q <= Len(wire) + 1 BY <1>0, <2>2
 <2>3. k = 1 \/ text[k - 1] # "cr" BY <1>1
 <2>4. /\ c = "-" /\ r_nl => q = at + 3 /\ wire[at] = "-" /\ wire[at + 1] = "blank" /\ wire[at + 2] = c
       /\ c = "nl" => q = at + 2 /\ wire[at] = "cr" /\ wire[at + 1] = c
       /\ c # "nl" /\ ~(c = "-" /\ r_nl) => q = at + 1 /\ wire[at] = c
   BY <1>1, <2>2, <2>3 DEF Chunk
 <2>5. ASSUME c = "cr"
       PROVE  k < Length /\ text[k + 1] = "nl" /\ pos[k + 2] = at + 2 /\ wire[at] = "cr" /\ wire[at + 1] = "nl"
              /\ pos[k + 2] \in 1 .. Len(wire) + 1
  <3>1. k < Length /\ text[k + 1] = "nl" BY <1>1, <2>1, <2>5 DEF C!NoLoneCR
  <3>2. k + 1 \in 1 .. Length /\ k + 1 # 1 /\ k + 1 - 1 = k /\ k + 1 + 1 = k + 2 /\ k + 2 \in 1 .. Length + 1
    BY <1>1, <3>1
  <3>3. q = at + 1 /\ wire[at] = "cr" BY <2>4, <2>5
  <3>4. Chunk(text, wire, k + 1, q, pos[k + 2]) BY <1>2, <3>2
  <3>5. text[k + 1 - 1] = "cr" BY <2>5, <3>2
  <3>6. pos[k + 2] = q + 1 /\ wire[q] = "nl" BY <3>1, <3>2, <3>4, <3>5 DEF Chunk
  <3>7. q + 1 = at + 2 BY <1>3, <3>3
  <3> QED BY <1>2, <3>1, <3>2, <3>3, <3>6, <3>7
 <2> HIDE DEF c, q
 <2>6. CASE c = "-" /\ r_nl
  <3>1. q = at + 3 /\ wire[at] = "-" /\ wire[at + 1] = "blank" /\ wire[at + 2] = c BY <2>4, <2>6
  <3>2. at + 2 <= Len(wire) /\ at <= Len(wire) BY <1>0, <2>0, <3>1
  <3>3. k <= Length /\ text[k] = "-" /\ pos[k + 1] = at + 3 BY <1>0, <2>1, <2>6, <3>1 DEF c, q
  <3> QED BY <1>0, <2>6, <3>1, <3>2, <3>3
 <2>7. CASE c = "nl"
  <3>1. q = at + 2 /\ wire[at] = "cr" /\ wire[at + 1] = c BY <2>4, <2>7
  <3>2. at < Len(wire) BY <1>0, <2>0, <3>1
  <3>3. k <= Length /\ text[k] = "nl" /\ pos[k + 1] = at + 2 BY <1>0, <2>1, <2>7, <3>1 DEF c, q
  <3> QED BY <1>0, <2>7, <3>1, <3>2, <3>3
 <2>8. CASE c = "cr"
  <3>1. k < Length /\ text[k + 1] = "nl" /\ pos[k + 2] = at + 2 /\ wire[at] = "cr" /\ wire[at + 1] = "nl"
        /\ pos[k + 2] \in 1 .. Len(wire) + 1
    BY <2>5, <2>8
  <3>2. pos[k + 2] <= Len(wire) + 1 BY <1>0, <3>1
  <3>3. at < Len(wire) /\ text[k] = "cr" BY <1>0, <2>8, <3>1, <3>2 DEF c
  <3> QED BY <1>0, <3>1, <3>3
 <2>9. CASE c # "nl" /\ c # "cr" /\ ~(c = "-" /\ r_nl)
  <3>1. q = at + 1 /\ wire[at] = c BY <2>4, <2>9
  <3>2. at <= Len(wire) BY <1>0, <2>0, <3>1
  <3>3. k <= Length /\ text[k] = c /\ pos[k + 1] = at + 1 BY <1>0, <2>1, <3>1 DEF c, q
  <3> QED BY <1>0, <2>9, <3>1, <3>2, <3>3
 <2> QED BY <2>6, <2>7, <2>8, <2>9
<1> QED BY <1>5, <1>6

\* And so the step can only be that one.
LEMMA Advances ==
  ASSUME MessageTypes, NEW pos, Spans(text, wire, pos), Closing(wire, pos[Length + 1]),
         C!NoLoneCR, NEW k \in 1 .. Length + 1, InFront(pos, k),
         NEW h, ReadsPlain(h) \/ ReadsEscaped(h) \/ ReadsTrailer(h)
  PROVE  Advance(pos, k) /\ UNCHANGED <<state, r_errors>>
<1>1. /\ at \in Nat /\ Length \in Nat /\ Len(wire) \in Nat
      /\ at <= Len(wire) /\ (wire[at] = "cr" => at < Len(wire) /\ wire[at + 1] = "nl")
      /\ wire[at] = "-" /\ r_nl => at + 2 <= Len(wire) /\ wire[at + 1] = "blank" /\ k <= Length
                                   /\ text[k] = "-" /\ pos[k + 1] = at + 3 /\ wire[at + 2] = "-"
      /\ wire[at] # "cr" /\ ~(wire[at] = "-" /\ r_nl) =>
           k <= Length /\ text[k] # "cr" /\ text[k] = wire[at] /\ pos[k + 1] = at + 1
      /\ wire[at] = "cr" =>
           \/ k <= Length /\ text[k] = "nl" /\ pos[k + 1] = at + 2
           \/ k < Length /\ text[k] = "cr" /\ text[k + 1] = "nl" /\ pos[k + 2] = at + 2
           \/ k = Length + 1
  BY PlaceIs
<1>2. Comes(h) /\ h \in at .. Len(wire) /\ wire[h] # "cr" /\ \A j \in at .. h - 1 : wire[j] = "cr"
  BY DEF ReadsPlain, ReadsEscaped, ReadsTrailer, Comes
<1>3. wire[at] # "cr" => h = at
 <2>1. h # at => at \in at .. h - 1 BY <1>1, <1>2
 <2> QED BY <1>2, <2>1
<1>4. wire[at] = "cr" => h = at + 1
 <2>1. ASSUME wire[at] = "cr" PROVE h = at + 1
  <3>1. h # at BY <1>2, <2>1
  <3>2. ASSUME h # at + 1 PROVE FALSE
   <4>1. at + 1 \in at .. h - 1 BY <1>1, <1>2, <3>1, <3>2
   <4> QED BY <1>1, <1>2, <2>1, <4>1
  <3> QED BY <3>2
 <2> QED BY <2>1
<1>5. CASE wire[at] = "-" /\ r_nl
 <2>1. h = at /\ wire[h + 1] = "blank" BY <1>1, <1>3, <1>5
 <2>2. ReadsEscaped(h) BY <1>5, <2>1 DEF ReadsPlain, ReadsTrailer
 <2>3. at' = at + 3 /\ Takes("-") BY <1>1, <1>5, <2>1, <2>2 DEF ReadsEscaped
 <2>4. Takes(text[k]) /\ at' = pos[k + 1] /\ text[k] # "cr" /\ k <= Length BY <1>1, <1>5, <2>3
 <2> QED BY <2>3, <2>4 DEF Advance, Takes
<1>6. CASE wire[at] # "cr" /\ ~(wire[at] = "-" /\ r_nl)
 <2>1. h = at BY <1>3, <1>6
 <2>2. ReadsPlain(h) BY <1>6, <2>1 DEF ReadsEscaped, ReadsTrailer
 <2>3. at' = at + 1 /\ Takes(wire[at]) BY <2>1, <2>2 DEF ReadsPlain
 <2>4. Takes(text[k]) /\ at' = pos[k + 1] /\ text[k] # "cr" /\ k <= Length BY <1>1, <1>6, <2>3
 <2> QED BY <2>3, <2>4 DEF Advance, Takes
<1>7. CASE wire[at] = "cr"
 <2>1. h = at + 1 /\ wire[h] = "nl" BY <1>1, <1>4, <1>7
 <2>2. ReadsPlain(h) BY <2>1 DEF ReadsEscaped, ReadsTrailer
 <2>3. at' = at + 2 /\ Takes("nl")
  <3>1. at' = h + 1 /\ Takes(wire[h]) BY <2>2 DEF ReadsPlain
  <3> QED BY <1>1, <2>1, <3>1
 <2>4. at = pos[k] BY DEF InFront
 <2>5. CASE k <= Length /\ text[k] = "nl" /\ pos[k + 1] = at + 2 BY <2>3, <2>5 DEF Advance, Takes
 <2>6. CASE k < Length /\ text[k] = "cr" /\ text[k + 1] = "nl" /\ pos[k + 2] = at + 2
   BY <2>3, <2>6 DEF Advance, Takes
 <2>7. CASE k = Length + 1 BY <2>3, <2>4, <2>7 DEF Advance, Takes
 <2> QED BY <1>1, <1>7, <2>5, <2>6, <2>7
<1> QED BY <1>5, <1>6, <1>7

\* Behind the text there are dashes only.
LEMMA Stops ==
  ASSUME MessageTypes, NEW pos, Spans(text, wire, pos), Closing(wire, pos[Length + 1]), Behind(pos),
         NEW h, ReadsPlain(h) \/ ReadsEscaped(h) \/ ReadsTrailer(h)
  PROVE  /\ state' = "trailer" /\ at' = Len(wire) + 1 /\ ~r_errors'
         /\ UNCHANGED <<body, r_hashed, bodies, use, data>>
<1> DEFINE p == pos[Length + 1]
<1>1. p \in Nat /\ Len(wire) = p + 6 /\ \A i \in 2 .. 6 : wire[p + i] = "-"
 <2>1. Length \in Nat /\ Len(text) = Length /\ Len(wire) \in Nat
   BY TypesAre DEF WriterTyped, Length
 <2>2. Length + 1 \in 1 .. Length + 1 BY <2>1
 <2>3. p \in 1 .. Len(wire) + 1 BY <2>1, <2>2 DEF Spans
 <2> QED BY <2>1, <2>3 DEF Closing
<1>2. at = p + 2 /\ r_nl /\ body = <<"nl">> BY DEF Behind
<1> HIDE DEF p
<1>3. Comes(h) /\ h \in at .. Len(wire) /\ \A j \in at .. h - 1 : wire[j] = "cr"
  BY DEF ReadsPlain, ReadsEscaped, ReadsTrailer, Comes
<1>4. wire[at] = "-" /\ wire[at + 1] = "-"
 <2>1. at + 1 = p + 3 /\ 2 \in 2 .. 6 /\ 3 \in 2 .. 6 BY <1>1, <1>2
 <2> QED BY <1>1, <1>2, <2>1
<1>5. h = at
 <2>1. h # at => at \in at .. h - 1 BY <1>1, <1>2, <1>3
 <2> QED BY <1>3, <1>4, <2>1
<1>6. ReadsTrailer(h) BY <1>2, <1>4, <1>5 DEF ReadsPlain, ReadsEscaped
<1>7. \A k \in 1 .. 4 : wire[h + k] = "-"
 <2> SUFFICES ASSUME NEW k \in 1 .. 4 PROVE wire[h + k] = "-" OBVIOUS
 <2>1. h + k = p + (k + 2) /\ k + 2 \in 2 .. 6 BY <1>1, <1>2, <1>5
 <2> QED BY <1>1, <2>1
<1>8. h + 5 = Len(wire) + 1 BY <1>1, <1>2, <1>5
<1> QED BY <1>2, <1>6, <1>7, <1>8 DEF ReadsTrailer

-----------------------------------------------------------------------------
(* What the application gets. *)

LEMMA TakesText ==
  ASSUME MessageTypes, NEW c \in Char, Takes(c)
  PROVE  FlattenSeq(bodies') \o body' = (FlattenSeq(bodies) \o body) \o <<c>>
<1> DEFINE f == FlattenSeq(bodies)
<1>1. bodies \in Seq(Seq(Char)) /\ body \in Seq(Char) /\ f \in Seq(Char) /\ <<c>> \in Seq(Char)
  BY TypesAre, FlattenType DEF TextTyped
<1>2. Append(body, c) = body \o <<c>> /\ Append(body, c) \in Seq(Char) BY <1>1, AppendIsConcat
<1>3. (f \o body) \o <<c>> = f \o (body \o <<c>>) BY <1>1, Associates
<1>4. CASE bodies' = Append(bodies, body) /\ body' = <<c>>
 <2>1. FlattenSeq(bodies') = f \o body BY <1>1, <1>4, FlattenAppend
 <2> QED BY <1>4, <2>1
<1>5. CASE bodies' = Append(bodies, Append(body, c)) /\ body' = <<>>
 <2>1. FlattenSeq(bodies') = f \o Append(body, c) BY <1>1, <1>2, <1>5, FlattenAppend
 <2>2. f \o Append(body, c) \in Seq(Char) BY <1>1, <1>2
 <2>3. (f \o Append(body, c)) \o <<>> = f \o Append(body, c) BY <2>2, ConcatEmptySeq
 <2> QED BY <1>2, <1>3, <1>5, <2>1, <2>3
<1>6. CASE body' = Append(body, c) /\ bodies' = bodies BY <1>2, <1>3, <1>6
<1> QED BY <1>4, <1>5, <1>6 DEF Takes

LEMMA NoCRFurther ==
  ASSUME NEW s \in Seq(Char), NEW k \in 1 .. Len(s)
  PROVE  C!NoCR(SubSeq(s, 1, k)) = C!NoCR(SubSeq(s, 1, k - 1)) \o (IF s[k] = "cr" THEN <<>> ELSE <<s[k]>>)
<1> DEFINE f == SubSeq(s, 1, k - 1)
<1>1. f \in Seq(Char) /\ s[k] \in Char /\ Len(f) = k - 1 OBVIOUS
<1>2. SubSeq(s, 1, k) = f \o <<s[k]>>
 <2>1. 1 \in 1 .. Len(s) /\ k \in 1 .. Len(s) OBVIOUS
 <2> QED BY <2>1, SubSeqRecursiveSecond
<1> HIDE DEF f
<1>3. SubSeq(s, 1, k) = Append(f, s[k]) BY <1>1, <1>2, AppendIsConcat
<1>4. C!Without(Append(f, s[k]), {}) =
        C!Without(f, {}) \o (IF Len(f) + 1 \in {} \/ s[k] = "cr" THEN <<>> ELSE <<s[k]>>)
  BY <1>1, WithoutAppend
<1> QED BY <1>3, <1>4 DEF C!NoCR, f

LEMMA InFrontNext ==
  ASSUME MessageTypes, NEW pos, Spans(text, wire, pos), C!NoLoneCR,
         NEW k \in 1 .. Length + 1, InFront(pos, k), Advance(pos, k), Reads
  PROVE  /\ k <= Length => \E j \in 1 .. Length + 1 : InFront(pos, j)'
         /\ k = Length + 1 => Behind(pos)'
<1>1. /\ Length \in Nat /\ Len(text) = Length /\ text \in Seq(Char)
      /\ bodies \in Seq(Seq(Char)) /\ body \in Seq(Char) /\ "nl" \in Char /\ Len(body) < BodySize
  BY TypesAre, CharsAre DEF WriterTyped, Length, TextTyped
<1>2. UNCHANGED <<text, wire>> BY DEF Reads
<1> DEFINE all == FlattenSeq(bodies) \o body
<1>3. all = C!NoCR(SubSeq(text, 1, k - 1)) /\ all \in Seq(Char)
 <2>1. FlattenSeq(bodies) \in Seq(Char) BY <1>1, FlattenType
 <2>2. all \in Seq(Char) BY <1>1, <2>1
 <2> QED BY <2>2 DEF InFront
<1> HIDE DEF all
<1>4. CASE k <= Length /\ text[k] # "cr" /\ at' = pos[k + 1] /\ Takes(text[k])
 <2>1. k \in 1 .. Len(text) /\ text[k] \in Char /\ k + 1 > 1 /\ k + 1 # 1 /\ k + 1 - 1 = k /\ k + 1 \in 1 .. Length + 1
   BY <1>1, <1>4
 <2>2. FlattenSeq(bodies') \o body' = all \o <<text[k]>> BY <1>4, <2>1, TakesText DEF all
 <2>3. C!NoCR(SubSeq(text, 1, k)) = all \o <<text[k]>> BY <1>1, <1>3, <1>4, <2>1, NoCRFurther
 <2>4. r_nl' <=> StartsLine(text, k + 1)
  <3>1. r_nl' = (text[k] = "nl") BY <1>4 DEF Takes
  <3>2. StartsLine(text, k + 1) <=> text[k] = "nl" BY <2>1 DEF StartsLine
  <3> QED BY <3>1, <3>2
 <2>5. InFront(pos, k + 1)' BY <1>2, <1>4, <2>1, <2>2, <2>3, <2>4 DEF InFront
 <2>6. k # Length + 1 BY <1>1, <1>4
 <2> QED BY <2>1, <2>5, <2>6
<1>5. CASE k < Length /\ text[k] = "cr" /\ text[k + 1] = "nl" /\ at' = pos[k + 2] /\ Takes("nl")
 <2>1. /\ k \in 1 .. Len(text) /\ k + 1 \in 1 .. Len(text) /\ k + 2 > 1 /\ k + 2 # 1 /\ k + 2 - 1 = k + 1
       /\ k + 2 \in 1 .. Length + 1 /\ k + 1 - 1 = k
   BY <1>1, <1>5
 <2>2. FlattenSeq(bodies') \o body' = all \o <<"nl">> BY <1>1, <1>5, TakesText DEF all
 <2>3. C!NoCR(SubSeq(text, 1, k)) = all
  <3>1. C!NoCR(SubSeq(text, 1, k)) = all \o <<>> BY <1>1, <1>3, <1>5, <2>1, NoCRFurther
  <3> QED BY <1>3, <3>1, ConcatEmptySeq
 <2>4. C!NoCR(SubSeq(text, 1, k + 1)) = all \o <<"nl">>
  <3> DEFINE m == k + 1
  <3>1. m \in 1 .. Len(text) /\ m - 1 = k /\ text[m] = "nl" BY <1>5, <2>1
  <3> HIDE DEF m
  <3>2. C!NoCR(SubSeq(text, 1, m)) = C!NoCR(SubSeq(text, 1, m - 1)) \o (IF text[m] = "cr" THEN <<>> ELSE <<text[m]>>)
    BY <1>1, <3>1, NoCRFurther
  <3>3. C!NoCR(SubSeq(text, 1, m)) = all \o <<"nl">> BY <2>3, <3>1, <3>2
  <3> QED BY <3>3 DEF m
 <2>5. r_nl' <=> StartsLine(text, k + 2)
  <3>1. r_nl' = ("nl" = "nl") BY <1>5 DEF Takes
  <3>2. StartsLine(text, k + 2) BY <1>5, <2>1 DEF StartsLine
  <3> QED BY <3>1, <3>2
 <2>6. InFront(pos, k + 2)' BY <1>2, <1>5, <2>1, <2>2, <2>4, <2>5, SMTT(30) DEF InFront
 <2>7. k # Length + 1 BY <1>1, <1>5
 <2> QED BY <2>1, <2>6, <2>7
<1>6. CASE k = Length + 1 /\ at' = pos[k] + 2 /\ Takes("nl")
 <2>1. SubSeq(text, 1, k - 1) = text
  <3>1. k - 1 = Len(text) BY <1>1, <1>6
  <3> QED BY <1>1, <3>1, SubSeqFull
 <2>2. all = C!NoCR(text) BY <1>3, <2>1
 <2>3. r_nl' /\ body' = <<"nl">> /\ FlattenSeq(bodies') = C!NoCR(text)
  <3>1. CASE body # <<>>
   <4>1. bodies' = Append(bodies, body) /\ body' = <<"nl">> /\ r_nl' BY <1>6, <3>1 DEF Takes
   <4>2. FlattenSeq(bodies') = FlattenSeq(bodies) \o body BY <1>1, <4>1, FlattenAppend
   <4> QED BY <2>2, <4>1, <4>2 DEF all
  <3>2. CASE body = <<>>
   <4>1. ~(Len(body) + 1 = BodySize) BY <3>2
   <4>2. bodies' = bodies /\ body' = Append(body, "nl") /\ r_nl' = ("nl" = "nl")
     BY <1>6, <3>2, <4>1 DEF Takes
   <4>3. FlattenSeq(bodies) \o <<>> = FlattenSeq(bodies) BY <1>1, FlattenType, ConcatEmptySeq
   <4>4. Append(<<>>, "nl") = <<"nl">> OBVIOUS
   <4> QED BY <2>2, <3>2, <4>2, <4>3, <4>4 DEF all
  <3> QED BY <3>1, <3>2
 <2>4. Length' = Length BY <1>2 DEF Length
 <2>5. Behind(pos)' BY <1>2, <1>6, <2>3, <2>4 DEF Behind
 <2>6. ~(k <= Length) BY <1>1, <1>6
 <2> QED BY <2>5, <2>6
<1> QED BY <1>4, <1>5, <1>6 DEF Advance

\* What is known of a place in a text that this library wrote.
LEMMA PlaceKnown ==
  ASSUME MessageInv, Reads, own
  PROVE  \E pos : /\ Spans(text, wire, pos) /\ Closing(wire, pos[Length + 1])
                  /\ C!NoLoneCR => InPlace(pos)
BY DEF MessageInv, Reading, Reads

LEMMA ReadingRead ==
  ASSUME MessageInv, NEW h, ReadsPlain(h) \/ ReadsEscaped(h) \/ ReadsTrailer(h)
  PROVE  Reading'
<1>1. MessageTypes BY DEF MessageInv
<1>2. Reads /\ state = "text" BY DEF ReadsPlain, ReadsEscaped, ReadsTrailer
<1>3. UNCHANGED <<own, kind, phase, text, wire>> /\ phase = "read" BY <1>2 DEF Reads, SameMessage
<1> SUFFICES ASSUME own PROVE Reading' BY <1>3 DEF Reading
<1>4. PICK pos : /\ Spans(text, wire, pos) /\ Closing(wire, pos[Length + 1])
                 /\ C!NoLoneCR => InPlace(pos)
  BY <1>2, PlaceKnown
<1>5. Spans(text', wire', pos) /\ Closing(wire', pos[Length' + 1]) /\ (C!NoLoneCR' <=> C!NoLoneCR) /\ Length' = Length
  BY <1>3, <1>4 DEF Length, C!NoLoneCR
<1>6. ASSUME C!NoLoneCR PROVE InPlace(pos)'
 <2>1. CASE Behind(pos)
  <3>1. state' = "trailer" /\ at' = Len(wire) + 1 /\ UNCHANGED bodies BY <1>1, <1>4, <2>1, Stops
  <3>2. FlattenSeq(bodies') = C!NoCR(text') BY <1>3, <2>1, <3>1 DEF Behind
  <3> QED BY <1>3, <3>1, <3>2 DEF InPlace
 <2>2. ASSUME NEW k \in 1 .. Length + 1, InFront(pos, k) PROVE InPlace(pos)'
  <3>1. Advance(pos, k) /\ UNCHANGED state BY <1>1, <1>4, <1>6, <2>2, Advances
  <3>2. /\ k <= Length => \E j \in 1 .. Length + 1 : InFront(pos, j)'
        /\ k = Length + 1 => Behind(pos)'
    BY <1>1, <1>2, <1>4, <1>6, <2>2, <3>1, InFrontNext
  <3>3. k <= Length \/ k = Length + 1 BY <1>1, TypesAre DEF WriterTyped, Length
  <3>4. Behind(pos)' \/ \E j \in 1 .. Length' + 1 : InFront(pos, j)' BY <1>5, <3>2, <3>3
  <3> QED BY <1>2, <3>1, <3>4 DEF InPlace
 <2> QED BY <1>2, <1>4, <1>6, <2>1, <2>2 DEF InPlace
<1>7. Spans(text', wire', pos) /\ Closing(wire', pos[Length' + 1]) /\ (C!NoLoneCR' => InPlace(pos)')
  BY <1>5, <1>6
<1> QED BY <1>3, <1>7 DEF Reading

LEMMA ReadingKept ==
  ASSUME MessageInv, MessageNext PROVE Reading'
<1>1. MessageTypes /\ Apart /\ Reading BY DEF MessageInv
<1>2. ASSUME Foreign \/ WriteLiteral \/ TakesPiece \/ LiteralEnds PROVE Reading'
 <2>1. ~(own' /\ kind' = "cleartext")
   BY <1>2 DEF Foreign, WriteLiteral, TakesPiece, LiteralEnds, SameMessage, clear
 <2> QED BY <2>1 DEF Reading
<1>3. ASSUME UNCHANGED <<own, kind, phase, text, wire, at, r_nl, body, bodies>>, phase = "read",
             state' = state \/ state' = "failed"
      PROVE  Reading'
 <2> SUFFICES ASSUME own, kind = "cleartext" PROVE Reading' BY <1>3 DEF Reading
 <2>1. PICK pos : /\ Spans(text, wire, pos) /\ Closing(wire, pos[Length + 1])
                  /\ C!NoLoneCR => InPlace(pos)
   BY <1>1, <1>3 DEF Reading
 <2>2. \A k : InFront(pos, k)' <=> InFront(pos, k) BY <1>3 DEF InFront
 <2>3. Behind(pos)' <=> Behind(pos) BY <1>3 DEF Behind, Length
 <2>4. Length' = Length /\ (C!NoLoneCR' <=> C!NoLoneCR) BY <1>3 DEF Length, C!NoLoneCR
 <2>5. InPlace(pos) => InPlace(pos)' BY <1>3, <2>2, <2>3, <2>4 DEF InPlace
 <2>6. Spans(text', wire', pos) /\ Closing(wire', pos[Length' + 1]) /\ (C!NoLoneCR' => InPlace(pos)')
   BY <1>3, <2>1, <2>4, <2>5
 <2> QED BY <1>3, <2>6 DEF Reading
<1>4. ASSUME ReadsNoMore PROVE Reading' BY <1>3, <1>4 DEF ReadsNoMore, Reads, SameMessage
<1>5. ASSUME Judge PROVE Reading' BY <1>3, <1>5 DEF Judge, MessageEnded, clear
<1>6. ASSUME AnotherMessage PROVE Reading' BY <1>6, FreshAnother, FreshThen
<1> QED BY <1>1, <1>2, <1>4, <1>5, <1>6, Steps, ReadingWritten, ReadingEnded, ReadingRead

-----------------------------------------------------------------------------
(* What the application gets has no CR, and is the text if that is one line. *)

LEMMA NoCRNone ==
  ASSUME NEW s \in Seq(Char), \A i \in 1 .. Len(s) : s[i] # "cr" PROVE C!NoCR(s) = s
<1> DEFINE P(n) == SubSeq(s, 1, n)
           T == {n \in 0 .. Len(s) : C!NoCR(P(n)) # P(n)}
<1>1. ASSUME T # {} PROVE FALSE
 <2>1. T \subseteq Nat OBVIOUS
 <2> HIDE DEF P
 <2>2. PICK n \in T : \A m \in T : n <= m BY <1>1, <2>1, Smallest
 <2>3. n \in 0 .. Len(s) /\ C!NoCR(P(n)) # P(n) BY <2>2
 <2>4. n # 0
  <3>1. P(0) = <<>> BY DEF P
  <3>2. C!NoCR(<<>>) = <<>> BY WithoutEmpty DEF C!NoCR
  <3> QED BY <2>3, <3>1, <3>2
 <2>5. n - 1 \in 0 .. Len(s) /\ n \in 1 .. Len(s) BY <2>3, <2>4
 <2>6. C!NoCR(P(n - 1)) = P(n - 1)
  <3>1. n - 1 \notin T BY <2>2, <2>5
  <3> QED BY <2>5, <3>1
 <2>7. P(n) = P(n - 1) \o <<s[n]>> BY <2>5, SubSeqRecursiveSecond DEF P
 <2>8. C!NoCR(P(n)) = C!NoCR(P(n - 1)) \o (IF s[n] = "cr" THEN <<>> ELSE <<s[n]>>)
   BY <2>5, NoCRFurther DEF P
 <2> QED BY <2>3, <2>5, <2>6, <2>7, <2>8
<1>2. Len(s) \notin T BY <1>1
<1>3. P(Len(s)) = s BY SubSeqFull
<1> HIDE DEF P
<1>4. C!NoCR(P(Len(s))) = P(Len(s))
 <2>1. Len(s) \in 0 .. Len(s) OBVIOUS
 <2> QED BY <1>2, <2>1
<1> QED BY <1>3, <1>4

Clean == /\ \A i \in 1 .. Len(body) : body[i] # "cr"
         /\ \A n \in 1 .. Len(bodies) : \A i \in 1 .. Len(bodies[n]) : bodies[n][i] # "cr"

LEMMA TakesClean ==
  ASSUME MessageTypes, Clean, NEW c \in Char, c # "cr", Takes(c) PROVE Clean'
<1>1. body \in Seq(Char) /\ bodies \in Seq(Seq(Char)) BY TypesAre DEF TextTyped
<1> DEFINE b == Append(body, c)
<1>2. b \in Seq(Char) /\ \A i \in 1 .. Len(b) : b[i] # "cr"
 <2>1. /\ Len(b) = Len(body) + 1 /\ Len(body) \in Nat /\ b[Len(body) + 1] = c
       /\ \A i \in 1 .. Len(body) : b[i] = body[i]
   BY <1>1
 <2>2. \A i \in 1 .. Len(b) : i \in 1 .. Len(body) \/ i = Len(body) + 1 BY <2>1
 <2>3. b \in Seq(Char) BY <1>1
 <2> HIDE DEF b
 <2> QED BY <2>1, <2>2, <2>3 DEF Clean
<1>3. ASSUME NEW x \in Seq(Char), \A i \in 1 .. Len(x) : x[i] # "cr", bodies' = Append(bodies, x)
      PROVE  \A n \in 1 .. Len(bodies') : \A i \in 1 .. Len(bodies'[n]) : bodies'[n][i] # "cr"
 <2>1. /\ Len(bodies') = Len(bodies) + 1 /\ Len(bodies) \in Nat /\ bodies'[Len(bodies) + 1] = x
       /\ \A n \in 1 .. Len(bodies) : bodies'[n] = bodies[n]
   BY <1>1, <1>3
 <2>2. \A n \in 1 .. Len(bodies') : n \in 1 .. Len(bodies) \/ n = Len(bodies) + 1 BY <2>1
 <2> QED BY <1>3, <2>1, <2>2 DEF Clean
<1> HIDE DEF b
<1>4. CASE bodies' = Append(bodies, body) /\ body' = <<c>>
 <2>1. \A i \in 1 .. Len(body') : body'[i] # "cr" BY <1>4
 <2>2. \A i \in 1 .. Len(body) : body[i] # "cr" BY DEF Clean
 <2> QED BY <1>1, <1>3, <1>4, <2>1, <2>2 DEF Clean
<1>5. CASE bodies' = Append(bodies, b) /\ body' = <<>>
 <2>1. \A i \in 1 .. Len(body') : body'[i] # "cr" BY <1>5
 <2> QED BY <1>2, <1>3, <1>5, <2>1 DEF Clean
<1>6. CASE bodies' = bodies /\ body' = b BY <1>2, <1>6 DEF Clean
<1> QED BY <1>4, <1>5, <1>6 DEF Takes, b

\* A line that fits the buffer is one body.
LEMMA OneBody ==
  ASSUME MessageTypes, NEW pos, NEW k \in 1 .. Length + 1, InFront(pos, k), Advance(pos, k),
         OneLineYet, Length <= BodySize, bodies \in {<<>>, <<text>>}
  PROVE  bodies' \in {<<>>, <<text>>}
<1>1. /\ Length \in Nat /\ Len(text) = Length /\ text \in Seq(Char) /\ BodySize \in Nat /\ BodySize > 1
      /\ bodies \in Seq(Seq(Char)) /\ body \in Seq(Char) /\ Len(body) \in Nat
  BY TypesAre DEF WriterTyped, Length, TextTyped
<1> DEFINE f == SubSeq(text, 1, k - 1)
<1>2. f \in Seq(Char) /\ Len(f) = k - 1 /\ \A i \in 1 .. k - 1 : f[i] = text[i] BY <1>1
<1>3. FlattenSeq(bodies) \o body = f
 <2>1. \A i \in 1 .. Len(f) : f[i] # "cr"
  <3>1. \A i \in 1 .. Len(f) : i \in 1 .. Length /\ f[i] = text[i] BY <1>1, <1>2
  <3> HIDE DEF f
  <3> QED BY <3>1 DEF OneLineYet
 <2>2. C!NoCR(f) = f BY <1>2, <2>1, NoCRNone
 <2> QED BY <2>2 DEF InFront
<1>4. \/ k <= Length /\ Takes(text[k]) /\ text[k] # "nl"
      \/ k = Length + 1 /\ Takes("nl")
 <2>1. k <= Length => k \in 1 .. Length BY <1>1
 <2>2. k < Length => k \in 1 .. Length BY <1>1
 <2> QED BY <2>1, <2>2 DEF Advance, OneLineYet
<1>5. CASE bodies = <<>>
 <2>1. body = f
  <3>1. <<>> \o body = body BY <1>1, ConcatEmptySeq
  <3>2. FlattenSeq(bodies) \o body = body BY <1>5, <3>1, FlattenEmpty
  <3> QED BY <1>3, <3>2
 <2>2. k = Length + 1 => f = text
  <3>1. k = Length + 1 => k - 1 = Len(text) BY <1>1
  <3> QED BY <1>1, <3>1, SubSeqFull
 <2>3. k <= Length => Append(f, text[k]) = SubSeq(text, 1, k)
  <3>1. ASSUME k <= Length PROVE Append(f, text[k]) = SubSeq(text, 1, k)
   <4>1. k \in 1 .. Len(text) /\ 1 \in 1 .. Len(text) BY <1>1, <3>1
   <4>2. SubSeq(text, 1, k) = f \o <<text[k]>> BY <1>1, <4>1, SubSeqRecursiveSecond
   <4>3. text[k] \in Char BY <1>1, <4>1
   <4> QED BY <1>2, <4>2, <4>3, AppendIsConcat
  <3> QED BY <3>1
 <2> HIDE DEF f
 <2>4. CASE k <= Length /\ Takes(text[k]) /\ text[k] # "nl"
  <3>1. CASE Len(body) + 1 = BodySize
   <4>1. k = Length BY <1>1, <1>2, <2>1, <2>4, <3>1
   <4>2. SubSeq(text, 1, k) = text BY <1>1, <4>1, SubSeqFull
   <4>3. bodies' = Append(<<>>, Append(body, text[k])) BY <1>5, <2>4, <3>1 DEF Takes
   <4>4. bodies' = Append(<<>>, text) BY <2>1, <2>3, <2>4, <4>2, <4>3
   <4> QED BY <4>4
  <3>2. CASE Len(body) + 1 # BodySize BY <1>5, <2>4, <3>2 DEF Takes
  <3> QED BY <3>1, <3>2
 <2>5. CASE k = Length + 1 /\ Takes("nl")
  <3>1. CASE body # <<>>
   <4>1. bodies' = Append(<<>>, text) BY <1>5, <2>1, <2>2, <2>5, <3>1 DEF Takes
   <4> QED BY <4>1
  <3>2. CASE body = <<>>
   <4>1. ~(Len(body) + 1 = BodySize) BY <1>1, <3>2
   <4> QED BY <1>5, <2>5, <3>2, <4>1 DEF Takes
  <3> QED BY <3>1, <3>2
 <2> QED BY <1>4, <2>4, <2>5
<1>6. CASE bodies = <<text>>
 <2>1. FlattenSeq(<<text>>) = text
  <3>1. <<>> \in Seq(Seq(Char)) /\ Append(<<>>, text) = <<text>> OBVIOUS
  <3>2. FlattenSeq(Append(<<>>, text)) = FlattenSeq(<<>>) \o text BY <1>1, <3>1, FlattenAppend
  <3>3. <<>> \o text = text BY <1>1, ConcatEmptySeq
  <3> QED BY <3>1, <3>2, <3>3, FlattenEmpty
 <2>2. Len(text \o body) = k - 1 BY <1>2, <1>3, <1>6, <2>1
 <2>3. Len(text \o body) = Length + Len(body) BY <1>1
 <2> HIDE DEF f
 <2>4. k = Length + 1 /\ Len(body) = 0 BY <1>1, <2>2, <2>3
 <2>5. body = <<>> /\ Takes("nl") /\ ~(Len(body) + 1 = BodySize) BY <1>1, <1>4, <2>4
 <2> QED BY <1>6, <2>5 DEF Takes
<1> QED BY <1>5, <1>6

LEMMA HandingKept ==
  ASSUME MessageInv, MessageNext PROVE Handing'
<1>1. MessageTypes /\ Apart /\ Handing BY DEF MessageInv
<1>2. ASSUME ~(own' /\ kind' = "cleartext" /\ phase' = "read") PROVE Handing' BY <1>2 DEF Handing
<1>3. ASSUME (\E c \in Char : Writes(c)) \/ Foreign \/ WriteLiteral \/ TakesPiece \/ LiteralEnds PROVE Handing'
  BY <1>2, <1>3 DEF Writes, Foreign, WriteLiteral, TakesPiece, LiteralEnds, SameMessage, clear
<1>4. ASSUME TextEnds PROVE Handing'
 <2>1. Untouched /\ state = "text" /\ SameReader BY <1>1, <1>4 DEF TextEnds, Apart
 <2>2. state' = "text" /\ ~r_errors' /\ body' = <<>> /\ bodies' = <<>>
   BY <2>1 DEF Untouched, SameReader
 <2>3. Len(<<>>) = 0 OBVIOUS
 <2>4. \A i \in 1 .. 0 : FALSE OBVIOUS
 <2> QED BY <2>2, <2>3, <2>4 DEF Handing
<1>5. ASSUME Reads, state' \in {"text", "trailer", "failed"}, ~r_errors \/ ~own \/ ~C!NoLoneCR => ~r_errors' \/ ~own \/ ~C!NoLoneCR,
             UNCHANGED <<body, bodies>>
      PROVE  Handing'
  BY <1>1, <1>5 DEF Handing, Reads, SameMessage, OneLineYet, Length, C!NoLoneCR
<1>6. ASSUME ReadsNoMore PROVE Handing' BY <1>5, <1>6 DEF ReadsNoMore
<1>7. ASSUME NEW h, ReadsPlain(h) \/ ReadsEscaped(h) \/ ReadsTrailer(h) PROVE Handing'
 <2>1. Reads /\ state = "text" BY <1>7 DEF ReadsPlain, ReadsEscaped, ReadsTrailer
 <2>2. UNCHANGED <<own, kind, phase, text>> BY <2>1 DEF Reads, SameMessage
 <2> SUFFICES ASSUME own, C!NoLoneCR PROVE Handing' BY <2>2 DEF Handing, C!NoLoneCR
 <2>3. PICK pos : Spans(text, wire, pos) /\ Closing(wire, pos[Length + 1]) /\ InPlace(pos)
   BY <2>1, PlaceKnown
 <2>4. Clean /\ ~r_errors /\ (OneLineYet /\ Length <= BodySize => bodies \in {<<>>, <<text>>})
   BY <1>1, <2>1 DEF Handing, Reads, Clean
 <2>5. CASE Behind(pos)
  <3>1. state' = "trailer" /\ ~r_errors' /\ UNCHANGED <<body, bodies>>
    BY <1>1, <1>7, <2>3, <2>5, Stops
  <3> QED BY <1>5, <2>1, <3>1
 <2>6. ASSUME NEW k \in 1 .. Length + 1, InFront(pos, k) PROVE Handing'
  <3>1. Advance(pos, k) /\ UNCHANGED <<state, r_errors>> BY <1>1, <1>7, <2>3, <2>6, Advances
  <3>2. \E c \in Char : c # "cr" /\ Takes(c)
   <4>1. text \in Seq(Char) /\ Length = Len(text) BY <1>1, TypesAre DEF WriterTyped, Length
   <4>2. k <= Length => text[k] \in Char BY <4>1
   <4> QED BY <3>1, <4>2, CharsAre DEF Advance
  <3>3. Clean' BY <1>1, <2>4, <3>2, TakesClean
  <3>4. OneLineYet /\ Length <= BodySize => bodies' \in {<<>>, <<text>>}
    BY <1>1, <2>4, <2>6, <3>1, OneBody
  <3>5. state' = "text" /\ ~r_errors' /\ (OneLineYet' <=> OneLineYet) /\ Length' = Length /\ text' = text
    BY <2>1, <2>2, <2>4, <3>1 DEF OneLineYet, Length
  <3> QED BY <3>3, <3>4, <3>5 DEF Handing, Clean
 <2> QED BY <2>1, <2>3, <2>5, <2>6 DEF InPlace
<1>8. ASSUME Judge PROVE Handing'
  BY <1>1, <1>8 DEF Handing, Judge, clear, OneLineYet, Length, C!NoLoneCR
<1>9. ASSUME AnotherMessage PROVE Handing' BY <1>9, FreshAnother, FreshThen
<1> QED BY <1>1, <1>3, <1>4, <1>6, <1>7, <1>8, <1>9, Steps

-----------------------------------------------------------------------------
(* The invariant holds. *)

LEMMA Stutter ==
  ASSUME MessageInv, UNCHANGED messageVars PROVE MessageInv'
<1>1. /\ UNCHANGED <<own, text, phase, w_nl, w_cr, trailing, wire, signed>>
      /\ UNCHANGED <<at, r_nl, body, r_hashed, bodies, state, r_errors>>
      /\ UNCHANGED <<kind, literal, pieces, later, sig, judged, use, data, result>>
  BY DEF messageVars, message, clear
<1>2. MessageTypes'
 <2>1. WriterTyped /\ TextTyped /\ PlaceTyped /\ LiteralTyped BY TypesAre DEF MessageInv
 <2>2. WriterTyped' /\ TextTyped' /\ PlaceTyped' /\ LiteralTyped'
   BY <1>1, <2>1 DEF WriterTyped, TextTyped, PlaceTyped, LiteralTyped
 <2> QED BY <2>2, TypesThen
<1>3. Apart' BY <1>1 DEF MessageInv, Apart, Untouched, Unwritten, Length, EndsWith
<1>4. Signing' BY <1>1 DEF MessageInv, Signing, NoLoneCRYet, OneLineYet, Length, EndsWith
<1>5. Hashing' BY <1>1 DEF MessageInv, Hashing
<1>6. Reading' BY <1>1 DEF MessageInv, Reading, InPlace, InFront, Behind, Length, C!NoLoneCR
<1>7. Handing' BY <1>1 DEF MessageInv, Handing, OneLineYet, Length, C!NoLoneCR
<1>8. Keeping' BY <1>1 DEF MessageInv, Keeping, Taken
<1>9. Judging'
  BY <1>1 DEF MessageInv, Judging, MessageEnded, Signatures, Best, Over, V!Judged, V!Checked
<1> QED BY <1>2, <1>3, <1>4, <1>5, <1>6, <1>7, <1>8, <1>9 DEF MessageInv

LEMMA Kept ==
  ASSUME MessageInv, [MessageNext]_messageVars PROVE MessageInv'
<1>1. ASSUME MessageNext PROVE MessageInv'
  BY <1>1, TypesKept, ApartKept, SigningKept, HashingKept, ReadingKept, HandingKept, KeepingKept,
     JudgingKept DEF MessageInv
<1> QED BY <1>1, Stutter

THEOREM MessageInvariant == MessageSpec => []MessageInv
<1>1. MessageInv /\ [MessageNext]_messageVars => MessageInv' BY Kept
<1> QED BY Beginning, <1>1, PTL DEF MessageSpec

-----------------------------------------------------------------------------
(* What follows from it. *)

LEMMA OnlyCR ==
  ASSUME NEW s \in Seq(Char), C!NoCR(s) = <<>> PROVE \A i \in 1 .. Len(s) : s[i] = "cr"
<1> DEFINE left(n) == C!NoCR(SubSeq(s, 1, n))
           T == {n \in 0 .. Len(s) : left(n) = <<>> /\ \E i \in 1 .. n : s[i] # "cr"}
<1>1. ASSUME T # {} PROVE FALSE
 <2>1. T \subseteq Nat OBVIOUS
 <2> HIDE DEF left
 <2>2. PICK n \in T : \A m \in T : n <= m BY <1>1, <2>1, Smallest
 <2>3. n \in 1 .. Len(s) /\ n - 1 \in 0 .. Len(s) /\ left(n) = <<>> BY <2>2
 <2>4. left(n) = left(n - 1) \o (IF s[n] = "cr" THEN <<>> ELSE <<s[n]>>)
   BY <2>3, NoCRFurther DEF left
 <2>5. left(n - 1) \in Seq(Char)
  <3>1. SubSeq(s, 1, n - 1) \in Seq(Char) BY <2>3
  <3> QED BY <3>1, WithoutType DEF left, C!NoCR
 <2>6. s[n] = "cr"
  <3>1. s[n] # "cr" => Len(left(n - 1) \o <<s[n]>>) = Len(left(n - 1)) + 1 BY <2>3, <2>5
  <3> QED BY <2>3, <2>4, <2>5, <3>1
 <2>7. left(n - 1) = <<>> BY <2>3, <2>4, <2>5, <2>6, ConcatEmptySeq
 <2>8. PICK i \in 1 .. n : s[i] # "cr" BY <2>2
 <2>9. i \in 1 .. n - 1 BY <2>3, <2>6, <2>8
 <2>10. n - 1 \in T BY <2>3, <2>7, <2>8, <2>9
 <2> QED BY <2>2, <2>3, <2>10
<1>2. left(Len(s)) = <<>> /\ Len(s) \in 0 .. Len(s)
 <2>1. SubSeq(s, 1, Len(s)) = s BY SubSeqFull
 <2>2. left(Len(s)) = <<>> BY <2>1
 <2> QED BY <2>2
<1> HIDE DEF left
<1> QED BY <1>1, <1>2

LEMMA NoLoneIs ==
  ASSUME MessageTypes, C!NoLoneCR
  PROVE  NoLoneCRYet /\ ~EndsWith("cr") /\ (C!NoCR(text) = <<>> => text = <<>>)
<1>1. text \in Seq(Char) /\ Length = Len(text) /\ Length \in Nat
  BY TypesAre DEF WriterTyped, Length
<1>2. \A i \in 1 .. Length : text[i] = "cr" => i < Length /\ text[i + 1] = "nl"
  BY <1>1 DEF C!NoLoneCR
<1>3. NoLoneCRYet BY <1>1, <1>2 DEF NoLoneCRYet
<1>4. ~EndsWith("cr") BY <1>1, <1>2 DEF EndsWith
<1>5. ASSUME C!NoCR(text) = <<>> PROVE text = <<>>
 <2>1. \A i \in 1 .. Length : text[i] = "cr" BY <1>1, <1>5, OnlyCR
 <2>2. ~(1 \in 1 .. Length)
  <3> SUFFICES ASSUME 1 \in 1 .. Length PROVE FALSE OBVIOUS
  <3>1. 2 \in 1 .. Length /\ text[2] = "nl" BY <1>1, <1>2, <2>1
  <3> QED BY <2>1, <3>1
 <2> QED BY <1>1, <2>2
<1> QED BY <1>3, <1>4, <1>5

LEMMA TextIsHanded ==
  ASSUME MessageInv, own, C!NoLoneCR, MessageEnded
  PROVE  FlattenSeq(bodies) = C!NoCR(text) /\ at = Len(wire) + 1
<1>1. kind \in {"cleartext", "literal"} /\ wire \in Seq(Char)
  BY TypesAre DEF MessageInv, LiteralTyped, WriterTyped
<1>2. CASE kind = "cleartext" BY <1>2 DEF MessageInv, Reading, InPlace, MessageEnded
<1>3. CASE kind = "literal"
 <2>1. text = <<>> /\ wire = <<>> /\ bodies = <<>> /\ at = 1
   BY <1>3 DEF MessageInv, Apart, Untouched, Unwritten
 <2>2. C!NoCR(<<>>) = <<>> /\ Len(<<>>) = 0 BY WithoutEmpty DEF C!NoCR
 <2> QED BY <2>1, <2>2, FlattenEmpty
<1> QED BY <1>1, <1>2, <1>3

LEMMA ReadBackFollows == MessageInv => TextReadBack
<1> SUFFICES ASSUME MessageInv PROVE TextReadBack OBVIOUS
<1>1. C!TextRecovered BY TextIsHanded, FlattenThere DEF C!TextRecovered, C!Done, MessageEnded
<1>2. C!OnlyBlockEndsText
 <2> SUFFICES ASSUME own, C!NoLoneCR, phase = "read"
              PROVE  state # "abort" /\ ~r_errors /\ (state = "trailer" => at = Len(wire) + 1)
   BY DEF C!OnlyBlockEndsText
 <2>1. kind = "cleartext" \/ kind = "literal" BY TypesAre DEF MessageInv, LiteralTyped
 <2>2. state # "abort" /\ ~r_errors BY <2>1 DEF MessageInv, Handing, Apart, Untouched
 <2>3. state = "trailer" => at = Len(wire) + 1 BY TextIsHanded DEF MessageEnded
 <2> QED BY <2>2, <2>3
<1> QED BY <1>1, <1>2 DEF TextReadBack, C!TextReadBack

\* What the signature is compared with decides, if it is good.
LEMMA VerdictIs ==
  ASSUME MessageInv, judged # Unjudged
  PROVE  /\ MessageEnded /\ result[judged] > 0 /\ judged \in V!Lists
         /\ judged = "valid" <=> Good(sig) /\ Over = data
<1>1. MessageEnded /\ result[judged] > 0 /\ sig \in Signatures /\ judged = V!Judged(sig)
  BY DEF MessageInv, Judging
<1>2. sig.over = Over BY <1>1 DEF Signatures, Best
<1>3. judged = "valid" <=> sig.known /\ V!Checked(sig) BY <1>1 DEF V!Judged
<1>4. judged \in V!Lists BY <1>1 DEF V!Judged, V!Lists
<1> QED BY <1>1, <1>2, <1>3, <1>4 DEF V!Checked, Good

LEMMA LiteralIsGiven ==
  ASSUME MessageInv, MessageEnded, kind = "literal"
  PROVE  /\ FlattenSeq(pieces) = literal
         /\ Len(literal) \in 1 .. BodySize => data = literal
<1>1. literal \in Seq({"x", "nl"}) /\ pieces \in Seq(Seq({"x", "nl"})) /\ BodySize \in Nat
  BY TypesAre DEF MessageInv, LiteralTyped
<1>2. Taken = Len(literal) /\ FlattenSeq(pieces) = SubSeq(literal, 1, Taken)
  BY DEF MessageInv, Keeping, MessageEnded
<1>3. FlattenSeq(pieces) = literal BY <1>1, <1>2, SubSeqFull
<1>4. ASSUME Len(literal) \in 1 .. BodySize PROVE data = literal
 <2>1. pieces # <<>> BY <1>2, <1>4, FlattenEmpty DEF Taken
 <2> QED BY <1>1, <1>4, <2>1 DEF MessageInv, Keeping
<1> QED BY <1>3, <1>4

\* A text of more than one line has a CR in front of a LF among what is signed,
\* and no body has one.
LEMMA OneLineIsKept ==
  ASSUME MessageInv, MessageEnded, kind = "cleartext", own, C!NoLoneCR, signed = data
  PROVE  OneLineYet
<1> SUFFICES ASSUME ~OneLineYet PROVE FALSE OBVIOUS
<1>1. PICK j \in 1 .. Len(signed) : signed[j] = "cr" BY DEF MessageInv, Signing
<1>2. text \in Seq(Char) /\ bodies \in Seq(Seq(Char)) /\ MessageTypes
  BY TypesAre DEF MessageInv, WriterTyped, TextTyped
<1>3. CASE bodies = <<>>
 <2>1. C!NoCR(text) = <<>> BY <1>3, TextIsHanded, FlattenEmpty
 <2>2. text = <<>> BY <1>2, <2>1, NoLoneIs
 <2> QED BY <2>2 DEF OneLineYet, Length
<1>4. CASE bodies # <<>>
 <2>1. Len(bodies) \in 1 .. Len(bodies) /\ data = bodies[Len(bodies)]
   BY <1>2, <1>4 DEF MessageInv, Keeping
 <2>2. \A i \in 1 .. Len(bodies[Len(bodies)]) : bodies[Len(bodies)][i] # "cr"
   BY <2>1 DEF MessageInv, Handing, MessageEnded
 <2> QED BY <1>1, <2>1, <2>2
<1> QED BY <1>3, <1>4

LEMMA TextIsKept ==
  ASSUME MessageInv, MessageEnded, kind = "cleartext", own, C!NoLoneCR, OneLineYet
  PROVE  /\ FlattenSeq(bodies) = text
         /\ Length \in 1 .. BodySize /\ C!EndBlanks(text) = {} => signed = data
<1>1. text \in Seq(Char) /\ Length = Len(text) /\ BodySize \in Nat
  BY TypesAre DEF MessageInv, WriterTyped, Length
<1>2. \A i \in 1 .. Len(text) : text[i] # "cr" BY <1>1 DEF OneLineYet
<1>3. FlattenSeq(bodies) = text BY <1>1, <1>2, NoCRNone, TextIsHanded
<1>4. ASSUME Length \in 1 .. BodySize, C!EndBlanks(text) = {} PROVE signed = data
 <2>1. signed = text BY <1>4 DEF MessageInv, Signing, MessageEnded
 <2>2. bodies # <<>> BY <1>1, <1>3, <1>4, FlattenEmpty
 <2>3. bodies = <<text>> BY <1>1, <1>4, <2>2 DEF MessageInv, Handing, MessageEnded
 <2>4. data = bodies[1] BY <2>2, <2>3 DEF MessageInv, Keeping
 <2> QED BY <2>1, <2>3, <2>4
<1> QED BY <1>3, <1>4

LEMMA JudgedFollows == MessageInv => JudgedRight
<1> SUFFICES ASSUME MessageInv, judged # Unjudged
             PROVE  /\ Plain /\ judged = "valid" => Good(sig) /\ Given = Written
                    /\ Plain /\ Good(sig) /\ OneLine /\ Len(Written) \in 1 .. BodySize => judged = "valid"
                    /\ V!Status => judged = "valid"
  BY DEF JudgedRight
<1>1. /\ MessageEnded /\ result[judged] > 0 /\ judged \in V!Lists
      /\ judged = "valid" <=> Good(sig) /\ Over = data
  BY VerdictIs
<1>2. kind = "cleartext" \/ kind = "literal" BY TypesAre DEF MessageInv, LiteralTyped
<1>3. ASSUME Plain, judged = "valid" PROVE Good(sig) /\ Given = Written
 <2>1. CASE kind = "literal" BY <1>1, <1>3, <2>1, LiteralIsGiven DEF Given, Written
 <2>2. CASE kind = "cleartext"
  <3>1. own /\ C!NoLoneCR /\ Over = signed BY <1>3, <2>2 DEF Plain, Over
  <3> QED BY <1>1, <1>3, <2>2, <3>1, OneLineIsKept, TextIsKept DEF Given, Written
 <2> QED BY <1>2, <2>1, <2>2
<1>4. ASSUME Plain, Good(sig), OneLine, Len(Written) \in 1 .. BodySize PROVE judged = "valid"
 <2>1. CASE kind = "literal" BY <1>1, <1>4, <2>1, LiteralIsGiven DEF Over, Written
 <2>2. CASE kind = "cleartext"
  <3>1. own /\ C!NoLoneCR /\ Over = signed /\ Written = text
    BY <1>4, <2>2 DEF Plain, Over, Written
  <3>2. {"cr", "nl"} \cap Range(text) = {} /\ C!EndBlanks(text) = {} BY <1>4, <2>2 DEF OneLine
  <3>3. OneLineYet
   <4>1. text \in Seq(Char) BY TypesAre DEF MessageInv, WriterTyped
   <4>2. \A i \in 1 .. Len(text) : text[i] \in Range(text) BY <4>1 DEF Range
   <4> QED BY <3>2, <4>2 DEF OneLineYet, Length
  <3> QED BY <1>1, <1>4, <2>2, <3>1, <3>2, <3>3, TextIsKept DEF Length
 <2> QED BY <1>2, <2>1, <2>2
<1>5. V!Status => judged = "valid" BY <1>1 DEF V!Status, V!Lists
<1> QED BY <1>3, <1>4, <1>5

LEMMA HashesFollow == MessageInv => HashesRight
<1> SUFFICES ASSUME MessageInv PROVE HashesRight OBVIOUS
<1>1. text \in Seq(Char) /\ signed \in Seq(Char) /\ MessageTypes
  BY TypesAre DEF MessageInv, WriterTyped
<1>2. C!SignedIsCanonical
 <2> SUFFICES ASSUME own, C!NoLoneCR PROVE signed = C!Canonical(text) BY DEF C!SignedIsCanonical
 <2>1. signed = C!Canonical(text) \o <<>> BY <1>1, NoLoneIs DEF MessageInv, Signing
 <2>2. C!Canonical(text) \in Seq(Char) BY <1>1, WithoutType, LineEndType DEF C!Canonical
 <2> QED BY <2>1, <2>2, ConcatEmptySeq
<1>3. C!HashIsOfBodies BY FlattenThere DEF MessageInv, Hashing, C!HashIsOfBodies
<1>4. C!HashesAgree
 <2> SUFFICES ASSUME own, C!NoLoneCR, C!EndBlanks(text) = {}, C!Done,
                     \A i \in 1 .. Len(bodies) : Len(bodies[i]) < BodySize
              PROVE  r_hashed = signed
   BY DEF C!HashesAgree
 <2>1. r_hashed = C!CRLF(FlattenSeq(bodies)) BY DEF MessageInv, Hashing
 <2>2. FlattenSeq(bodies) = C!NoCR(text) BY TextIsHanded DEF C!Done, MessageEnded
 <2>3. signed = C!CRLF(C!Without(text, {})) BY <1>2 DEF C!SignedIsCanonical, C!Canonical
 <2> QED BY <2>1, <2>2, <2>3 DEF C!NoCR
<1>5. JudgedRight BY JudgedFollows
<1> QED BY <1>2, <1>3, <1>4, <1>5 DEF HashesRight, C!HashesRight

\* Types, and that every body fits its buffer: process_dash_escaped never writes
\* behind body->data, parse_literal_data never behind its own.
THEOREM MessageAlwaysTyped == MessageSpec => []MessageTypeOK
<1>1. MessageInv => MessageTypeOK BY DEF MessageInv, MessageTypes
<1> QED BY <1>1, MessageInvariant, PTL

\* What dash_escaped_writer wrote, process_dash_escaped gives back as it was, and
\* stops where it ends.
THEOREM TextAlwaysReadBack == MessageSpec => []TextReadBack
BY ReadBackFollows, MessageInvariant, PTL

\* Signer and verifier hash the same, and the verdict of validate_data_cb is right
\* for what this library wrote.
THEOREM HashesAlwaysRight == MessageSpec => []HashesRight
BY HashesFollow, MessageInvariant, PTL
=============================================================================
