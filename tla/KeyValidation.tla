---------------------------- MODULE KeyValidation ----------------------------
(***************************************************************************)
(* A keyring is filled from a stream of packets (accumulate.c), and then   *)
(* the signatures on its keys are validated (validate.c).  Each key keeps  *)
(* the raw packets that followed it; keydata_reader feeds them to a second *)
(* parse, whose callback remembers what a signature may be about and takes *)
(* the raw signature from where keydata_reader is at that moment.          *)
(*                                                                         *)
(* Packets are those that parse without an error, all of one length.  A    *)
(* cryptographic check is what it stands for: the signature was made by    *)
(* its signer over the objects that are hashed.                            *)
(***************************************************************************)
EXTENDS Naturals, Sequences, FiniteSets, SequencesExt

CONSTANTS
  Packets,     \* those that may come: [kind, id], signatures also with
               \* type, signer (a key's id) and over (the signed objects)
  MaxPackets,  \* packets of a keyring
  PacketLen,   \* units of a packet
  SigSize,     \* sizeof(ops_signature_info_t)
  KeyIdSize,   \* OPS_KEY_ID_SIZE
  None         \* a field that memset has cleared

ASSUME KeyValidationAssumption ==
  /\ MaxPackets \in Nat /\ PacketLen \in Nat \ {0}
  /\ {SigSize, KeyIdSize} \subseteq Nat \ {0, 1}

\* A secret subkey comes as a "secret" or "encrypted" packet as well:
\* parse_secret_key reports both in the same way.
KeyKinds == {"public", "secret", "encrypted"}
Kinds == KeyKinds \cup {"subkey", "user_id", "attribute", "trust", "signature"}

\* What is signed is there: no signature was made over cleared memory.
ASSUME PacketsAssumption ==
  /\ None # "user_id"
  /\ \A p \in Packets :
       /\ p.kind \in Kinds
       /\ p.kind = "signature" =>
            /\ p.type \in {"cert", "subkey", "direct", "other"}
            /\ p.over = <<p.over[1], p.over[2]>> /\ p.over[2] # <<"attribute", None>>

VARIABLES
  phase,     \* "reading", "validating", "done", "abort"
  stream,    \* the packets read so far
  keys,      \* keyring->keys: id, user IDs and raw packets of each
  key,       \* the key that is validated
  packet,    \* arg->packet and
  offset,    \* arg->offset of keydata_reader
  got,       \* units the parser has of a packet
  content,   \* and which packet of the key these are from
  carg,      \* validate_key_cb_arg_t: pkey, subkey, user_id, user_attribute, last_seen
  result,    \* the lists of ops_validate_result_t
  judged,    \* every signature that was put on a list, with its verdict
  crossed,   \* keydata_reader was asked to cross a packet boundary
  status     \* what ops_validate_all_signatures returned

readerVars == <<packet, offset, got, content>>
vars == <<phase, stream, keys, key, readerVars, carg, result, judged, crossed, status>>

-----------------------------------------------------------------------------
(* accumulate_cb *)

NewKey(p) == [id |-> p.id, uids |-> <<>>, packets |-> <<>>]

\* The callback for the content of a packet.
Content(ks, p) ==
  CASE p.kind \in KeyKinds -> Append(ks, NewKey(p))
    [] p.kind = "user_id" /\ ks # <<>> ->
         [ks EXCEPT ![Len(ks)].uids = Append(@, p.id)]
    [] OTHER -> ks

\* Mutant: the packet of a key goes to the key before it, which was the last
\* one when the packet began.
PacketEnd_Stale(ks, p) ==
  LET cur == IF p.kind \in KeyKinds /\ Len(ks) > 1 THEN Len(ks) - 1 ELSE Len(ks)
  IN  IF ks = <<>> THEN ks ELSE [ks EXCEPT ![cur].packets = Append(@, p)]
\* The callback for the packet as a whole.
PacketEnd(ks, p) ==
  IF ks = <<>> THEN ks ELSE [ks EXCEPT ![Len(ks)].packets = Append(@, p)]

\* ops_parse_and_accumulate; a second file that is read into the same ring
\* goes on where the first one ended.
ReadPacket(p) ==
  /\ phase = "reading" /\ Len(stream) < MaxPackets
  /\ stream' = Append(stream, p)
  /\ keys' = PacketEnd(Content(keys, p), p)
  /\ UNCHANGED <<phase, key, readerVars, carg, result, judged, crossed, status>>

-----------------------------------------------------------------------------
(* The result lists *)

NoList == [count |-> 0, sigs |-> <<>>]

\* The array grows by one element.  The size of an element is counted twice in
\* where the new one goes, so only the first of a list goes into the array;
\* what a write outside does is undefined, here it is lost.
AddSig(list, sig, scale) ==
  LET n == list.count
      start == scale * n
  IN  [count |-> n + 1,
       sigs  |-> [i \in 1 .. n + 1 |->
                    IF i = start + 1 THEN sig
                    ELSE IF i <= n THEN list.sigs[i] ELSE None]]

Status(r) == r.invalid.count = 0 /\ r.unknown.count = 0 /\ r.valid.count > 0

-----------------------------------------------------------------------------
(* ops_validate_all_signatures, ops_validate_key_signatures *)

NoArg == [pkey |-> None, subkey |-> None, user_id |-> None,
          user_attribute |-> None, last_seen |-> None]

Init ==
  /\ phase = "reading" /\ stream = <<>> /\ keys = <<>> /\ key = 0
  /\ packet = 0 /\ offset = 0 /\ got = 0 /\ content = 0
  /\ carg = NoArg /\ judged = <<>> /\ crossed = FALSE /\ status = FALSE
  /\ result = [valid |-> NoList, invalid |-> NoList, unknown |-> NoList]

NextKey ==
  /\ packet' = 0 /\ offset' = 0 /\ got' = 0 /\ content' = 0
  /\ carg' = NoArg
  /\ IF key < Len(keys)
       THEN key' = key + 1 /\ phase' = "validating" /\ UNCHANGED status
       ELSE phase' = "done" /\ status' = Status(result) /\ UNCHANGED key
  /\ UNCHANGED <<stream, keys, result, judged, crossed>>

StartValidation == phase = "reading" /\ NextKey

-----------------------------------------------------------------------------
(* keydata_reader *)

Position(i, o) == [packet |-> i, offset |-> o]

\* Mutant: the offset is not reset.
Moved_SameOffset == IF offset = PacketLen THEN Position(packet + 1, offset)
                                          ELSE Position(packet, offset)
\* Mutant: packets are counted from one, and from zero.
Moved_Twice == IF offset = PacketLen THEN Position(packet + 2, 0)
                                     ELSE Position(packet, offset)
\* Only the read after the last one of a packet moves on to the next.
Moved == IF offset = PacketLen THEN Position(packet + 1, 0)
                               ELSE Position(packet, offset)

AtEnd == Moved.packet = Len(keys[key].packets)

\* Mutant: moves on at once when a packet is used up.
After_Eager(p) ==
  IF p.offset = PacketLen THEN Position(p.packet + 1, 0) ELSE p
After(p) == p

\* A read of the parser: a part of a packet, and never more than is left of it
\* by the parser's count.
ReadData(n) ==
  /\ phase = "validating" /\ ~AtEnd /\ n <= PacketLen - got
  /\ IF Moved.offset + n <= PacketLen
       THEN LET p == After(Position(Moved.packet, Moved.offset + n))
            IN  /\ packet' = p.packet /\ offset' = p.offset
                /\ got' = got + n
                /\ content' = IF got = 0 THEN Moved.packet + 1 ELSE content
                /\ UNCHANGED <<phase, crossed>>
       ELSE /\ phase' = "abort" /\ crossed' = TRUE
            /\ UNCHANGED readerVars
  /\ UNCHANGED <<stream, keys, key, carg, result, judged, status>>

\* The packets are used up, and ops_parse returns.
ReadEOF == phase = "validating" /\ got < PacketLen /\ AtEnd /\ NextKey

-----------------------------------------------------------------------------
(* ops_validate_key_cb, for the packet that the parser has got *)

Parsed == keys[key].packets[content]

GotPacket(kinds) ==
  /\ phase = "validating" /\ got = PacketLen
  /\ Parsed.kind \in kinds
  /\ UNCHANGED <<stream, keys, key, packet, offset, content, crossed, status>>

\* Mutant: a user ID does not count as seen.
Remembered_NoID(p) ==
  CASE p.kind \in KeyKinds  -> [carg EXCEPT !.pkey = p.id]
    [] p.kind = "subkey"    -> [carg EXCEPT !.subkey = p.id]
    [] p.kind = "user_id"   -> [carg EXCEPT !.user_id = p.id]
    [] p.kind = "attribute" -> [carg EXCEPT !.user_attribute = p.id,
                                            !.last_seen = "attribute"]
    [] OTHER                -> carg
Remembered(p) ==
  CASE p.kind \in KeyKinds  -> [carg EXCEPT !.pkey = p.id]
    [] p.kind = "subkey"    -> [carg EXCEPT !.subkey = p.id]
    [] p.kind = "user_id"   -> [carg EXCEPT !.user_id = p.id,
                                            !.last_seen = "user_id"]
    [] p.kind = "attribute" -> [carg EXCEPT !.user_attribute = p.id,
                                            !.last_seen = "attribute"]
    [] OTHER                -> carg

Remember ==
  /\ GotPacket(Kinds \ {"signature"})
  /\ Parsed.kind = "public" => carg.pkey = None
  /\ got' = 0 /\ carg' = Remembered(Parsed)
  /\ UNCHANGED <<phase, result, judged>>

\* Without the passphrase the key comes still encrypted, a content the callback
\* does not expect: assert(0).
NoPassphrase ==
  /\ GotPacket({"encrypted"})
  /\ phase' = "abort"
  /\ UNCHANGED <<got, carg, result, judged>>

KnownSigner(p) == \E k \in DOMAIN keys : keys[k].id = p.signer

\* What is hashed for a signature, besides the trailer from its raw packet.
Hashed(p) ==
  <<carg.pkey,
    CASE p.type = "cert" /\ carg.last_seen = "user_id" -> <<"user_id", carg.user_id>>
      [] p.type = "cert" /\ carg.last_seen # "user_id" ->
           <<"attribute", carg.user_attribute>>
      [] p.type = "subkey" -> <<"subkey", carg.subkey>>
      [] OTHER -> <<>>>>

\* The type is one that is checked, and the raw packet is the signature's own.
Good(p) == p.type # "other" /\ packet + 1 = content /\ p.over = Hashed(p)

\* Mutant: a signature whose signer is not there is judged as well.
Verdicts_FallThrough(p) ==
  IF KnownSigner(p) THEN IF Good(p) THEN <<"valid">> ELSE <<"invalid">>
                    ELSE <<"unknown", "invalid">>
Verdicts(p) ==
  IF KnownSigner(p) THEN IF Good(p) THEN <<"valid">> ELSE <<"invalid">>
                    ELSE <<"unknown">>

Scale(verdict) == IF verdict = "unknown" THEN KeyIdSize ELSE SigSize

\* hash_add_key for a subkey that has not come stops at an assertion.
NoSubkey(p) == KnownSigner(p) /\ p.type = "subkey" /\ carg.subkey = None

JudgeSignature ==
  /\ GotPacket({"signature"})
  /\ IF NoSubkey(Parsed)
       THEN phase' = "abort" /\ UNCHANGED <<got, result, judged>>
       ELSE LET at == <<key, content>>
                vs == Verdicts(Parsed)
            IN  /\ got' = 0 /\ UNCHANGED phase
                /\ judged' = judged \o [i \in DOMAIN vs |-> <<at, vs[i]>>]
                /\ result' = [v \in DOMAIN result |->
                     IF Contains(vs, v) THEN AddSig(result[v], at, Scale(v))
                                        ELSE result[v]]
  /\ UNCHANGED carg

-----------------------------------------------------------------------------

Next ==
  \/ \E p \in Packets : ReadPacket(p)
  \/ StartValidation
  \/ \E n \in 1 .. PacketLen : ReadData(n)
  \/ ReadEOF
  \/ Remember \/ NoPassphrase \/ JudgeSignature

Spec == Init /\ [][Next]_vars

-----------------------------------------------------------------------------

IsSignature(p) == p.kind = "signature"

\* Where the signatures of the keyring are: of which key, and which packet of it.
Places ==
  {at \in UNION {{k} \X DOMAIN keys[k].packets : k \in DOMAIN keys} :
     IsSignature(keys[at[1]].packets[at[2]])}
Precedes(a, b) == a[1] < b[1] \/ (a[1] = b[1] /\ a[2] < b[2])

\* The last packet of the key before place i that is of one of the kinds.
LastOf(k, i, kinds) ==
  LET before == {j \in 1 .. i - 1 : keys[k].packets[j].kind \in kinds}
  IN  IF before = {} THEN <<>>
      ELSE LET p == keys[k].packets[CHOOSE j \in before : \A m \in before : m <= j]
           IN  <<p.kind, p.id>>

\* A signature of the key made over it and over what precedes it there.
Genuine(k, i) ==
  LET p == keys[k].packets[i]
  IN  /\ p.over[1] = keys[k].id
      /\ \/ p.type = "cert" /\ p.over[2] # <<>>
           /\ p.over[2] = LastOf(k, i, {"user_id", "attribute"})
         \/ p.type = "subkey" /\ p.over[2] # <<>>
           /\ p.over[2] = LastOf(k, i, {"subkey"})
         \/ p.type = "direct" /\ p.over[2] = <<>>

\* Those judged so.
Judged(v) == {n \in DOMAIN judged : judged[n][2] = v}

\* The types, and that keydata_reader stays in the packets of its key.
TypeOK ==
  /\ phase \in {"reading", "validating", "done", "abort"}
  /\ stream \in Seq(Packets) /\ Len(stream) <= MaxPackets
  /\ key \in 0 .. Len(keys) /\ offset \in 0 .. PacketLen /\ got \in 0 .. PacketLen
  /\ packet \in 0 .. (IF key = 0 THEN 0 ELSE Len(keys[key].packets))
  /\ content \in 0 .. (IF key = 0 THEN 0 ELSE Len(keys[key].packets))
  /\ crossed \in BOOLEAN /\ status \in BOOLEAN
  /\ \A v \in DOMAIN result : Len(result[v].sigs) = result[v].count

\* Which one of the set, in order.
Rank(i, set) == Cardinality({j \in set : j <= i})
\* The places of a sequence of packets that are of one of the kinds.
OfKind(ps, kinds) == {i \in DOMAIN ps : ps[i].kind \in kinds}

\* A key has the packets from i on up to the next one that begins a key.
Firsts == OfKind(stream, KeyKinds)
HoldsFrom(k, i) ==
  /\ k.id = stream[i].id
  /\ \E end \in i .. Len(stream) :
       /\ \A j \in i + 1 .. end : j \notin Firsts
       /\ end = Len(stream) \/ end + 1 \in Firsts
       /\ k.packets = SubSeq(stream, i, end)
UserIDsKept(k) ==
  LET ids == OfKind(k.packets, {"user_id"})
  IN  /\ Len(k.uids) = Cardinality(ids)
      /\ \A i \in ids : k.uids[Rank(i, ids)] = k.packets[i].id

\* The keys share the packets of the stream among them: the n-th key packet
\* begins the n-th key, which has all that comes up to the next one, so that
\* nothing is lost, doubled or moved from the first key on; and its user IDs are
\* those of its packets, in order.
KeysPartitionStream ==
  /\ Len(keys) = Cardinality(Firsts)
  /\ \A i \in Firsts : HoldsFrom(keys[Rank(i, Firsts)], i)
  /\ \A k \in DOMAIN keys : UserIDsKept(keys[k])

\* Those that come before a signature are judged before it, and no others.
InTurn ==
  \A n \in DOMAIN judged :
    /\ judged[n][1] \in Places
    /\ \A at \in Places :
         Precedes(at, judged[n][1]) <=> \E m \in 1 .. n - 1 : judged[m][1] = at
CountsAddUp == \A v \in DOMAIN result : result[v].count = Cardinality(Judged(v))

\* ops_validate_all_signatures judges the signatures of the keyring in order,
\* none twice or left out on the way, and in the end all; the counts add up, and
\* it returns TRUE exactly when there are signatures and all of them are good.
JudgedInOrder ==
  /\ InTurn /\ CountsAddUp
  /\ phase = "done" =>
       /\ \A at \in Places : \E n \in DOMAIN judged : judged[n][1] = at
       /\ status = (judged # <<>> /\ Judged("valid") = DOMAIN judged)

\* A signature counts as valid exactly when its signer is in the keyring and it
\* was made over the key and the user ID, attribute or subkey that is next
\* before it: nothing stale is hashed, and the raw packet is its own.
ValidIffGenuine ==
  \A n \in DOMAIN judged :
    LET at == judged[n][1]
        p  == keys[at[1]].packets[at[2]]
    IN  judged[n][2] = IF ~KnownSigner(p) THEN "unknown"
                       ELSE IF Genuine(at[1], at[2]) THEN "valid" ELSE "invalid"

\* "we should never be asked to cross a packet boundary in a single read"
NeverCrosses == ~crossed

\* Every signature of the keyring is judged once, in order, over the data it
\* was made over, and read from packets that no read runs across.
JudgedRight == JudgedInOrder /\ ValidIffGenuine /\ NeverCrosses
=============================================================================
