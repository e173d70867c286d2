----------------------------- MODULE PacketParse -----------------------------
(***************************************************************************)
(* ops_parse and ops_parse_one_packet of packet-parse.c with the handler   *)
(* of every packet type, the packets inside packets that compressed and    *)
(* encrypted data bring, and the stack of readers they push and pop.       *)
(*                                                                         *)
(* A handler is a straight-line program: the sequence of its reads and     *)
(* checks, one sequence for every way its branches can go.  Fields that    *)
(* are read and checked one after the other and fail alike are one read of *)
(* one unit; callbacks are left out.  What is in a field is not modelled:  *)
(* a check of it may fail or not.  What tells the failures apart is what   *)
(* they leave behind:                                                      *)
(*    check   OPS_ERROR, the error goes on the stack of pinfo              *)
(*    errp    ERRP or a bare return 0: the callback may be errors, but       *)
(*            pinfo->errors knows nothing of it                            *)
(***************************************************************************)
EXTENDS Integers, Sequences, FiniteSets, SequencesExt

CONSTANTS StreamLen,  \* units in the outermost stream
          MaxLen,     \* largest packet length
          MaxInner,   \* most units a compressed packet expands to
          MaxNest     \* packets inside packets that are opened

ASSUME ParseConstants ==
  StreamLen \in Nat /\ MaxLen \in Nat /\ MaxInner \in Nat /\ MaxNest \in Nat

VARIABLES
  mode,     \* where ops_parse is, see Modes
  frames,   \* the packets being parsed with their regions, the innermost last
  readers,  \* pinfo->rinfo and its next pointers, the current reader last
  errors,   \* pinfo->errors is not empty
  failed,   \* some packet has returned 0 or -1 other than at the stream's end
  accumulate, \* rinfo.accumulate, copied by ops_reader_push
  decrypt,  \* ops_parse_get_decrypt finds a key
  result    \* what the outermost ops_parse returns

vars == <<mode, frames, readers, errors, failed,
          accumulate, decrypt, result>>

-----------------------------------------------------------------------------
(* The handlers. *)

\* What a handler can do in one step; an action below for each.
Steps ==
  {"read", "rest", "whole", "exact", "check", "errp", "fail", "body", "accumulated",
   "subpackets", "push_hash", "push_decrypt", "push_decompress", "push_seip", "pop",
   "repeat", "parse", "key", "numbers", "enter", "enter_v3", "leave", "read_if_ret",
   "errp_if_ret", "assert_length", "return_ret", "consume"}

\* Handlers that read fields and no more, parse_user_id the whole packet and
\* parse_trust and parse_user_attribute what read_data finds left of it.
parse_trust == {<<"rest">>}
parse_user_attribute == {<<"rest">>}
parse_user_id == {<<"whole">>}
parse_mdc == {<<"read">>}
parse_one_pass == {<<"read">>}

\* Version, times, algorithm and numbers, and then nothing may be left.
parse_public_key_data == <<"read">>
parse_public_key == {parse_public_key_data \o <<"exact">>}

\* A wrong length of the hashed part is reported to the callback only.
parse_v3_signature == <<"read", "errp", "read", "exact">>

\* The hashed subpackets are copied out of the accumulated data.
parse_v4_signature == <<"subpackets", "accumulated", "subpackets", "read", "exact">>

parse_signature ==
  {parse_v3_signature, <<"read">> \o parse_v4_signature, <<"read", "fail">>}

parse_literal_data == {<<"read", "body">>}

\* ops_decompress: an unknown algorithm or a decompressor that does not start
\* fails, as the read does, before the reader is pushed.
parse_compressed == {<<"read", "push_decompress", "parse", "pop">>}

\* Without the secret key the session key stays encrypted, which is no error;
\* with it the number is decrypted, checked and kept for the data.
parse_pk_session_key == {<<"read">>, <<"read", "errp", "check", "key">>}

\* ops_decrypt_se_data: the two repeated bytes are read through the new reader
\* into a region of their own; the reader is popped when they do not match but
\* not when they cannot be read.
parse_se_data ==
  IF decrypt
    THEN {<<"push_decrypt", "repeat", "parse", "pop">>,
          <<"push_decrypt", "repeat", "pop", "fail">>}
    ELSE {<<"body">>}

\* Mutant: one reader is popped for two that were pushed.
parse_se_ip_data_OnePop ==
  IF decrypt
    THEN {<<"read", "push_decrypt", "push_seip", "parse", "pop">>}
    ELSE {<<"read", "body">>}
parse_se_ip_data ==
  IF decrypt
    THEN {<<"read", "push_decrypt", "push_seip", "parse", "pop", "pop">>}
    ELSE {<<"read", "body">>}

\* The secret part is read through a hashing or summing reader and, when it is
\* encrypted, a decrypting one, into a region of its own.  A number that cannot
\* be read only sets ret; a checksum that cannot be read or does not match
\* returns at once, and for a v4 key the decrypting reader is popped after it.
secret_part == <<"push_hash", "numbers", "pop">>
checksum == <<"read_if_ret", "errp_if_ret">>

parse_secret_key ==
  LET public == parse_public_key_data
      ending == <<"assert_length", "return_ret">>
  IN {public \o secret_part \o checksum \o ending,
      public \o <<"consume">>,
      public \o <<"push_decrypt", "enter_v3">> \o secret_part
             \o <<"pop", "leave">> \o checksum \o ending,
      public \o <<"push_decrypt", "enter">> \o secret_part
             \o checksum \o <<"pop">> \o ending}

\* A content tag ops_parse_one_packet does not know.
unknown == {<<"fail">>}

Handlers ==
  parse_trust \union parse_user_id \union parse_user_attribute
  \union parse_mdc \union parse_public_key \union parse_signature
  \union parse_one_pass \union parse_literal_data \union parse_compressed
  \union parse_pk_session_key \union parse_se_data \union parse_se_ip_data
  \union parse_secret_key \union unknown

-----------------------------------------------------------------------------
(* Reading through the stack of readers. *)

F == Last(frames)
Top == Len(readers)
Step == F.script[F.i]
Nests(script) == "parse" \in ToSet(script)

\* What is left of a packet's region; negative when it was overrun.
Left(f) == frames[f].len - frames[f].read

\* When reader j is asked for d units it takes c of the reader below: a
\* decrypting reader no less than it has to give out, the reader for integrity
\* protected data the whole packet the first time, a decompressing reader any
\* part of its packet, a hashing reader exactly d.
Takes(j, d, c) ==
  LET r == readers[j] IN
  IF d = 0 THEN c = 0 ELSE
  CASE r.kind = "base" -> c = 0 /\ d <= r.left
    [] r.kind = "hash" -> c = d
    [] r.kind = "seip" -> d <= r.left /\ c = IF r.opened THEN 0 ELSE Left(r.frame)
    [] r.kind = "decompress" -> d <= r.left /\ (c <= Left(r.frame) \/ frames[r.frame].indet)
    [] r.kind = "decrypt" -> d <= r.left /\ Left(r.frame) - c \in 0 .. r.left - d

Charging == {"decrypt", "decompress"}

\* The ways the stack can answer a read of n units: what each reader takes of
\* the one below, which is what that one is asked for; the last is n.
Answers(n) ==
  {c \in {Append(taken, n) : taken \in [1 .. Top -> 0 .. MaxLen]} :
     \A j \in 1 .. Top : Takes(j, c[j + 1], c[j])}

\* A reader whose packet is gone: what it does is undefined.
Stale == \E j \in 1 .. Top : readers[j].frame > Len(frames)
NoMore == IF Stale THEN TRUE ELSE Answers(1) = {}

\* The stack, and the packets whose regions were charged, after answer c.
Answered(c) ==
  [j \in 1 .. Top |->
     [readers[j] EXCEPT !.left = IF readers[j].kind = "hash" THEN 0 ELSE @ - c[j + 1],
                        !.alength = @ + c[j + 1], !.opened = @ \/ (readers[j].kind = "seip" /\ c[j + 1] > 0)]]
\* The number of units, numbered per reader, that are charged to packet f.
ChargedBy(c, f) ==
  Cardinality({ju \in (1 .. Top) \X (1 .. MaxLen) :
                 /\ readers[ju[1]].frame = f /\ readers[ju[1]].kind \in Charging
                 /\ ju[2] <= c[ju[1]]})
Charged(c) ==
  [f \in 1 .. Len(frames) |-> [frames[f] EXCEPT !.read = @ + ChargedBy(c, f)]]

-----------------------------------------------------------------------------
Modes == {"tag", "length", "body", "end", "again", "finish", "return", "done", "abort"}

Init ==
  /\ mode = "tag"
  /\ frames = <<>>
  /\ readers = <<[kind |-> "base", frame |-> 0, left |-> StreamLen,
                  opened |-> FALSE, alength |-> 0]>>
  /\ errors = FALSE /\ failed = FALSE
  /\ accumulate \in BOOLEAN
  /\ decrypt \in BOOLEAN
  /\ result = 1

rest == <<accumulate, decrypt, result>>

\* Reading n units, own of them charged to the current region, and moving adv
\* steps on in the handler.  A read through a stale reader may do anything.
Moved(f, own, adv) ==
  IF f.sub THEN [f EXCEPT !.subread = @ + own, !.i = @ + adv]
           ELSE [f EXCEPT !.read = @ + own, !.i = @ + adv]
Deliver(n, own, adv) ==
  LET Move(fs) == [f \in 1 .. Len(fs) |->
                     IF f = Len(fs) THEN Moved(fs[f], own, adv) ELSE fs[f]]
  IN \/ /\ ~Stale
        /\ \E c \in Answers(n) : readers' = Answered(c) /\ frames' = Move(Charged(c))
     \/ Stale /\ readers' = readers /\ frames' = Move(frames)

\* ops_limited_read looks at the current region only, and an indeterminate one
\* forgives the end of the stream.
Room == IF F.sub THEN F.sublen - F.subread ELSE F.len - F.read
Lenient == F.indet /\ ~F.sub
StepOn == frames' = [frames EXCEPT ![Len(frames)].i = @ + 1]
LimitedRead(n, adv) ==
  \/ (n <= Room \/ Lenient) /\ Deliver(n, n, adv)
  \/ Lenient /\ ~Stale /\ Answers(n) = {} /\ StepOn /\ readers' = readers

\* The handler returns r; a failure is pushed to pinfo->errors or is not.
Returns(r) ==
  /\ mode' = "end"
  /\ frames' = [frames EXCEPT ![Len(frames)].ret = r, ![Len(frames)].sub = FALSE]
Pushed == errors' = TRUE

Goes == mode' = mode /\ UNCHANGED <<errors, failed, rest>>
Passes == StepOn /\ Goes /\ UNCHANGED readers
Stops == UNCHANGED <<readers, failed, rest>>
Fails == Returns(0) /\ Pushed /\ Stops
FailsQuietly == Returns(0) /\ errors' = errors /\ Stops
Aborts == mode' = "abort" /\ UNCHANGED <<frames, errors>> /\ Stops

At(step) == mode = "body" /\ F.i <= Len(F.script) /\ Step = step

-----------------------------------------------------------------------------
(* The header of a packet. *)

\* Mutant: while(r) for while(r > 0).
LoopsOnAnything(r) == IF r # 0 THEN "tag" ELSE "return"
\* What ops_parse does when ops_parse_one_packet has returned r.
Loops(r) == IF r > 0 THEN "tag" ELSE "return"

\* An error in reading the tag is taken for the end of the stream.
ReadTag ==
  /\ mode = "tag"
  /\ UNCHANGED rest
  /\ \/ Deliver(1, 0, 0) /\ mode' = "length" /\ UNCHANGED <<errors, failed>>
     \/ \* OPS_PTAG_ALWAYS_SET is missing
        Deliver(1, 0, 0) /\ mode' = Loops(0) /\ errors' = TRUE /\ failed' = TRUE
     \/ \* the reader fails, which it says, or has no more
        /\ mode' = Loops(-1)
        /\ Pushed \/ (NoMore /\ errors' = errors)
        /\ UNCHANGED <<frames, readers, failed>>

Opened(script, len, indet, header) ==
  [script |-> script, i |-> 1, len |-> len, read |-> 0, indet |-> indet,
   header |-> header, sub |-> FALSE, sublen |-> 0, subread |-> 0, ret |-> 1]
MayOpen(script) == Nests(script) => Len(frames) < MaxNest

\* An old-format tag may have no length.  When the length cannot be read, only
\* the old format leaves an error; read_new_length returns false and no more.
ReadLength ==
  /\ mode = "length"
  /\ UNCHANGED rest
  /\ \/ /\ \E script \in Handlers :
             MayOpen(script) /\ frames' = Append(frames, Opened(script, 0, TRUE, 1))
        /\ mode' = "body" /\ UNCHANGED <<readers, errors, failed>>
     \/ /\ ~Stale
        /\ \E c \in Answers(1), script \in Handlers, len \in 0 .. MaxLen :
             /\ MayOpen(script)
             /\ frames' = Append(Charged(c), Opened(script, len, FALSE, 2))
             /\ readers' = Answered(c)
        /\ mode' = "body" /\ UNCHANGED <<errors, failed>>
     \/ /\ mode' = Loops(0) /\ failed' = TRUE
        /\ Pushed \/ (NoMore /\ errors' = errors)
        /\ UNCHANGED <<frames, readers>>

-----------------------------------------------------------------------------
(* One action for every kind of step a handler takes. *)

\* limited_read, and its uses for one field after another.
limited_read == At("read") /\ ((LimitedRead(1, 1) /\ Goes) \/ Fails)

\* The value of a field is acceptable or not.
check == At("check") /\ (Passes \/ Fails)
errp == At("errp") /\ (Passes \/ FailsQuietly)
fail == At("fail") /\ Fails

\* read_data: a region that was overrun has nothing to read and nobody is errors.
read_data ==
  /\ At("rest")
  /\ \/ Room >= 0 /\ ((LimitedRead(Room, 1) /\ Goes) \/ Fails)
     \/ Room < 0 /\ FailsQuietly

\* parse_user_id reads the whole packet, which nothing else has read from.
whole ==
  /\ At("whole")
  /\ \/ LimitedRead(F.len, 1) /\ Goes
     \/ F.len > 0 /\ Fails

\* Unconsumed data is an error.
exact == At("exact") /\ IF F.len = F.read THEN Passes ELSE Fails

\* The loop over a body in pieces; nothing of an indeterminate packet is read.
Piece == 1 .. Room
body ==
  /\ At("body")
  /\ \/ (\E n \in Piece : LimitedRead(n, 0)) /\ Goes
     \/ F.read < F.len /\ Fails
     \/ F.read >= F.len /\ Passes

\* parse_v4_signature asserts that the packet is accumulated.
accumulated == At("accumulated") /\ IF accumulate THEN Passes ELSE Aborts

\* parse_signature_subpackets: a subpacket set may charge the packet for more
\* than is left of it (RegionReader), and there are failures of every kind.
subpackets ==
  /\ At("subpackets")
  /\ \/ (\E n \in 1 .. MaxLen : Deliver(n, n, 1)) /\ Goes
     \/ Fails \/ FailsQuietly

Kinds == [decompress |-> "push_decompress", decrypt |-> "push_decrypt",
          seip |-> "push_seip", hash |-> "push_hash"]

\* What a new reader will give: a decompressor any amount, the reader for
\* integrity protected data the packet without preamble and MDC.
Gives(kind) ==
  CASE kind = "decompress" -> 0 .. MaxInner
    [] kind = "decrypt" -> {Left(Len(frames))}
    [] kind = "seip" -> {Left(Len(frames)) - 1}
    [] kind = "hash" -> {0}

ops_reader_push ==
  \E kind \in DOMAIN Kinds :
    /\ At(Kinds[kind])
    /\ \E left \in Gives(kind) :
         readers' = Append(readers, [kind |-> kind, frame |-> Len(frames), left |-> left,
                                     opened |-> FALSE, alength |-> 0])
    /\ StepOn /\ Goes

\* Mutant: a pop that frees the reader below as well.
PoppedTwo(rs) == SubSeq(rs, 1, Len(rs) - 2)
Popped(rs) == Front(rs)
ops_reader_pop == At("pop") /\ readers' = Popped(readers) /\ StepOn /\ Goes

\* The repeated bytes, in a region of their own that has room for them.
repeated == At("repeat") /\ ((Deliver(1, 0, 1) /\ Goes) \/ Fails)

ops_parse == At("parse") /\ mode' = "tag" /\ UNCHANGED <<frames, readers, errors, failed, rest>>

\* The session key is kept and the packets that follow can be decrypted.
session_key ==
  /\ At("key") /\ StepOn /\ decrypt' = TRUE
  /\ UNCHANGED <<mode, readers, errors, failed, accumulate, result>>

\* The numbers of a secret key; ret remembers that one could not be read.
numbers ==
  /\ At("numbers")
  /\ \/ LimitedRead(1, 1) /\ Goes
     \/ /\ frames' = [frames EXCEPT ![Len(frames)].ret = 0, ![Len(frames)].i = @ + 1]
        /\ mode' = mode /\ Pushed /\ Stops

\* The region the secret part is read into: as long as what is left of the
\* packet, for a v3 key less the checksum, in unsigned arithmetic.
Wrapped(n) == IF n < 0 THEN StreamLen + MaxLen + 1 ELSE n
enter ==
  \E v3 \in BOOLEAN :
    /\ At(IF v3 THEN "enter_v3" ELSE "enter")
    /\ frames' = [frames EXCEPT ![Len(frames)].sub = TRUE, ![Len(frames)].i = @ + 1,
                    ![Len(frames)].sublen = IF v3 THEN Wrapped(F.len - F.read - 1)
                                                  ELSE F.len - F.read]
    /\ Goes /\ UNCHANGED readers
leave ==
  /\ At("leave")
  /\ frames' = [frames EXCEPT ![Len(frames)].sub = FALSE, ![Len(frames)].i = @ + 1]
  /\ Goes /\ UNCHANGED readers

\* The hash or checksum is read and compared only if the numbers were read, and
\* both failures return at once.
checkhash ==
  \/ /\ At("read_if_ret")
     /\ IF F.ret = 1 THEN (LimitedRead(1, 1) /\ Goes) \/ Fails ELSE Passes
  \/ /\ At("errp_if_ret")
     /\ Passes \/ (F.ret = 1 /\ FailsQuietly)

\* assert(!ret || region->length_read == region->length)
assertion == At("assert_length") /\ IF F.ret = 1 /\ Room # 0 THEN Aborts ELSE Passes

return_ret ==
  /\ At("return_ret")
  /\ IF F.ret = 1 THEN Passes ELSE FailsQuietly

\* Without a passphrase the rest of a secret key is thrown away.
no_passphrase ==
  /\ At("consume")
  /\ \/ ~F.indet /\ Room >= 0 /\ LimitedRead(Room, 1) /\ Goes
     \/ ~F.indet /\ Fails
     \/ F.indet /\ FailsQuietly

LastStep ==
  /\ mode = "body" /\ F.i > Len(F.script)
  /\ Returns(F.ret) /\ UNCHANGED errors /\ Stops

HandlerStep ==
  \/ limited_read \/ check \/ errp \/ fail \/ read_data \/ whole \/ exact
  \/ body \/ accumulated \/ subpackets \/ ops_reader_push
  \/ ops_reader_pop \/ repeated \/ ops_parse \/ session_key \/ numbers \/ enter
  \/ leave \/ checkhash \/ assertion \/ return_ret \/ no_passphrase \/ LastStep

-----------------------------------------------------------------------------
(* The end of a packet and of a call of ops_parse. *)

\* consume_packet reads what is left of the packet and throws it away, or
\* fails, and then the packet's r is -1.
consume_packet ==
  \/ ~F.indet /\ Room >= 0 /\ Deliver(Room, Room, 0) /\ UNCHANGED errors
  \/ /\ F.indet \/ Room # 0
     /\ frames' = [frames EXCEPT ![Len(frames)].ret = -1]
     /\ readers' = readers
     /\ errors' = (errors \/ ~F.indet)

\* Mutant: the rest of a packet stays in the stream.
ConsumeRestNever ==
  /\ mode = "end" /\ mode' = "again"
  /\ UNCHANGED <<frames, readers, errors, failed, rest>>
\* The entire packet has to be consumed,
ConsumeRest ==
  /\ mode = "end" /\ mode' = "again"
  /\ IF F.len # F.read /\ ~F.indet THEN consume_packet
                                   ELSE UNCHANGED <<frames, readers, errors>>
  /\ UNCHANGED <<failed, rest>>

\* also if the handler failed.
ConsumeFailed ==
  /\ mode = "again" /\ mode' = "finish"
  /\ IF F.ret = 0 THEN consume_packet ELSE UNCHANGED <<frames, readers, errors>>
  /\ UNCHANGED <<failed, rest>>

\* Mutant: alength is not reset.
RenewedNever(rs) == rs
\* OPS_PARSER_PACKET_END is sent with alength and accumulated when r > 0; then
\* the next packet starts a new count.
Renewed(rs) == [rs EXCEPT ![Len(rs)].alength = 0]
Finish ==
  /\ mode = "finish"
  /\ readers' = Renewed(readers)
  /\ frames' = Front(frames)
  /\ mode' = Loops(F.ret)
  /\ failed' = (failed \/ F.ret # 1)
  /\ UNCHANGED <<errors, rest>>

\* return pinfo->errors ? 0 : 1
Status == IF errors THEN 0 ELSE 1
Return ==
  /\ mode = "return"
  /\ IF frames = <<>>
       THEN mode' = "done" /\ result' = Status /\ frames' = frames
       ELSE /\ mode' = "body" /\ result' = result
            /\ frames' = [frames EXCEPT ![Len(frames)].ret = Status, ![Len(frames)].i = @ + 1]
  /\ UNCHANGED <<readers, errors, failed, accumulate, decrypt>>

Stopped == mode \in {"done", "abort"} /\ UNCHANGED vars

Next ==
  \/ ReadTag \/ ReadLength \/ HandlerStep \/ ConsumeRest \/ ConsumeFailed
  \/ Finish \/ Return \/ Stopped

\* A single thread that keeps running.
Spec == Init /\ [][Next]_vars /\ WF_vars(Next)

-----------------------------------------------------------------------------
(* Properties. *)

\* Every variable holds a value of its type; a stack of readers has its base.
TypeOK ==
  /\ mode \in Modes
  /\ Len(frames) <= MaxNest + 1
  /\ \A f \in 1 .. Len(frames) :
       /\ frames[f].script \in Seq(Steps) /\ frames[f].i \in 1 .. Len(frames[f].script) + 1
       /\ frames[f].len \in 0 .. MaxLen /\ frames[f].read \in Nat
       /\ frames[f].ret \in {-1, 0, 1} /\ frames[f].indet \in BOOLEAN
  /\ readers # <<>> /\ readers[1].kind = "base"
  /\ \A j \in 1 .. Top : readers[j].left \in Int /\ readers[j].alength \in Nat
  /\ {errors, failed, accumulate, decrypt} \subseteq BOOLEAN
  /\ result \in {0, 1}

\* As long as no packet has failed, a packet of known length that
\* ops_parse_one_packet returns 1 for has been read to its end and no further,
\* whatever was nested in it, so the next tag is read where the packet ends.  A
\* nested v4 secret key that fails on its checksum leaves its decrypting reader
\* behind and no error in pinfo->errors: the packet around it pops that reader
\* for its own and is read through the one that is left.
PacketConsumed ==
  mode = "finish" /\ F.ret = 1 /\ ~failed /\ ~F.indet => F.read = F.len

\* The raw packet that OPS_PARSER_PACKET_END delivers is header and body of this
\* packet, neither less nor more, though most of the body may have been read by
\* other readers that have been popped since.  Excepted are the packets inside
\* symmetrically encrypted data: there ops_decrypt_se_data reads the preamble
\* through the reader it has just pushed, and it stays in that reader's count.
PacketEndWhole ==
  mode = "finish" /\ F.ret = 1 /\ ~failed /\ readers[Top].kind # "decrypt" =>
    readers[Top].alength = F.header + F.read

\* A packet that succeeded was read exactly to its end and is handed out whole.
PacketWhole == PacketConsumed /\ PacketEndWhole

\* As long as no packet has failed, a tag is read from the reader of the
\* innermost open packet, and below it are only readers of packets still open,
\* in order of nesting: no handler leaves a reader behind or pops another's.
ReadersMatchPackets ==
  mode \in {"tag", "length"} /\ ~failed =>
    /\ readers[Top].frame = Len(frames) /\ readers[Top].kind # "hash"
    /\ \A j \in 2 .. Top : readers[j].frame - readers[j - 1].frame \in {0, 1}

\* ops_parse returns, for every stream and whatever fails, or an assertion ends
\* the program.
Terminates == <>(mode \in {"done", "abort"})
=============================================================================
