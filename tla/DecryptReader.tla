----------------------------- MODULE DecryptReader -----------------------------
(***************************************************************************)
(* encrypted_data_reader of reader_encrypted_se.c on its stack, the cipher *)
(* feedback mode of symmetric.c under it, and above it the parts of        *)
(* packet-parse.c that steer it with reading_v3_secret, reading_mpi_length *)
(* and exact_read: secret keys, numbers and legacy encrypted data.         *)
(*                                                                         *)
(* A raw unit is its position in the stream.  A unit that was read carries *)
(* the pads a cipher took off it, none for one that was copied.  A pad is  *)
(* <<"E", register, i>>: the i-th unit of the encrypted shift register.    *)
(*                                                                         *)
(* What a handler reads is a script, a sequence of reads and other steps;  *)
(* a read that fails goes on with the steps that its handler still takes.  *)
(***************************************************************************)
EXTENDS Integers, Sequences, SequencesExt

CONSTANTS BlockSize,  \* of the cipher, 8 or 16
          BufferSize, \* sizeof decrypted, 1024
          StreamLen,  \* units in the stream
          Mpis,       \* numbers in a secret key, 4 for RSA and 1 for DSA
          MaxMpi,     \* largest number
          Contents,   \* how many units containers hold after their preamble
          MaxPackets, \* packets in the stream, with those inside others
          MaxNest     \* containers in containers

ASSUME DecryptConstants ==
  /\ BlockSize \in Nat /\ BlockSize > 2 /\ BufferSize \in Nat \ {0}
  /\ {StreamLen, Mpis, MaxMpi, MaxPackets, MaxNest} \cup Contents \subseteq Nat

VARIABLES
  scripts,  \* the steps left of every handler that is running, innermost last
  packets,  \* packets started
  readers,  \* the decrypting readers, the current one last
  ciphers,  \* what ops_crypt_t keeps: the register iv and the offset num in it
  calls,    \* reads in progress: the parser's, and those of readers below it
  source,   \* raw units read
  reading_v3_secret,
  got,      \* the units of the parser's last read, and what it was
  mode      \* "run", "abort" at an assertion, or "dangling"

decryptVars == <<scripts, packets, readers, ciphers, calls, source,
          reading_v3_secret, got, mode>>

-----------------------------------------------------------------------------
(* Scripts. *)

Step(op) == [op |-> op, n |-> 0, mpi |-> FALSE, exact |-> FALSE, key |-> "none",
             fail |-> <<>>]
limited_read(n, fail) == [Step("read") EXCEPT !.n = n, !.fail = fail]
\* Mutant: exact_read is not set.
exact_limited_read_Any(n) == [Step("read") EXCEPT !.n = n]
exact_limited_read(n) == [Step("read") EXCEPT !.n = n, !.exact = TRUE]

\* The count sets reading_mpi_length, the number itself does not.  key tells
\* what kind of key, if any, the number belongs to.
limited_read_mpi(n, key, fail) ==
  <<[Step("read") EXCEPT !.n = 2, !.mpi = TRUE, !.key = key, !.fail = fail],
    [Step("read") EXCEPT !.n = n, !.key = key, !.fail = fail]>>

\* The i-th number of a key ends ends[i] units into its numbers, with the two of
\* its count before it.
Length(ends, i) == ends[i] - ends[i - 1] - 2

\* The numbers up to one.
Numbers(ends, read, key, fail) ==
  [j \in 1 .. 2 * read |->
     LET i == (j + 1) \div 2
     IN  limited_read_mpi(Length(ends, i), key, fail)[j - 2 * (i - 1)]]

\* After the numbers: version 3 has its checksum in the clear, so the reader
\* goes first; version 4 leaves the reader on when the checksum is not there.
SecretEnd(v3, ok) ==
  IF v3
    THEN <<Step("end"), Step("pop")>>
           \o (IF ok THEN <<limited_read(2, <<>>)>> ELSE <<>>)
    ELSE <<Step("end")>>
           \o (IF ok THEN <<limited_read(2, <<Step("leave")>>)>> ELSE <<>>)
           \o <<Step("pop")>>

Total(ends) == ends[Mpis]

\* The tag and the fields of the public key; the version sets the flag.
parse_public_key_data(v3) ==
  <<limited_read(1, <<>>), Step(IF v3 THEN "version3" ELSE "version4")>>

\* No more than that, and then an early return: a field is missing, or no passphrase
\* is given and the packet is consumed.
SecretKeyLocked(v3) ==
  parse_public_key_data(v3) \o <<limited_read(1, <<>>)>>

\* The numbers up to the first that is refused, all of them when ok.
parse_secret_key(k) ==
  parse_public_key_data(k.v3)
  \o <<Step("set_key"), [Step("push") EXCEPT !.n = Total(k.ends) + 2, !.key = "secret"]>>
  \o Numbers(k.ends, k.read, IF k.v3 THEN "v3" ELSE "v4", SecretEnd(k.v3, FALSE))
  \o SecretEnd(k.v3, k.ok)

\* In a container of len units.
ops_decrypt_se_data(len, repeated) ==
  <<limited_read(1, <<>>), [Step("push") EXCEPT !.n = len, !.key = "session"],
    exact_limited_read(BlockSize + 2)>>
  \o (IF repeated THEN <<Step("resync"), Step("parse")>> ELSE <<>>)
  \o <<Step("pop")>>

\* A session key of its own comes first; the whole container is read at once,
\* as se_ip_data_reader does before it looks at any of it.
ops_decrypt_se_ip_data(len) ==
  <<[Step("push") EXCEPT !.n = len, !.key = "session"],
    limited_read(len, <<Step("pop")>>), Step("pop")>>

parse_pk_session_key == <<Step("session_key")>>

Layouts ==
  {ends \in [0 .. Mpis -> 0 .. Mpis * (MaxMpi + 2)] :
     ends[0] = 0 /\ \A i \in 1 .. Mpis : Length(ends, i) \in 1 .. MaxMpi}
\* A secret key: its version, where its numbers end, how many of them are read,
\* and whether all is well with them.
SecretKeys ==
  {k \in [v3 : BOOLEAN, ends : Layouts, read : 0 .. Mpis, ok : BOOLEAN] :
     k.ok => k.read = Mpis}
Lengths == {BlockSize + 2 + n : n \in Contents}

\* Packets between which a stream chooses.  A plain packet reads a number.
Packets ==
       {SecretKeyLocked(v3) : v3 \in BOOLEAN}
  \cup {parse_secret_key(k) : k \in SecretKeys}
  \cup {limited_read_mpi(n, "none", <<>>) : n \in 1 .. MaxMpi}

Containers ==
       {ops_decrypt_se_data(len, ok) : len \in Lengths, ok \in BOOLEAN}
  \cup {ops_decrypt_se_ip_data(len) : len \in Lengths}

-----------------------------------------------------------------------------
(* The cipher. *)

Cells == 1 .. BlockSize
ZeroIv == [i \in Cells |-> <<"iv", i>>]
block_encrypt(register) == [i \in Cells |-> <<"E", register, i>>]

\* Mutant: the offset is not wrapped.
NextOffset_Stuck(num) == IF num + 1 = BlockSize THEN num ELSE num + 1
NextOffset(num) == (num + 1) % BlockSize

\* One unit of the library's CFB: its pad comes from the register, encrypted at
\* the start of a block, and is overwritten there by the ciphertext.
Register(c) == IF c.num = 0 THEN block_encrypt(c.iv) ELSE c.iv
CfbUnit(c, unit) ==
  [iv  |-> [Register(c) EXCEPT ![c.num + 1] = <<"c", unit>>],
   num |-> NextOffset(c.num)]
Unpadded(c, unit) == [unit EXCEPT !.pads = Append(@, Register(c)[c.num + 1])]

\* civ and siv, which std_resync rearranges, are not what cfb_decrypt uses: the
\* register stays as it is, filled with pads behind the offset.
\* Mutant: the offset stays, and the block goes on.
std_resync_NoOffset(c) == c
std_resync(c) == [c EXCEPT !.num = 0]
ops_decrypt_init(c) == [c EXCEPT !.num = 0]
std_set_iv == [iv |-> ZeroIv, num |-> 0]

-----------------------------------------------------------------------------
(* The parser's steps. *)

Running == mode = "run" /\ calls = <<>> /\ scripts # <<>>
Script == scripts[Len(scripts)]
Now == Head(Script)
Doing(op) == Running /\ Script # <<>> /\ Now.op = op

Under(script) == Append(Front(scripts), script)
Advance == scripts' = Under(Tail(Script))
Depth == Len(readers)
Reader == readers[Depth]

None == [units |-> <<>>, mpi |-> FALSE, key |-> "none", depth |-> 0]

DecryptInit ==
  /\ scripts = << <<Step("parse")>> >> /\ packets = 0
  /\ readers = <<>> /\ calls = <<>> /\ source = 0
  /\ ciphers = [k \in {"session", "secret"} |-> std_set_iv]
  /\ reading_v3_secret = FALSE
  /\ got = None /\ mode = "run"

\* ops_parse goes on to the next packet, whatever became of the last, ...
ParsePacket ==
  /\ Doing("parse") /\ packets < MaxPackets
  /\ packets' = packets + 1
  /\ \/ \E p \in Packets : scripts' = Append(scripts, p)
     \/ \E p \in Containers :
          /\ Len(readers) < MaxNest
          /\ scripts' = Append(scripts,
               IF readers = <<>> THEN parse_pk_session_key \o p ELSE p)
  /\ UNCHANGED <<readers, ciphers, calls, source, reading_v3_secret, got, mode>>

\* ... until there is none.
ParseEnd ==
  /\ Doing("parse") /\ Advance
  /\ UNCHANGED <<packets, readers, ciphers, calls, source, reading_v3_secret,
                 got, mode>>

HandlerEnd ==
  /\ Running /\ Script = <<>>
  /\ scripts' = Front(scripts)
  /\ UNCHANGED <<packets, readers, ciphers, calls, source, reading_v3_secret,
                 got, mode>>

SetVersion ==
  /\ Doing("version3") \/ Doing("version4")
  /\ reading_v3_secret' = (Now.op = "version3")
  /\ Advance
  /\ UNCHANGED <<packets, readers, ciphers, calls, source, got, mode>>

SecretRead ==
  /\ Doing("end") /\ reading_v3_secret' = FALSE /\ Advance
  /\ UNCHANGED <<packets, readers, ciphers, calls, source, got, mode>>

\* The key of a secret key packet is set up in a local of its handler.
SetKey ==
  /\ Doing("session_key") \/ Doing("set_key")
  /\ ciphers' = [ciphers EXCEPT
       ![IF Now.op = "set_key" THEN "secret" ELSE "session"] = std_set_iv]
  /\ Advance
  /\ UNCHANGED <<packets, readers, calls, source, reading_v3_secret, got, mode>>

\* A version 4 key without its checksum leaves a reader whose cipher was a
\* local of parse_secret_key; the run ends here.
LeaveReader ==
  /\ Doing("leave") /\ mode' = "dangling" /\ Advance
  /\ UNCHANGED <<packets, readers, ciphers, calls, source, reading_v3_secret, got>>

\* For the properties only: the register at the last resynchronisation, where n
\* units of ciphertext, full blocks since then, leave it, ...
BlockStart(n) == (n \div BlockSize) * BlockSize
Block(start, hist, n) ==
  [i \in Cells |-> IF n = 0 THEN start[i] ELSE <<"c", hist[n - BlockSize + i].raw>>]
\* ... and all of hist: behind a block begun there are the pads not yet used.
RegisterAfter(start, hist) ==
  LET n == BlockStart(Len(hist))
      b == Block(start, hist, n)
  IN  IF n = Len(hist) THEN b
        ELSE [i \in Cells |-> IF i <= Len(hist) - n THEN <<"c", hist[n + i].raw>>
                               ELSE <<"E", b, i>>]

\* start, hist and alone are kept for the properties too: the register at the last
\* resynchronisation, the units the reader decrypted since then, raw as it got them
\* and clear as it handed them on, and whether it has been the only user of its
\* cipher.
ops_reader_push_decrypt ==
  /\ Doing("push")
  /\ ciphers' = [ciphers EXCEPT ![Now.key] = ops_decrypt_init(@)]
  /\ readers' = Append([i \in DOMAIN readers |->
                          IF readers[i].crypt = Now.key
                            THEN [readers[i] EXCEPT !.alone = FALSE]
                            ELSE readers[i]],
       [crypt |-> Now.key, left |-> Now.n, decrypted |-> <<>>,
        prev_read_was_plain |-> FALSE, hist |-> <<>>, start |-> ZeroIv,
        alone |-> \A i \in DOMAIN readers : readers[i].crypt # Now.key])
  /\ Advance
  /\ UNCHANGED <<packets, calls, source, reading_v3_secret, got, mode>>

ops_reader_pop_decrypt ==
  /\ Doing("pop")
  /\ readers' = Front(readers)
  /\ Advance
  /\ UNCHANGED <<packets, ciphers, calls, source, reading_v3_secret, got, mode>>

Resynced(r) ==
  [r EXCEPT !.start = RegisterAfter(r.start, r.hist), !.hist = <<>>]

Resync ==
  /\ Doing("resync")
  /\ ciphers' = [ciphers EXCEPT !["session"] = std_resync(@)]
  /\ readers' = [readers EXCEPT ![Depth] = Resynced(@)]
  /\ Advance
  /\ UNCHANGED <<packets, calls, source, reading_v3_secret, got, mode>>

-----------------------------------------------------------------------------
(* A read goes down the readers and comes up again. *)

Call(depth, n) == [depth |-> depth, length |-> n, units |-> <<>>, entered |-> FALSE]
Top == calls[Len(calls)]
Serving == readers[Top.depth]
ReadOf(c) == [calls EXCEPT ![Len(calls)] = c]
InReader == mode = "run" /\ calls # <<>> /\ Top.depth > 0
reading_mpi_length == Now.mpi
exact_read == Now.exact

Read ==
  /\ Doing("read")
  /\ calls' = <<Call(Depth, Now.n)>>
  /\ UNCHANGED <<scripts, packets, readers, ciphers, source, reading_v3_secret,
                 got, mode>>

Enter ==
  /\ InReader /\ ~Top.entered
  /\ calls' = ReadOf([Top EXCEPT !.entered = TRUE])
  /\ IF Serving.prev_read_was_plain /\ ~reading_mpi_length
       THEN IF reading_v3_secret
              THEN /\ ciphers' = [ciphers EXCEPT ![Serving.crypt] = std_resync(@)]
                   /\ readers' = [readers EXCEPT ![Top.depth] =
                        [Resynced(@) EXCEPT !.prev_read_was_plain = FALSE]]
                   /\ UNCHANGED mode
              ELSE mode' = "abort" /\ UNCHANGED <<readers, ciphers>>
       ELSE /\ readers' = [readers EXCEPT ![Top.depth].prev_read_was_plain =
                 @ \/ (reading_v3_secret /\ reading_mpi_length)]
            /\ UNCHANGED <<ciphers, mode>>
  /\ UNCHANGED <<scripts, packets, source, reading_v3_secret, got>>

Least(a, b) == IF a < b THEN a ELSE b

\* Some of what is decrypted already; in a version 3 key and in an exact read
\* there must not be more of it than is asked for.
FromBuffer ==
  /\ InReader /\ Top.entered /\ Top.length > 0 /\ Serving.decrypted # <<>>
  /\ LET n == Least(Top.length, Len(Serving.decrypted))
     IN  IF Top.length < Len(Serving.decrypted) /\ (reading_v3_secret \/ exact_read)
           THEN mode' = "abort" /\ UNCHANGED <<readers, calls>>
           ELSE /\ calls' = ReadOf([Top EXCEPT
                     !.length = @ - n,
                     !.units = @ \o SubSeq(Serving.decrypted, 1, n)])
                /\ readers' = [readers EXCEPT ![Top.depth].decrypted =
                     SubSeq(@, n + 1, Len(@))]
                /\ UNCHANGED mode
  /\ UNCHANGED <<scripts, packets, ciphers, source, reading_v3_secret, got>>

\* Mutant: the size of the buffer is not looked at.
Portion_Unclipped(left, length) ==
  IF reading_v3_secret \/ exact_read THEN Least(left, length) ELSE left
\* Mutant: the packet's end is not looked at.
Portion_PastRegion(left, length) ==
  IF reading_v3_secret \/ exact_read THEN Least(BufferSize, length) ELSE BufferSize
Portion(left, length) ==
  LET n == Least(left, BufferSize)
  IN  IF reading_v3_secret \/ exact_read THEN Least(n, length) ELSE n

\* More is needed and the packet has more: read it from the reader below.
Fetch ==
  /\ InReader /\ Top.entered /\ Top.length > 0
  /\ Serving.decrypted = <<>> /\ Serving.left > 0
  /\ calls' = Append(calls, Call(Top.depth - 1, Portion(Serving.left, Top.length)))
  /\ UNCHANGED <<scripts, packets, readers, ciphers, source, reading_v3_secret,
                 got, mode>>

\* The reader at the bottom.
FromStream ==
  /\ mode = "run" /\ calls # <<>> /\ Top.depth = 0 /\ Top.length > 0
  /\ source + Top.length <= StreamLen
  /\ source' = source + Top.length
  /\ calls' = ReadOf([Top EXCEPT !.length = 0,
       !.units = [i \in 1 .. Top.length |-> [pos |-> source + i, pads |-> <<>>]]])
  /\ UNCHANGED <<scripts, packets, readers, ciphers, reading_v3_secret, got, mode>>

\* Mutant: the count of a number is decrypted in version 3 keys as well.
CopiedPlain_Never == FALSE
CopiedPlain == reading_v3_secret /\ reading_mpi_length

\* What was fetched is decrypted into the buffer of the reader that asked, one
\* unit after the other, or copied if it is the count of a number in a version 3 key.
ops_decrypt_se_ip ==
  /\ mode = "run" /\ Len(calls) > 1 /\ Top.length = 0 /\ Top.units # <<>>
  /\ calls' = ReadOf([Top EXCEPT !.units = Tail(@)])
  /\ LET i    == calls[Len(calls) - 1].depth
         r    == readers[i]
         c    == ciphers[r.crypt]
         unit == Head(Top.units)
         u    == Unpadded(c, unit)
     IN  IF CopiedPlain
           THEN /\ readers' = [readers EXCEPT ![i] =
                     [r EXCEPT !.left = @ - 1, !.decrypted = Append(@, unit)]]
                /\ UNCHANGED ciphers
           ELSE /\ readers' = [readers EXCEPT ![i] =
                     [r EXCEPT !.left = @ - 1, !.decrypted = Append(@, u),
                               !.hist = Append(@, [raw |-> unit, clear |-> u])]]
                /\ ciphers' = [ciphers EXCEPT ![r.crypt] = CfbUnit(c, unit)]
  /\ UNCHANGED <<scripts, packets, source, reading_v3_secret, got, mode>>

Fetched ==
  /\ mode = "run" /\ Len(calls) > 1 /\ Top.length = 0 /\ Top.units = <<>>
  /\ calls' = Front(calls)
  /\ UNCHANGED <<scripts, packets, readers, ciphers, source, reading_v3_secret,
                 got, mode>>

ReadDone ==
  /\ mode = "run" /\ Len(calls) = 1 /\ Top.length = 0
  /\ calls' = <<>> /\ Advance
  /\ got' = [units |-> Top.units, mpi |-> Now.mpi, key |-> Now.key, depth |-> Depth]
  /\ UNCHANGED <<packets, readers, ciphers, source, reading_v3_secret, mode>>

\* The stream ends, or the packet has no more: every read above fails.
ReadFails ==
  /\ mode = "run" /\ calls # <<>> /\ Top.length > 0
  /\ IF Top.depth = 0
       THEN source + Top.length > StreamLen
       ELSE Top.entered /\ Serving.decrypted = <<>> /\ Serving.left = 0
  /\ calls' = <<>> /\ scripts' = Under(Now.fail)
  /\ UNCHANGED <<packets, readers, ciphers, source, reading_v3_secret, got, mode>>

DecryptNext ==
  \/ ParsePacket \/ ParseEnd \/ HandlerEnd
  \/ SetVersion \/ SecretRead \/ SetKey \/ LeaveReader
  \/ ops_reader_push_decrypt \/ ops_reader_pop_decrypt \/ Resync
  \/ Read \/ Enter \/ FromBuffer \/ Fetch \/ FromStream
  \/ ops_decrypt_se_ip \/ Fetched
  \/ ReadDone \/ ReadFails

DecryptSpec == DecryptInit /\ [][DecryptNext]_decryptVars

-----------------------------------------------------------------------------
(* Properties. *)

\* Types, and what the bounds keep: at most MaxPackets packets and a register
\* offset inside the register (ops_crypt_t, encrypted_arg_t).
DecryptTypeOK ==
  /\ packets \in 0 .. MaxPackets /\ source \in 0 .. StreamLen
  /\ mode \in {"run", "abort", "dangling"} /\ reading_v3_secret \in BOOLEAN
  /\ \A k \in DOMAIN ciphers :
       /\ ciphers[k].num \in 0 .. BlockSize - 1
       /\ DOMAIN ciphers[k].iv = Cells
  /\ \A i \in DOMAIN readers :
       /\ readers[i].crypt \in DOMAIN ciphers /\ readers[i].left \in Int
       /\ Len(readers[i].decrypted) \in 0 .. BufferSize
       /\ readers[i].prev_read_was_plain \in BOOLEAN
  /\ \A i \in DOMAIN calls : calls[i].depth \in 0 .. Len(readers)

\* What a reader has read ahead is its own packet's: it never reads the units
\* of what follows, however the reads of the packet's handler are cut
\* (encrypted_data_reader clips every read at its region).
StaysInPacket == \A i \in DOMAIN readers : readers[i].left >= 0

\* Nothing is decrypted that has not been asked for where that would be wrong:
\* when the cipher is about to be resynchronised, and when the reader of a
\* version 3 key goes and the two units of its checksum are still to be read
\* in the clear (exact_limited_read, and the v3 clause of encrypted_data_reader).
NothingReadAhead ==
  /\ Doing("resync") => Reader.decrypted = <<>>
  /\ Doing("pop") /\ Len(Script) > 1 /\ Script[2].op = "read"
       => Reader.decrypted = <<>> /\ Reader.left = 2

\* A reader decrypts its own packet's units and no more than it may.
ReadsOwnData == StaysInPacket /\ NothingReadAhead

\* In a version 3 secret key of the stream itself the counts arrive as they
\* stand and the numbers decrypted; in a version 4 key both are decrypted
\* (reader_encrypted_se.c, "V3 MPIs have the count plain").
SecretKeyAligned ==
  got.depth = 1 /\ got.key \in {"v3", "v4"} =>
    \A i \in DOMAIN got.units :
      Len(got.units[i].pads) = IF got.key = "v3" /\ got.mpi THEN 0 ELSE 1

\* The pad of the k-th unit after a resynchronisation: the register is the block of
\* ciphertext before the unit's own block, and for the first block what the
\* resynchronisation found in it.
ExpectedPad(start, hist, k) ==
  LET n == BlockStart(k - 1)
  IN  <<"E", Block(start, hist, n), k - n>>

PadsOf(r) ==
  \A k \in DOMAIN r.hist :
    r.hist[k].clear =
      [r.hist[k].raw EXCEPT !.pads = Append(@, ExpectedPad(r.start, r.hist, k))]

\* However the reads above and the buffer cut the data, and in every stretch
\* between two resynchronisations, a reader takes off each unit the pad of its
\* place, as long as no other reader uses its cipher (ops_decrypt_se_ip keeps the
\* register and the offset between calls, std_resync starts a block with the
\* register as it stands).  That is OpenPGP's mode where the resynchronisation
\* falls between two blocks.  In the middle of a block OpenPGP goes on with the
\* last BlockSize units of ciphertext in the register and the code does not: the
\* pads said here are then not those of OpenPGP for the first block after it.
PadsRight == \A i \in DOMAIN readers : readers[i].alone => PadsOf(readers[i])

\* The reader of the stream decrypts its units in the order of the stream.
TakenInOrder ==
  readers # <<>> =>
    LET hist == readers[1].hist
    IN  \A k, l \in DOMAIN hist : k < l => hist[k].raw.pos < hist[l].raw.pos

\* Every unit is decrypted once, in its turn and with the pad of its place, or left
\* as it is, as the version of its key asks for.
DecryptedRight == SecretKeyAligned /\ PadsRight /\ TakenInOrder

\* The reader takes what is its own, and each unit of it once.
DataDecrypted == ReadsOwnData /\ DecryptedRight
=============================================================================
