----------------------------- MODULE WriterStack -----------------------------
(***************************************************************************)
(* Writers on top of each other (writer.c): what the library stacks to     *)
(* encrypt, compress, sign, armour and export, what each writer makes of   *)
(* what it gets, and finalising from the top down.                         *)
(*                                                                         *)
(* A piece that is written carries the writers it has gone through.  A     *)
(* writer that buffers passes on all it has or keeps it; how a partial     *)
(* writer makes chunks is in PartialWriter, what base64 looks like in      *)
(* ArmourWriter.  The base writer may fail at any piece; what the writers  *)
(* hold and have written is not followed after that.                       *)
(***************************************************************************)
EXTENDS Naturals, Sequences, SequencesExt

CONSTANTS MaxData,    \* pieces of data that are written
          MaxWriters, \* writers that are pushed
          Usual(_, _) \* on top of a writer of which kind one of which kind is pushed

ASSUME WriterStackAssumption == MaxData \in Nat /\ MaxWriters \in Nat

VARIABLES
  stack,    \* the base writer first, info->winfo last
  out,      \* the pieces that the base writer has written
  made,     \* writers pushed so far
  accepted, \* pieces of data given to the writer on top
  job,      \* the key that is being written
  phase,    \* "open", "finalising", "closed", "abort" at an assertion
  at,       \* the writer that writer_info_finalise has got to
  good,     \* and its result so far
  failed,   \* a call has returned ops_false
  errors,   \* there is something on info->errors
  intact    \* the base writer has not failed

vars == <<stack, out, made, accepted, job, phase, at, good, failed, errors, intact>>

-----------------------------------------------------------------------------
(* Writers and pieces. *)

Finalised == {"base64", "partial", "compress", "stream_encrypt"}
Kinds == Finalised \cup {"base", "linebreak", "dash", "sign", "encrypt"}
Buffering == {"partial", "compress"}
\* Check sum, MDC and signature are made over what has gone through.
Hashing == {"base64", "stream_encrypt", "sign"}

Writer(kind, n) ==
  [id |-> <<kind, n>>, pending |-> kind \in Finalised, first |-> FALSE,
   held |-> <<>>, seen |-> <<>>]
Kind(w) == w.id[1]

Piece(what, by, n, seen) ==
  [what |-> what, by |-> by, n |-> n, through |-> {}, seen |-> seen]
Header(w) == Piece("header", w.id, 0, <<>>)
End(w) == Piece("end", w.id, 0, w.seen)
Signature(w) == Piece("signature", w.id, 0, w.seen)
Data(n) == Piece("data", <<"app", 0>>, n, <<>>)
Secret(n) == Piece("secret", <<"app", 0>>, n, <<>>)
Name(p) == [what |-> p.what, by |-> p.by, n |-> p.n]
Names(pieces) == [i \in DOMAIN pieces |-> Name(pieces[i])]

Idle == [at |-> "none", armoured |-> FALSE]

Init ==
  /\ stack = <<Writer("base", 0)>> /\ out = <<>> /\ made = 0 /\ accepted = 0
  /\ job = Idle /\ phase = "open" /\ at = 0 /\ good = TRUE
  /\ failed = FALSE /\ errors = FALSE /\ intact = TRUE

-----------------------------------------------------------------------------
(* A write, and the writes to the writers below that it comes to. *)

\* Mutant: what is new overtakes what was kept.
Emitted_NewFirst(w, pieces) == pieces \o w.held
Emitted(w, pieces) == w.held \o pieces

Hashed(w, pieces) == IF Kind(w) \in Hashing THEN w.seen \o Names(pieces) ELSE w.seen

Through(w, pieces, keeps) ==
  [w EXCEPT !.held  = IF keeps THEN w.held \o pieces ELSE <<>>,
            !.seen  = Hashed(w, pieces),
            !.first = @ \/ (Kind(w) = "partial" /\ ~keeps)]

Marked(w, pieces) ==
  [k \in DOMAIN pieces |-> [pieces[k] EXCEPT !.through = @ \cup {w.id}]]

\* What gets to each writer, and as 0 to the file, of pieces that are written to
\* writer top of s, when the writers in keep keep what they have.
Arriving(s, pieces, top, keep) ==
  LET to[i \in 0 .. top] ==
        IF i = top THEN pieces
        ELSE LET above == to[i + 1]
             IN  IF above = <<>> \/ i + 1 \in keep THEN <<>>
                 ELSE Emitted(s[i + 1], Marked(s[i + 1], above))
  IN  to

\* The writers after that.
PassDown(s, to, top, keep) ==
  [i \in DOMAIN s |-> IF i > top \/ to[i] = <<>> THEN s[i]
                      ELSE Through(s[i], Marked(s[i], to[i]), i \in keep)]

Partials(top) == {i \in 1 .. top : Kind(stack[i]) = "partial"}
\* Once its first chunk is out a partial writer drops what writes return, and
\* their errors; of the writes of the first chunk it returns those up to its end.
Drops(top) == \E i \in Partials(top) : stack[i].first
Results(top) == IF Drops(top) THEN {TRUE} ELSE IF Partials(top) # {} THEN BOOLEAN ELSE {FALSE}

\* Mutant: the errors of a first chunk are not moved to the caller's.
Lost_First(top) == Partials(top) # {}
Lost(top) == Drops(top)

Followed(s, fine) ==
  IF fine THEN s ELSE [i \in DOMAIN s |-> [s[i] EXCEPT !.held = <<>>, !.seen = <<>>]]

\* What may come of writing pieces to writer top.
Outcomes(pieces, top) ==
  UNION {LET to == Arriving(stack, pieces, top, keep)
             passed == PassDown(stack, to, top, keep)
         IN  {[stack |-> Followed(passed, intact), fails |-> FALSE, good |-> TRUE,
               out |-> IF intact THEN out \o to[0] ELSE <<>>]}
             \cup (IF to[0] = <<>> THEN {} ELSE
                     {[stack |-> Followed(passed, FALSE), fails |-> TRUE, good |-> g,
                       out |-> <<>>] : g \in Results(top)})
         : keep \in SUBSET {i \in 1 .. top : Kind(stack[i]) \in Buffering}}

\* report: the caller puts an error of its own on the stack.
Written(o, top, report) ==
  /\ out' = o.out /\ intact' = (intact /\ ~o.fails)
  /\ errors' = (errors \/ report \/ (o.fails /\ ~Lost(top)))

Top == Len(stack)
Ready == phase = "open" /\ job = Idle
New(kind, k) == Writer(kind, made + k)
ReadyFor(kind) == Ready /\ Usual(Kind(stack[Top]), kind)

-----------------------------------------------------------------------------
(* Pushing.  Writers that are pushed together have consecutive numbers. *)

Fits(new) == made + Len(new) <= MaxWriters
Push(s, new) ==
  /\ Fits(new)
  /\ made' = made + Len(new) /\ stack' = s \o new

Unmoved == UNCHANGED <<accepted, job, phase, at, good>>

\* The writers of ops_writer_push_armoured_message; the write's result is dropped.
PushArmouredMessage ==
  /\ ReadyFor("base64")
  /\ \E o \in Outcomes(<<Header(New("base64", 1))>>, Top) :
       Written(o, Top, FALSE) /\ Push(o.stack, <<New("base64", 1)>>)
  /\ Unmoved /\ UNCHANGED failed

WithHeader(w) == [w EXCEPT !.held = <<Header(w)>>]

\* Mutant: the hash does not begin with the preamble.
Preamble_Not(header) == <<>>
\* write_encrypt_se_ip_header adds to the hash what it writes to the header.
Preamble(header) == <<Name(header)>>

\* The session key is written as the writers are pushed.
PushStreamEncrypt ==
  /\ ReadyFor("stream_encrypt")
  /\ LET partial == New("partial", 1)
         encrypt == New("stream_encrypt", 2)
     IN  \E o \in Outcomes(<<Piece("session_key", encrypt.id, 0, <<>>)>>, Top) :
           /\ Written(o, Top, FALSE)
           /\ Push(o.stack, <<WithHeader(partial),
                              [encrypt EXCEPT !.seen = Preamble(Header(partial))]>>)
  /\ Unmoved /\ UNCHANGED failed

PushCompressed ==
  /\ ReadyFor("compress") /\ Push(stack, <<WithHeader(New("partial", 1)), New("compress", 2)>>)
  /\ Unmoved /\ UNCHANGED <<out, failed, errors, intact>>

PushLiteral ==
  /\ ReadyFor("partial") /\ Push(stack, <<WithHeader(New("partial", 1))>>)
  /\ Unmoved /\ UNCHANGED <<out, failed, errors, intact>>

\* The result of the write decides whether the writers are pushed.
PushIf(o, new) ==
  /\ Fits(new)
  /\ IF o.good THEN Push(o.stack, new) /\ UNCHANGED failed
     ELSE stack' = o.stack /\ failed' = TRUE /\ UNCHANGED made

\* The one-pass signature, then a literal packet with the signature as its trailer.
PushSigned ==
  /\ ReadyFor("sign")
  /\ LET sign == New("sign", 2)
     IN  \E o \in Outcomes(<<Piece("one_pass", sign.id, 0, <<>>)>>, Top) :
           /\ Written(o, Top, FALSE)
           /\ PushIf(o, <<WithHeader(New("partial", 1)), sign>>)
  /\ Unmoved

PushClearsigned ==
  /\ ReadyFor("dash")
  /\ \E o \in Outcomes(<<Header(New("dash", 1))>>, Top) :
       Written(o, Top, ~o.good) /\ PushIf(o, <<New("dash", 1)>>)
  /\ Unmoved

\* The text ends; what is written from here on is its signature.
SwitchToArmouredSignature ==
  /\ Ready /\ Kind(stack[Top]) = "dash"
  /\ LET base64 == New("base64", 2)
     IN  \E o \in Outcomes(<<End(stack[Top]), Header(base64)>>, Top - 1) :
           /\ Written(o, Top - 1, ~o.good)
           /\ PushIf([o EXCEPT !.stack = Front(@)], <<New("linebreak", 1), base64>>)
  /\ Unmoved

-----------------------------------------------------------------------------
(* Writing. *)

\* ops_write
Write ==
  /\ Ready /\ accepted < MaxData /\ accepted' = accepted + 1
  /\ \E o \in Outcomes(<<Data(accepted')>>, Top) :
       Written(o, Top, FALSE) /\ stack' = o.stack /\ failed' = (failed \/ ~o.good)
  /\ UNCHANGED <<made, job, phase, at, good>>

\* ops_write_transferable_public_key and ops_write_transferable_secret_key: the
\* writers of ops_writer_push_armoured, or none.  An armoured key goes where no
\* writer waits for its end: writer_info_finalise is for all of them.
BeginKey(armoured, secret) ==
  /\ Ready
  /\ armoured => Usual(Kind(stack[Top]), "base64") /\ \A w \in Range(stack) : ~w.pending
  /\ job' = [at |-> IF secret THEN "public_part" ELSE "packets", armoured |-> armoured]
  /\ IF armoured
       THEN LET base64 == New("base64", 2)
            IN  \E o \in Outcomes(<<Header(base64)>>, Top) :
                  /\ Written(o, Top, FALSE)
                  /\ Push(o.stack, <<New("linebreak", 1), base64>>)
       ELSE UNCHANGED <<stack, made, out, errors, intact>>
  /\ UNCHANGED <<accepted, phase, at, good, failed>>

\* A packet in the clear, among them what comes first in write_secret_key_body.
\* The call that could not write it has failed, and the stack is closed next; where
\* the packet is a user ID's signature the code returns !rtn instead, success, with
\* the error left behind (create.c:472, 554).
KeyPacket ==
  /\ phase = "open" /\ job.at \in {"packets", "public_part"}
  /\ accepted < MaxData /\ accepted' = accepted + 1
  /\ \E o \in Outcomes(<<Data(accepted')>>, Top) :
       /\ Written(o, Top, FALSE) /\ stack' = o.stack /\ failed' = (failed \/ ~o.good)
       /\ job' = [job EXCEPT !.at = IF ~o.good THEN "failed"
                                    ELSE IF @ = "packets" THEN @ ELSE "secret_part"]
  /\ UNCHANGED <<made, phase, at, good>>

PushEncrypt ==
  /\ phase = "open" /\ job.at = "secret_part" /\ Push(stack, <<New("encrypt", 1)>>)
  /\ job' = [job EXCEPT !.at = "encrypted_part"]
  /\ UNCHANGED <<out, accepted, phase, at, good, failed, errors, intact>>

\* Mutant: the encrypting writer is not popped.
Popped_Not(s) == s
Popped(s) == Front(s)

\* The secret numbers; the early return leaves the encrypting writer where it is.
SecretPart ==
  /\ phase = "open" /\ job.at = "encrypted_part"
  /\ accepted < MaxData /\ accepted' = accepted + 1
  /\ \E o \in Outcomes(<<Secret(accepted')>>, Top) :
       /\ Written(o, Top, FALSE) /\ failed' = (failed \/ ~o.good)
       /\ stack' = IF o.good THEN Popped(o.stack) ELSE o.stack
       /\ job' = [job EXCEPT !.at = IF o.good THEN "packets" ELSE "failed"]
  /\ UNCHANGED <<made, phase, at, good>>

EndKey ==
  /\ phase = "open" /\ job.at = "packets"
  /\ IF job.armoured THEN phase' = "finalising" /\ at' = Top /\ good' = TRUE /\ UNCHANGED job
                     ELSE job' = Idle /\ UNCHANGED <<phase, at, good>>
  /\ UNCHANGED <<stack, out, made, accepted, failed, errors, intact>>

-----------------------------------------------------------------------------
(* Closing. *)

\* ops_writer_close; after a key that failed it is all that is called.
Close ==
  /\ phase = "open" /\ job.at \in {"none", "failed"}
  /\ phase' = "finalising" /\ at' = Top /\ good' = TRUE /\ job' = Idle
  /\ UNCHANGED <<stack, out, made, accepted, failed, errors, intact>>

\* A partial writer ends with its last chunk and then the trailer it was given,
\* the signature of the signed writer on top of it.
Trailer(i) ==
  IF i < Top /\ Kind(stack[i + 1]) = "sign" THEN <<Signature(stack[i + 1])>> ELSE <<>>

\* Mutant: the signature comes before what ends its packet.
Ending_SignatureFirst(i) ==
  LET w == stack[i]
  IN  w.held \o (IF Kind(w) = "partial" THEN Trailer(i) ELSE <<>>) \o <<End(w)>>
Ending(i) ==
  LET w == stack[i]
  IN  w.held \o <<End(w)>> \o IF Kind(w) = "partial" THEN Trailer(i) ELSE <<>>

\* Mutant: the first finaliser that fails is the last to be called.
Following_Stop(i) == IF good' THEN i - 1 ELSE 0
\* "Note that we finalise from the top down"
Following(i) == i - 1

\* The finaliser of one writer, whatever those above have returned.
Finalise ==
  /\ phase = "finalising" /\ at > 0
  /\ IF ~stack[at].pending
       THEN UNCHANGED <<stack, out, good, errors, intact>>
       ELSE \E o \in Outcomes(Ending(at), at - 1) :
              /\ Written(o, at - 1, FALSE)
              /\ good' = (good /\ o.good)
              /\ stack' = [o.stack EXCEPT ![at].pending = FALSE, ![at].held = <<>>]
  /\ at' = Following(at)
  /\ UNCHANGED <<made, accepted, job, phase, failed>>

\* writer_info_delete
Delete ==
  /\ phase = "finalising" /\ at = 0 /\ job = Idle
  /\ phase' = IF \E w \in Range(stack) : w.pending THEN "abort" ELSE "closed"
  /\ stack' = <<>> /\ failed' = (failed \/ ~good)
  /\ UNCHANGED <<out, made, accepted, job, at, good, errors, intact>>

\* Of the two writers for armour ops_writer_pop takes one away.
Pop ==
  /\ phase = "finalising" /\ at = 0 /\ job # Idle
  /\ phase' = IF stack[Top].pending THEN "abort" ELSE "open"
  /\ stack' = Front(stack) /\ job' = Idle
  /\ UNCHANGED <<out, made, accepted, at, good, failed, errors, intact>>

Next ==
  \/ PushArmouredMessage \/ PushStreamEncrypt \/ PushCompressed \/ PushLiteral
  \/ PushSigned \/ PushClearsigned \/ SwitchToArmouredSignature
  \/ Write \/ KeyPacket \/ PushEncrypt \/ SecretPart \/ EndKey
  \/ \E armoured, secret \in BOOLEAN : BeginKey(armoured, secret)
  \/ Close \/ Finalise \/ Delete \/ Pop

Spec == Init /\ [][Next]_vars

-----------------------------------------------------------------------------
(* Properties. *)

Whats == {"header", "end", "signature", "data", "secret", "session_key", "one_pass"}
WriterIds == Kinds \X (0 .. MaxWriters)
PieceSet == [what : Whats, by : WriterIds \cup {<<"app", 0>>}, n : 0 .. MaxData,
             through : SUBSET WriterIds, seen : Seq([what : Whats,
             by : WriterIds \cup {<<"app", 0>>}, n : 0 .. MaxData])]

\* Types and ranges; the assertions of ops_writer_pop and writer_info_delete hold.
TypeOK ==
  /\ \A w \in Range(stack) :
       /\ w.id \in WriterIds /\ {w.pending, w.first} \subseteq BOOLEAN
       /\ w.held \in Seq(PieceSet) /\ (w.held # <<>> => Kind(w) \in Buffering)
  /\ out \in Seq(PieceSet) /\ made \in 0 .. MaxWriters /\ accepted \in 0 .. MaxData
  /\ job \in [at : {"none", "packets", "public_part", "secret_part", "encrypted_part",
                    "failed"}, armoured : BOOLEAN]
  /\ phase \in {"open", "finalising", "closed"} /\ at \in 0 .. MaxWriters + 1
  /\ {good, failed, errors, intact} \subseteq BOOLEAN

Ends(ps, id) == {i \in DOMAIN ps : ps[i].what = "end" /\ ps[i].by = id}

\* What goes through a writer that frames is between its header and its end, and
\* nothing else is; a clear-signed text that is closed has no end.
Between(ps, i, h, id) == i > h /\ \A e \in Ends(ps, id) : i < e
Framed(ps) ==
  \A h, i \in DOMAIN ps : ps[h].what = "header" =>
    LET id == ps[h].by
    IN  /\ id \in ps[i].through => Between(ps, i, h, id)
        /\ Between(ps, i, h, id) /\ (id[1] # "dash" \/ Ends(ps, id) # {}) =>
             id \in ps[i].through

\* A check sum, an MDC or a signature is of all that went through its writer, in
\* the order in which it came out, and the MDC of the preamble before it.
Gone(ps, id, k) == Cardinality({j \in 1 .. k : id \in ps[j].through})
Before(id) ==
  IF id[1] = "stream_encrypt"
    THEN <<[what |-> "header", by |-> <<"partial", id[2] - 1>>, n |-> 0]>> ELSE <<>>
MadeOver(ps, seen, id) ==
  /\ Len(seen) = Len(Before(id)) + Gone(ps, id, Len(ps))
  /\ \A k \in DOMAIN Before(id) : seen[k] = Before(id)[k]
  /\ \A k \in DOMAIN ps :
       id \in ps[k].through => seen[Len(Before(id)) + Gone(ps, id, k)] = Name(ps[k])
Covering(ps) ==
  \A k \in DOMAIN ps : ps[k].what \in {"end", "signature"} /\ ps[k].by[1] \in Hashing =>
    MadeOver(ps, ps[k].seen, ps[k].by)

\* Every writer that ends what it writes has done so, once, and what has been signed
\* has its signature.
Ended(ps) ==
  \A k \in DOMAIN ps : \A id \in ps[k].through \cup {ps[k].by} :
    /\ id[1] \in Finalised => Cardinality(Ends(ps, id)) = 1
    /\ id[1] = "sign" => \E j \in DOMAIN ps : ps[j].what = "signature" /\ ps[j].by = id

\* The secret numbers of a key are encrypted, and nothing else with them.
SecretsOnly(ps) ==
  \A k \in DOMAIN ps : ps[k].what = "secret" <=> \E id \in ps[k].through : id[1] = "encrypt"

\* However writers are stacked and whatever they keep, what the base writer gets is
\* packets and armour inside each other: everything between the header and the end
\* of what it is in, with check sums, MDC and signature of just what they are of,
\* all ended when all is closed; and a key's secret numbers encrypted (writer.c,
\* writer_info_finalise; the finalisers and trailers of the writers).
Enclosed ==
  intact => Framed(out) /\ Covering(out) /\ SecretsOnly(out) /\ (phase = "closed" => Ended(out))

\* A call that has failed has left an error behind ("if ops_false, then errors
\* should contain the error", ops_stacked_write), however many writers the failure
\* came through.
ErrorsKept == failed => errors

\* How many pieces of data have come out in order.
Numbers(ps) == {k \in DOMAIN ps : ps[k].what \in {"data", "secret"}}
Count(ps, k) == Cardinality({j \in Numbers(ps) : j <= k})
InOrder(ps) ==
  {n \in 0 .. Count(ps, Len(ps)) :
     \A k \in Numbers(ps) : Count(ps, k) <= n => ps[k].n = Count(ps, k)}

Stream == INSTANCE ByteStream
            WITH visible <- Max(InOrder(out)), closed <- (phase = "closed"),
                 broken <- ~intact

\* To the application the writers together are one byte stream: the data in order
\* and, once closed, all of it, whichever of them keep it on its way
\* (ops_write, ops_writer_close).
IsByteStream == Stream!Spec
=============================================================================
