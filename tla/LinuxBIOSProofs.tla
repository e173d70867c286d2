--------------------------- MODULE LinuxBIOSProofs ---------------------------
(***************************************************************************)
(* What LinuxBIOS keeps, starting from the network and finding what is on  *)
(* its buses, for every size and every machine: first NetBoot, then        *)
(* PciConfigure.                                                           *)
(***************************************************************************)
EXTENDS NetBoot, PciConfigure, WellFoundedInduction, FiniteSetTheorems, SequenceTheorems, TLAPS

-----------------------------------------------------------------------------
(***************************************************************************)
(* NetBoot, for files, networks and retries of every size: values stay in  *)
(* their ranges, and client and server agree on the blocks.                *)
(***************************************************************************)

(* The block size of this server, how many blocks it makes of a file, and   *)
(* how long they are.                                                       *)
Size == IF reply = "OACK" THEN MaxPacket ELSE Default
Count(f) == files[f].size \div Size + 1
BlockLen(f, n) == Smaller(Size, files[f].size - (n - 1) * Size)

GotBlocks == [file : 1 .. Len(files), n : Nat, len : 0 .. MaxPacket]
Messages ==
  [op : {"RARP"}] \cup [op : {"ERROR"}, tid : Int]
  \cup [op : {"RRQ"}, file : Nat, port : Nat]
  \cup [op : {"ACK"}, tid : Nat, block : Int, port : Nat]

(* Of the client's own variables: until the first block each port costs a   *)
(* retry, and the block numbers are the number of blocks.                   *)
ClientOK ==
  /\ pc \in Waiting \cup {"rarp", "next", "fetch", "lost"}
  /\ known \in BOOLEAN /\ transfer \in 0 .. Len(files)
  /\ pc \in {"await_init", "fetch", "await_fetch"} => transfer > 0
  /\ retry \in 0 .. MaxRetries + 1 /\ iport \in 0 .. MaxRetries + 1
  /\ packetsize \in {Default, MaxPacket}
  /\ got \in Seq(GotBlocks) /\ taken \in Nat
  /\ Len(got) < Blocks /\ prevblock = Len(got) /\ block = Len(got)
  /\ ack \in {Junk} \cup (0 .. Len(got))
  /\ got = <<>> => iport - 1 <= retry /\ taken = 0
  /\ pc \in {"rarp", "await_rarp", "await_init"} => got = <<>>
  /\ pc = "rarp" => retry <= MaxRetries
  /\ pc = "await_rarp" => retry < MaxRetries

(* A packet from a server is what a session of these sent at some time.     *)
PacketOK(p, ss) ==
  /\ p \in Packets
  /\ p.src \in {Junk, 0} \cup DOMAIN ss
  /\ p.op = "OACK" => p.len \in {0, MaxPacket}
  /\ p.op = "DATA" => /\ p.src \in DOMAIN ss
                      /\ ss[p.src].file = p.file
                      /\ p.n \in 1 .. ss[p.src].n
                      /\ p.len = BlockLen(p.file, p.n)
ReceiveOK ==
  /\ PacketOK(packet, sessions)
  /\ rx \in Seq(Packets) /\ Len(rx) <= NumRxDesc
  /\ \A i \in DOMAIN rx : PacketOK(rx[i], sessions)

(* A session is for a file that has been asked for, and not ahead of the    *)
(* reader.                                                                  *)
SessionsOK ==
  /\ sessions \in Seq(Sessions)
  /\ \A t \in DOMAIN sessions :
       /\ sessions[t].size = Size /\ sessions[t].file <= transfer
       /\ sessions[t].n <= Count(sessions[t].file)
       /\ sessions[t].file = transfer => sessions[t].n <= Len(got) + 1

(* No acknowledgement on the way is of a block the reader does not have.    *)
MessageOK(m) ==
  /\ m \in Messages
  /\ m.op = "RRQ" => m.file \in 1 .. transfer /\ m.port \in 1 .. MaxRetries + 1
  /\ m.op = "ACK" => /\ m.tid \in {0} \cup DOMAIN sessions
                     /\ m.tid \in DOMAIN sessions /\ sessions[m.tid].file = transfer
                          => m.block <= Len(got)
UpOK ==
  /\ up \in Seq(Messages) /\ Len(up) <= MaxUp
  /\ \A i \in DOMAIN up : MessageOK(up[i])

(* The blocks the reader has are some session's, in order, and together as  *)
(* long as that many blocks of the file when they are all of it.            *)
GotOK ==
  \A i \in DOMAIN got :
    /\ got[i].n = i
    /\ \E t \in DOMAIN sessions : sessions[t].file = got[i].file /\ sessions[t].n >= i
TakenOK ==
  got # <<>> /\ (\A i \in DOMAIN got : got[i].file = transfer)
    => taken = Smaller(Len(got) * Size, files[transfer].size)

IInv ==
  /\ files \in Loads /\ reply \in Replies
  /\ ClientOK /\ ReceiveOK /\ SessionsOK /\ UpOK /\ GotOK /\ TakenOK /\ EndedIsWhole
-----------------------------------------------------------------------------
(* Arithmetic of blocks. *)

\* k blocks of d units fit in a when k is at most the quotient.
LEMMA BlocksFit ==
  ASSUME NEW a \in Nat, NEW d \in Nat \ {0}, NEW k \in Nat, k <= a \div d PROVE k * d <= a
OBVIOUS

\* Larger blocks are fewer.
LEMMA LargerAreFewer ==
  ASSUME NEW a \in Nat, NEW d \in Nat \ {0}, NEW e \in Nat \ {0}, d <= e
  PROVE  a \div e \in Nat /\ a \div e <= a \div d
OBVIOUS

\* A file of a load has a size and a reader.
LEMMA FileOK ==
  ASSUME files \in Loads, NEW f \in 1 .. Len(files)
  PROVE  /\ files[f].size \in Nat
         /\ files[f].reader \in {"fill_inbuf", "initrd", "cmdline"}
         /\ Len(files) \in Nat /\ f \in DOMAIN files
<1>1. files \in Seq([reader : {"fill_inbuf", "initrd", "cmdline"}, size : Nat])
  BY NetBootAssumption
<1>2. Len(files) \in Nat /\ DOMAIN files = 1 .. Len(files) BY <1>1
<1>3. files[f] \in [reader : {"fill_inbuf", "initrd", "cmdline"}, size : Nat]
  BY <1>1, ElementOfSeq
<1> QED BY <1>2, <1>3

\* The server keeps to one block size.
LEMMA SizeOK == Size \in Nat \ {0} /\ Default <= Size /\ Size <= MaxPacket
BY NetBootAssumption DEF Size

\* No file has a block with the number Blocks.
LEMMA CountOK ==
  ASSUME FewerThanBlocks, files \in Loads, NEW f \in 1 .. Len(files)
  PROVE  Count(f) \in Nat \ {0} /\ Count(f) < Blocks
<1>1. files[f].size \in Nat /\ f \in DOMAIN files BY FileOK
<1>2. files[f].size \div Default + 1 < Blocks BY <1>1 DEF FewerThanBlocks
<1>3. /\ files[f].size \div Size \in Nat
      /\ files[f].size \div Size <= files[f].size \div Default
  BY <1>1, SizeOK, NetBootAssumption, LargerAreFewer
<1>4. files[f].size \div Default \in Nat /\ Blocks \in Nat BY <1>1, NetBootAssumption, SMTT(30)
<1> QED BY <1>2, <1>3, <1>4 DEF Count

\* The blocks up to the n-th are n blocks, or the file, of which a block that is
\* not full is the last.
LEMMA BlockLenOK ==
  ASSUME files \in Loads, NEW f \in 1 .. Len(files), NEW n \in 1 .. Count(f)
  PROVE  /\ BlockLen(f, n) \in 0 .. Size
         /\ Smaller((n - 1) * Size, files[f].size) + BlockLen(f, n)
              = Smaller(n * Size, files[f].size)
         /\ Smaller(n * Size, files[f].size) <= files[f].size
         /\ BlockLen(f, n) < Size => Smaller(n * Size, files[f].size) = files[f].size
<1>1. files[f].size \in Nat BY FileOK
<1>2. n - 1 \in Nat /\ n - 1 <= files[f].size \div Size BY <1>1, SizeOK DEF Count
<1>3. (n - 1) * Size <= files[f].size BY <1>1, <1>2, SizeOK, BlocksFit
<1>4. n * Size = (n - 1) * Size + Size /\ (n - 1) * Size \in Nat BY <1>2, SizeOK
<1> DEFINE before == (n - 1) * Size
           size == files[f].size
<1>5. before \in Nat /\ size \in Nat /\ before <= size /\ n * Size = before + Size
  BY <1>1, <1>3, <1>4
<1>6. BlockLen(f, n) = Smaller(Size, size - before) BY DEF BlockLen
<1> HIDE DEF before, size
<1>7. /\ Smaller(Size, size - before) \in 0 .. Size
      /\ Smaller(before, size) + Smaller(Size, size - before) = Smaller(before + Size, size)
      /\ Smaller(before + Size, size) <= size
      /\ Smaller(Size, size - before) < Size => Smaller(before + Size, size) = size
  BY <1>5, SizeOK DEF Smaller
<1> QED BY <1>5, <1>6, <1>7 DEF before, size

-----------------------------------------------------------------------------
(* What the client does to packets, sessions and messages.                  *)

\* Polling and draining leave packets of sessions only.
LEMMA ReceiveKept ==
  ASSUME ReceiveOK, UNCHANGED <<files, reply, sessions>>,
         \/ UNCHANGED <<packet, rx>>
         \/ rx # <<>> /\ packet' = Head(rx) /\ rx' = Tail(rx)
         \/ packet' = Drained /\ rx' = <<>>
  PROVE  ReceiveOK'
<1> DEFINE OK(p) == PacketOK(p, sessions)
<1>1. /\ OK(packet) /\ rx \in Seq(Packets) /\ Len(rx) <= NumRxDesc
      /\ \A i \in DOMAIN rx : OK(rx[i])
  BY DEF ReceiveOK
<1>2. ASSUME NEW p, OK(p) PROVE PacketOK(p, sessions)'
 <2>1. Packets' = Packets /\ BlockLen(p.file, p.n)' = BlockLen(p.file, p.n)
   BY DEF Packets, BlockLen, Size
 <2> QED BY <1>2, <2>1 DEF PacketOK
<1> SUFFICES /\ OK(packet') /\ rx' \in Seq(Packets) /\ Len(rx') <= NumRxDesc
             /\ \A i \in DOMAIN rx' : OK(rx'[i])
 <2>1. Packets' = Packets BY DEF Packets
 <2> QED BY <1>2, <2>1 DEF ReceiveOK
<1> HIDE DEF OK
<1>3. ASSUME rx # <<>> PROVE Head(rx) = rx[1] /\ 1 \in DOMAIN rx /\ Len(rx) \in DOMAIN rx
 <2>1. Len(rx) \in Nat \ {0} /\ DOMAIN rx = 1 .. Len(rx) BY <1>1, <1>3, EmptySeq, LenProperties
 <2> QED BY <1>1, <2>1
<1>4. CASE UNCHANGED <<packet, rx>> BY <1>1, <1>4
<1>5. CASE rx # <<>> /\ packet' = Head(rx) /\ rx' = Tail(rx)
 <2>1. /\ rx' \in Seq(Packets) /\ Len(rx') = Len(rx) - 1
       /\ \A i \in 1 .. Len(rx') : rx'[i] = rx[i + 1]
   BY <1>1, <1>5, HeadTailProperties
 <2>2. /\ DOMAIN rx' = 1 .. Len(rx') /\ DOMAIN rx = 1 .. Len(rx)
       /\ Len(rx) \in Nat /\ NumRxDesc \in Nat
   BY <1>1, <2>1, NetBootAssumption
 <2>3. Len(rx') <= NumRxDesc BY <1>1, <2>1, <2>2
 <2>4. ASSUME NEW i \in DOMAIN rx' PROVE OK(rx'[i])
  <3>1. i + 1 \in DOMAIN rx /\ rx'[i] = rx[i + 1] BY <2>1, <2>2
  <3> QED BY <1>1, <3>1
 <2> QED BY <1>1, <1>3, <1>5, <2>1, <2>3, <2>4
<1>6. CASE packet' = Drained /\ rx' = <<>>
 <2>1. OK(Drained) BY <1>1, <1>3 DEF Drained, Last
 <2>2. /\ rx' \in Seq(Packets) /\ Len(rx') = 0 /\ DOMAIN rx' = {}
       /\ NumRxDesc \in Nat
   BY <1>6, NetBootAssumption
 <2> QED BY <1>6, <2>1, <2>2
<1> QED BY <1>4, <1>5, <1>6

\* A session stays behind the reader while the reader gets on, and while another
\* file is asked for.
LEMMA SessionsKept ==
  ASSUME SessionsOK, UNCHANGED <<files, reply, sessions>>,
         transfer \in Nat, Len(got) \in Nat, Len(got') \in Nat,
         \/ transfer' = transfer /\ Len(got') >= Len(got)
         \/ transfer' = transfer + 1
  PROVE  SessionsOK'
<1>1. Sessions' = Sessions /\ Size' = Size /\ \A f : Count(f)' = Count(f)
  BY DEF Sessions, Size, Count
<1>2. ASSUME NEW t \in DOMAIN sessions
      PROVE  sessions[t].file \in Int /\ sessions[t].n \in Int
 <2>1. sessions[t] \in Sessions BY LenProperties, ElementOfSeq DEF SessionsOK
 <2> QED BY <2>1 DEF Sessions
<1> QED BY <1>1, <1>2 DEF SessionsOK

\* What is on the way stays in order when the client goes on and sends m.
LEMMA UpKept ==
  ASSUME UpOK, SessionsOK, UNCHANGED sessions,
         transfer \in Nat, Len(got) \in Nat, Len(got') \in Nat,
         \/ transfer' = transfer /\ Len(got') >= Len(got)
         \/ transfer' = transfer + 1,
         NEW m, UNCHANGED up \/ (MessageOK(m)' /\ Transmits(m))
  PROVE  UpOK'
<1>1. ASSUME NEW l, MessageOK(l) PROVE MessageOK(l)'
 <2>1. ASSUME l.op = "RRQ" PROVE l.file \in 1 .. transfer' BY <1>1, <2>1 DEF MessageOK
 <2>2. ASSUME l.op = "ACK" PROVE l \in [op : {"ACK"}, tid : Nat, block : Int, port : Nat]
   BY <1>1, <2>2 DEF MessageOK, Messages
 <2>3. ASSUME l.op = "ACK", l.tid \in DOMAIN sessions, sessions[l.tid].file = transfer'
       PROVE  l.block <= Len(got')
  <3>1. transfer' = transfer BY <2>3 DEF SessionsOK, Sessions
  <3> QED BY <1>1, <2>2, <2>3, <3>1 DEF MessageOK
 <2> QED BY <1>1, <2>1, <2>3 DEF MessageOK
<1>2. CASE UNCHANGED up BY <1>1, <1>2 DEF UpOK
<1>3. CASE MessageOK(m)' /\ Len(up) < MaxUp /\ up' = Append(up, m)
 <2>1. up \in Seq(Messages) /\ m \in Messages BY <1>3 DEF UpOK, MessageOK
 <2>2. /\ up' \in Seq(Messages) /\ Len(up') = Len(up) + 1
       /\ \A i \in 1 .. Len(up) : up'[i] = up[i]
       /\ up'[Len(up) + 1] = m
   BY <1>3, <2>1, AppendProperties
 <2>3. /\ DOMAIN up = 1 .. Len(up) /\ DOMAIN up' = 1 .. Len(up')
       /\ Len(up) \in Nat /\ MaxUp \in Nat
   BY <2>1, <2>2, NetBootAssumption
 <2>4. ASSUME NEW i \in DOMAIN up' PROVE MessageOK(up[i])'
  <3>1. CASE i \in 1 .. Len(up)
   <4>1. up'[i] = up[i] /\ MessageOK(up[i]) BY <2>2, <2>3, <3>1 DEF UpOK
   <4> QED BY <1>1, <4>1
  <3>2. CASE i = Len(up) + 1 BY <1>3, <2>2, <3>2
  <3> QED BY <2>2, <2>3, <3>1, <3>2
 <2>5. Len(up) < MaxUp BY <1>3
 <2>6. Len(up') <= MaxUp BY <2>2, <2>3, <2>5
 <2> QED BY <2>2, <2>4, <2>6 DEF UpOK
<1> QED BY <1>2, <1>3 DEF Transmits

\* The blocks the reader has stay what they are.
LEMMA GotKept ==
  ASSUME GotOK, TakenOK, UNCHANGED <<got, taken, transfer, files, reply, sessions>>
  PROVE  GotOK' /\ TakenOK'
BY DEF GotOK, TakenOK, Size

-----------------------------------------------------------------------------
(* The client's steps. *)

\* What the client's own variables keep is enough when it does to the others what
\* it may.
LEMMA ClientKept ==
  ASSUME IInv, UNCHANGED server,
         \/ UNCHANGED <<packet, rx>>
         \/ rx # <<>> /\ packet' = Head(rx) /\ rx' = Tail(rx)
         \/ packet' = Drained /\ rx' = <<>>,
         \/ transfer' = transfer /\ Len(got') >= Len(got)
         \/ transfer' = transfer + 1,
         NEW m, UNCHANGED up \/ (MessageOK(m)' /\ Transmits(m)),
         ClientOK', GotOK', TakenOK', EndedIsWhole'
  PROVE  IInv'
<1>1. transfer \in Nat /\ Len(got) \in Nat /\ Len(got') \in Nat BY SMTT(30) DEF IInv, ClientOK
<1>2. UNCHANGED <<files, reply, sessions>> BY DEF server
<1>3. ReceiveOK' BY <1>2, ReceiveKept DEF IInv
<1>4. SessionsOK' BY <1>1, <1>2, SessionsKept DEF IInv
<1>5. UpOK' BY <1>1, <1>2, UpKept DEF IInv
<1> QED BY <1>2, <1>3, <1>4, <1>5 DEF IInv

\* The client sends nothing.
LEMMA ClientKeptSilent ==
  ASSUME IInv, UNCHANGED server, UNCHANGED up,
         \/ UNCHANGED <<packet, rx>>
         \/ rx # <<>> /\ packet' = Head(rx) /\ rx' = Tail(rx)
         \/ packet' = Drained /\ rx' = <<>>,
         \/ transfer' = transfer /\ Len(got') >= Len(got)
         \/ transfer' = transfer + 1,
         ClientOK', GotOK', TakenOK', EndedIsWhole'
  PROVE  IInv'
BY ClientKept

\* rarp: no transfer has begun.
LEMMA RarpStep ==
  ASSUME IInv, RarpRequest \/ RarpGivesUp \/ RarpReply \/ RarpTimeout \/ RarpEscape
  PROVE  IInv'
<1>1. /\ ClientOK /\ GotOK /\ TakenOK /\ pc \in {"rarp", "await_rarp"}
      /\ (pc = "rarp" /\ (RarpRequest \/ RarpGivesUp)) \/ pc = "await_rarp"
      /\ pc' \in {"rarp", "await_rarp", "next"}
  BY DEF IInv, RarpRequest, RarpGivesUp, RarpReply, RarpTimeout, RarpEscape
<1>2. /\ UNCHANGED <<transfer, iport, block, prevblock, packetsize, ack, got, taken, server>>
      /\ known' \in BOOLEAN /\ got = <<>>
      /\ retry' \in Nat /\ retry' <= MaxRetries /\ retry' >= retry
      /\ pc' = "await_rarp" => retry' < MaxRetries
 <2>1. /\ retry \in Nat /\ known \in BOOLEAN /\ got = <<>> /\ MaxRetries \in Nat
       /\ pc = "rarp" => retry <= MaxRetries
       /\ pc = "await_rarp" => retry < MaxRetries
   BY <1>1, NetBootAssumption DEF ClientOK
 <2>2. CASE RarpRequest BY <2>1, <2>2 DEF RarpRequest
 <2>3. CASE RarpGivesUp BY <2>1, <2>3 DEF RarpGivesUp
 <2>4. CASE RarpReply BY <2>1, <2>4 DEF RarpReply
 <2>5. CASE RarpTimeout BY <2>1, <2>5 DEF RarpTimeout
 <2>6. CASE RarpEscape BY <2>1, <2>6 DEF RarpEscape
 <2> QED BY <2>2, <2>3, <2>4, <2>5, <2>6
<1>3. UNCHANGED <<files, reply, sessions>> BY <1>2 DEF server
<1>4. ClientOK'
 <2>1. GotBlocks' = GotBlocks BY <1>3 DEF GotBlocks
 <2>2. retry' \in 0 .. MaxRetries + 1 /\ retry' <= MaxRetries /\ iport' - 1 <= retry'
  <3>1. iport \in Int /\ retry \in Int /\ iport - 1 <= retry /\ MaxRetries \in Nat
    BY <1>1, <1>2, NetBootAssumption DEF ClientOK
  <3>2. iport' = iport /\ retry' \in Nat /\ retry' <= MaxRetries /\ retry' >= retry BY <1>2
  <3> QED BY <3>1, <3>2
 <2>3. /\ transfer' \in 0 .. Len(files') /\ iport' \in 0 .. MaxRetries + 1
       /\ packetsize' \in {Default, MaxPacket}
       /\ got' \in Seq(GotBlocks') /\ taken' \in Nat
       /\ Len(got') < Blocks /\ prevblock' = Len(got') /\ block' = Len(got')
       /\ ack' \in {Junk} \cup (0 .. Len(got')) /\ taken' = 0
   BY <1>1, <1>2, <1>3, <2>1 DEF ClientOK
 <2>4. /\ pc' \in Waiting \cup {"rarp", "next", "fetch", "lost"}
       /\ pc' \notin {"await_init", "fetch", "await_fetch"}
   BY <1>1 DEF Waiting
 <2> QED BY <1>2, <2>2, <2>3, <2>4 DEF ClientOK
<1>5. GotOK' /\ TakenOK' BY <1>1, <1>2, <1>3, GotKept
<1>6. EndedIsWhole' BY <1>2 DEF EndedIsWhole
<1>7. MessageOK([op |-> "RARP"])' BY DEF MessageOK, Messages
<1>8. transfer' = transfer /\ Len(got') >= Len(got) BY <1>1, <1>2 DEF ClientOK
<1>9. CASE RarpRequest BY <1>2, <1>4, <1>5, <1>6, <1>7, <1>8, <1>9, ClientKept DEF RarpRequest
<1>10. CASE RarpGivesUp \/ RarpReply \/ RarpTimeout \/ RarpEscape
 <2>1. /\ UNCHANGED up
       /\ \/ UNCHANGED <<packet, rx>>
          \/ rx # <<>> /\ packet' = Head(rx) /\ rx' = Tail(rx)
   BY <1>10 DEF RarpGivesUp, RarpReply, RarpTimeout, RarpEscape
 <2> QED BY <1>2, <1>4, <1>5, <1>6, <1>8, <2>1, ClientKeptSilent
<1> QED BY <1>9, <1>10

\* await_reply goes on waiting.
LEMMA PollOtherStep ==
  ASSUME IInv, PollOther PROVE IInv'
<1>1. /\ ClientOK /\ GotOK /\ TakenOK /\ pc' # "next"
      /\ UNCHANGED <<pc, known, transfer, retry, iport, block, prevblock, packetsize, ack,
                     got, taken, up, server>>
      /\ rx # <<>> /\ packet' = Head(rx) /\ rx' = Tail(rx)
  BY DEF IInv, PollOther, Waiting
<1>2. UNCHANGED <<files, reply, sessions>> BY <1>1 DEF server
<1>3. ClientOK' BY <1>1, <1>2 DEF ClientOK, GotBlocks
<1>4. GotOK' /\ TakenOK' BY <1>1, <1>2, GotKept
<1>5. EndedIsWhole' BY <1>1 DEF EndedIsWhole
<1>6. transfer' = transfer /\ Len(got') >= Len(got) BY <1>1 DEF ClientOK
<1> QED BY <1>1, <1>3, <1>4, <1>5, <1>6, ClientKeptSilent

\* A request is for the file the client has got to, to one of its ports.
LEMMA RequestOK ==
  ASSUME transfer' \in Nat, NEW file \in 1 .. transfer', NEW port \in 1 .. MaxRetries + 1,
         Request(file, port)
  PROVE  \E m : UNCHANGED up \/ (MessageOK(m)' /\ Transmits(m))
<1> DEFINE m == [op |-> "RRQ", file |-> file, port |-> port]
<1>1. m \in Messages BY NetBootAssumption DEF Messages
<1>2. MessageOK(m)' BY <1>1 DEF MessageOK
<1> QED BY <1>2 DEF Request

\* tftp_init starts over.
LEMMA TftpInitStep ==
  ASSUME IInv, TftpInit PROVE IInv'
<1>1. /\ ClientOK /\ files \in Loads /\ transfer < Len(files)
      /\ transfer' = transfer + 1 /\ got' = <<>> /\ taken' = 0
      /\ retry' = 0 /\ iport' = 1 /\ block' = 0 /\ prevblock' = 0
      /\ packetsize' = Default /\ ack' = Junk /\ pc' = "await_init" /\ known' = known
      /\ packet' = Drained /\ rx' = <<>> /\ UNCHANGED server
      /\ Request(transfer + 1, 1)
  BY DEF IInv, TftpInit, FirstPort
<1>2. UNCHANGED <<files, reply, sessions>> /\ transfer \in Nat /\ Len(files) \in Nat
  BY <1>1, NetBootAssumption DEF server, ClientOK
<1>3. ClientOK'
 <2>1. transfer' \in 0 .. Len(files') /\ transfer' > 0 BY <1>1, <1>2
 <2>2. got' \in Seq(GotBlocks') /\ Len(got') = 0 BY <1>1
 <2>3. /\ retry' \in 0 .. MaxRetries + 1 /\ iport' \in 0 .. MaxRetries + 1
       /\ iport' - 1 <= retry' /\ 0 < Blocks
   BY <1>1, NetBootAssumption
 <2> QED BY <1>1, <2>1, <2>2, <2>3 DEF ClientOK, Waiting
<1>4. GotOK' /\ TakenOK' /\ EndedIsWhole' BY <1>1 DEF GotOK, TakenOK, EndedIsWhole
<1>5. PICK m : UNCHANGED up \/ (MessageOK(m)' /\ Transmits(m))
 <2>1. transfer + 1 \in 1 .. transfer' /\ transfer' \in Nat /\ 1 \in 1 .. MaxRetries + 1
   BY <1>1, <1>2, NetBootAssumption
 <2> QED BY <1>1, <2>1, RequestOK
<1> QED BY <1>1, <1>3, <1>4, <1>5, ClientKept

\* Each new port costs a retry.
LEMMA InitRetryStep ==
  ASSUME IInv, InitRetry PROVE IInv'
<1>1. /\ ClientOK /\ GotOK /\ TakenOK /\ pc = "await_init" /\ retry < MaxRetries
      /\ UNCHANGED <<pc, known, transfer, block, prevblock, packetsize, ack, packet, got,
                     taken, rx, server>>
      /\ retry' = retry + 1 /\ iport' = iport + 1 /\ Request(transfer, iport + 1)
  BY DEF IInv, InitRetry, MayRetry
<1>2. /\ UNCHANGED <<files, reply, sessions>>
      /\ transfer \in Nat /\ transfer > 0 /\ got = <<>>
      /\ retry \in Nat /\ iport \in Nat /\ iport - 1 <= retry /\ MaxRetries \in Nat
  BY <1>1, NetBootAssumption DEF server, ClientOK
<1>3. /\ iport + 1 \in 1 .. MaxRetries + 1 /\ iport' - 1 <= retry'
      /\ retry' \in 0 .. MaxRetries + 1 /\ iport' \in 0 .. MaxRetries + 1
  BY <1>1, <1>2
<1>4. ClientOK'
 <2>1. GotBlocks' = GotBlocks BY <1>2 DEF GotBlocks
 <2> QED BY <1>1, <1>2, <1>3, <2>1 DEF ClientOK
<1>5. GotOK' /\ TakenOK' BY <1>1, <1>2, GotKept
<1>6. EndedIsWhole' /\ transfer' = transfer /\ Len(got') >= Len(got)
  BY <1>1, <1>2 DEF EndedIsWhole
<1>7. PICK m : UNCHANGED up \/ (MessageOK(m)' /\ Transmits(m))
 <2>1. transfer \in 1 .. transfer' /\ transfer' \in Nat BY <1>1, <1>2
 <2> QED BY <1>1, <1>3, <2>1, RequestOK
<1> QED BY <1>1, <1>4, <1>5, <1>6, <1>7, ClientKept

\* Whatever answers the request, no block has come yet, and the acknowledgement
\* to come is of none.
LEMMA InitReplyOK ==
  ASSUME IInv, pc = "await_init", NEW p, PacketOK(p, sessions), InitReply(p),
         retry' \in {retry, Spent},
         UNCHANGED <<known, transfer, iport, prevblock, got, taken, server>>
  PROVE  /\ ClientOK' /\ GotOK' /\ TakenOK' /\ EndedIsWhole'
         /\ transfer' = transfer /\ Len(got') >= Len(got)
         /\ \E m : UNCHANGED up \/ (MessageOK(m)' /\ Transmits(m))
<1>1. /\ ClientOK /\ GotOK /\ TakenOK /\ got = <<>> /\ transfer > 0
      /\ UNCHANGED <<files, reply, sessions>>
      /\ Len(got) = 0 /\ block = 0 /\ prevblock = 0
  BY DEF IInv, ClientOK, server
<1>2. /\ p.op \in {"none", "ARP", "RARP", "OACK", "DATA", "ERROR"} /\ p.len \in Nat
      /\ p.src \in Int /\ (p.op = "OACK" => p.len \in {0, MaxPacket})
  BY DEF PacketOK, Packets
<1>3. /\ retry' \in 0 .. MaxRetries + 1 /\ iport' - 1 <= retry'
 <2>1. /\ retry \in Nat /\ iport \in Nat /\ retry <= MaxRetries + 1
       /\ iport - 1 <= retry /\ iport' = iport /\ MaxRetries \in Nat
   BY <1>1, NetBootAssumption DEF ClientOK
 <2>2. CASE retry' = retry BY <2>1, <2>2
 <2>3. CASE retry' = Spent BY <2>1, <2>3 DEF Spent
 <2> QED BY <2>2, <2>3
<1>4. /\ pc' \in {"next", "fetch"} /\ block' = 0 /\ ack' \in {ack, Junk, 0}
      /\ packetsize' \in {packetsize, MaxPacket}
      /\ \/ UNCHANGED up
         \/ Transmits([op |-> "ERROR", tid |-> p.src])
 <2>1. CASE p.op = "ERROR" /\ pc' = InitFailed /\ UNCHANGED <<block, packetsize, ack, up>>
   BY <1>1, <2>1 DEF InitFailed
 <2>2. CASE p.op = "OACK" /\ p.len >= Default /\ Agree(p)
   BY <1>2, <2>2, NetBootAssumption DEF Agree
 <2>3. CASE p.op = "OACK" /\ p.len < Default /\ Refuse(p) BY <1>1, <2>3 DEF Refuse, InitFailed
 <2>4. CASE pc' = "fetch" /\ UNCHANGED <<block, packetsize, ack, up>> BY <1>1, <2>4
 <2> QED BY <2>1, <2>2, <2>3, <2>4 DEF InitReply
<1>5. ClientOK'
 <2>1. GotBlocks' = GotBlocks BY <1>1 DEF GotBlocks
 <2>2. /\ ack' \in {Junk} \cup (0 .. Len(got')) /\ packetsize' \in {Default, MaxPacket}
       /\ pc' \in Waiting \cup {"rarp", "next", "fetch", "lost"}
       /\ block' = Len(got')
   BY <1>1, <1>4 DEF ClientOK
 <2> QED BY <1>1, <1>3, <1>4, <2>1, <2>2 DEF ClientOK
<1>6. GotOK' /\ TakenOK' BY <1>1, GotKept
<1>7. EndedIsWhole' /\ transfer' = transfer /\ Len(got') >= Len(got) BY <1>1 DEF EndedIsWhole
<1>8. MessageOK([op |-> "ERROR", tid |-> p.src])' BY <1>2 DEF MessageOK, Messages
<1> QED BY <1>4, <1>5, <1>6, <1>7, <1>8

\* What has come is from a session.
LEMMA HeadOK ==
  ASSUME ReceiveOK, rx # <<>> PROVE PacketOK(Head(rx), sessions)
<1>1. /\ rx \in Seq(Packets)
      /\ \A i \in DOMAIN rx : PacketOK(rx[i], sessions)
  BY DEF ReceiveOK
<1>2. Len(rx) \in Nat \ {0} /\ DOMAIN rx = 1 .. Len(rx) /\ Head(rx) = rx[1]
  BY <1>1, EmptySeq, LenProperties
<1> QED BY <1>1, <1>2

\* The answer to a request, or what is taken for it after the last timeout.
LEMMA InitAnsweredStep ==
  ASSUME IInv, InitAnswered \/ InitUnanswered PROVE IInv'
<1>1. CASE InitAnswered
 <2>1. /\ pc = "await_init" /\ rx # <<>> /\ packet' = Head(rx) /\ rx' = Tail(rx)
       /\ InitReply(Head(rx)) /\ retry' = retry
       /\ UNCHANGED <<known, transfer, iport, prevblock, got, taken, server>>
   BY <1>1 DEF InitAnswered
 <2>2. PacketOK(Head(rx), sessions) BY <2>1, HeadOK DEF IInv
 <2>3. /\ ClientOK' /\ GotOK' /\ TakenOK' /\ EndedIsWhole'
       /\ transfer' = transfer /\ Len(got') >= Len(got)
       /\ \E m : UNCHANGED up \/ (MessageOK(m)' /\ Transmits(m))
   BY <2>1, <2>2, InitReplyOK
 <2>4. PICK m : UNCHANGED up \/ (MessageOK(m)' /\ Transmits(m)) BY <2>3
 <2> QED BY <2>1, <2>3, <2>4, ClientKept
<1>2. CASE InitUnanswered
 <2>1. /\ pc = "await_init" /\ UNCHANGED <<packet, rx>>
       /\ InitReply(packet) /\ retry' \in {retry, Spent}
       /\ UNCHANGED <<known, transfer, iport, prevblock, got, taken, server>>
   BY <1>2 DEF InitUnanswered
 <2>2. PacketOK(packet, sessions) BY DEF IInv, ReceiveOK
 <2>3. /\ ClientOK' /\ GotOK' /\ TakenOK' /\ EndedIsWhole'
       /\ transfer' = transfer /\ Len(got') >= Len(got)
       /\ \E m : UNCHANGED up \/ (MessageOK(m)' /\ Transmits(m))
   BY <2>1, <2>2, InitReplyOK
 <2>4. PICK m : UNCHANGED up \/ (MessageOK(m)' /\ Transmits(m)) BY <2>3
 <2> QED BY <2>1, <2>3, <2>4, ClientKept
<1> QED BY <1>1, <1>2

\* The acknowledgement is of a block the reader has.
LEMMA FetchStep ==
  ASSUME IInv, Fetch PROVE IInv'
<1>1. /\ ClientOK /\ GotOK /\ TakenOK /\ pc = "fetch" /\ pc' = "await_fetch"
      /\ UNCHANGED <<known, transfer, retry, iport, block, prevblock, packetsize, ack, got,
                     taken, server>>
      /\ packet' = Drained /\ rx' = <<>>
      /\ \/ UNCHANGED up
         \/ /\ Drained.src # Junk
            /\ Transmits([op |-> "ACK", tid |-> Drained.src, block |-> ack, port |-> iport])
  BY DEF IInv, Fetch
<1>2. /\ UNCHANGED <<files, reply, sessions>> /\ ack \in Int /\ ack <= Len(got)
      /\ iport \in Nat
  BY <1>1 DEF server, ClientOK, Junk
<1>3. ClientOK'
 <2>1. GotBlocks' = GotBlocks BY <1>2 DEF GotBlocks
 <2> QED BY <1>1, <1>2, <2>1 DEF ClientOK, Waiting
<1>4. GotOK' /\ TakenOK' BY <1>1, <1>2, GotKept
<1>5. EndedIsWhole' /\ transfer' = transfer /\ Len(got') >= Len(got)
  BY <1>1 DEF EndedIsWhole, ClientOK
<1>6. PacketOK(Drained, sessions)
 <2>1. CASE rx = <<>> BY <2>1 DEF Drained, IInv, ReceiveOK
 <2>2. CASE rx # <<>>
  <3>1. Len(rx) \in Nat \ {0} /\ DOMAIN rx = 1 .. Len(rx)
    BY <2>2, EmptySeq, LenProperties DEF IInv, ReceiveOK
  <3> QED BY <2>2, <3>1 DEF Drained, Last, IInv, ReceiveOK
 <2> QED BY <2>1, <2>2
<1>7. PICK m : UNCHANGED up \/ (MessageOK(m)' /\ Transmits(m))
 <2>1. ASSUME NEW a, Drained.src # Junk,
              a = [op |-> "ACK", tid |-> Drained.src, block |-> ack, port |-> iport]
       PROVE  MessageOK(a)'
  <3>1. Drained.src \in {0} \cup DOMAIN sessions BY <1>6, <2>1 DEF PacketOK
  <3>2. DOMAIN sessions \subseteq Nat BY LenProperties DEF IInv, SessionsOK
  <3>3. a \in Messages BY <1>2, <2>1, <3>1, <3>2 DEF Messages
  <3> QED BY <1>1, <1>2, <2>1, <3>1, <3>3 DEF MessageOK
 <2> QED BY <1>1, <2>1
<1> QED BY <1>1, <1>3, <1>4, <1>5, <1>7, ClientKept

\* Before the first block a new port costs a retry here, too.
LEMMA FetchRetryStep ==
  ASSUME IInv, FetchRetry PROVE IInv'
<1>1. /\ ClientOK /\ GotOK /\ TakenOK /\ pc = "await_fetch" /\ retry < MaxRetries /\ block = 0
      /\ UNCHANGED <<pc, known, transfer, block, prevblock, packetsize, ack, packet, got,
                     taken, up, rx, server>>
      /\ retry' = retry + 1 /\ iport' = iport + 1
  BY DEF IInv, FetchRetry, MayRetry
<1>2. /\ UNCHANGED <<files, reply, sessions>> /\ got = <<>>
      /\ retry \in Nat /\ iport \in Nat /\ iport - 1 <= retry /\ MaxRetries \in Nat
 <2>1. got = <<>> BY <1>1, EmptySeq DEF ClientOK
 <2> QED BY <1>1, <2>1, NetBootAssumption DEF server, ClientOK
<1>3. /\ iport' - 1 <= retry'
      /\ retry' \in 0 .. MaxRetries + 1 /\ iport' \in 0 .. MaxRetries + 1
  BY <1>1, <1>2
<1>4. ClientOK'
 <2>1. GotBlocks' = GotBlocks BY <1>2 DEF GotBlocks
 <2> QED BY <1>1, <1>2, <1>3, <2>1 DEF ClientOK
<1>5. GotOK' /\ TakenOK' BY <1>1, <1>2, GotKept
<1>6. EndedIsWhole' /\ transfer' = transfer /\ Len(got') >= Len(got)
  BY <1>1, <1>2 DEF EndedIsWhole
<1> QED BY <1>1, <1>4, <1>5, <1>6, ClientKeptSilent

\* A block that is not out of order is the next one, and after it the reader has
\* all blocks so far, or the file.
LEMMA AcceptOK ==
  ASSUME FewerThanBlocks, IInv, pc = "await_fetch", NEW p, PacketOK(p, sessions),
         p.op = "DATA", p.len <= packetsize, ~Unordered(p.n % Blocks), Accept(p),
         UNCHANGED <<known, transfer, iport, packetsize, server>>
  PROVE  ClientOK' /\ GotOK' /\ TakenOK' /\ EndedIsWhole' /\ Len(got') >= Len(got)
<1>1. /\ ClientOK /\ GotOK /\ TakenOK /\ SessionsOK /\ files \in Loads
      /\ UNCHANGED <<files, reply, sessions>>
      /\ transfer \in 1 .. Len(files) /\ prevblock = Len(got) /\ Len(got) \in Nat
      /\ got \in Seq(GotBlocks) /\ taken \in Nat
      /\ packetsize \in Nat
  BY NetBootAssumption DEF IInv, ClientOK, server
<1>2. /\ p.file \in 0 .. Len(files) /\ p.n \in Nat /\ p.len \in 0 .. MaxPacket
      /\ p.src \in DOMAIN sessions /\ sessions[p.src].file = p.file
      /\ p.n \in 1 .. sessions[p.src].n /\ p.len = BlockLen(p.file, p.n)
  BY DEF PacketOK, Packets
<1>3. p.file \in 1 .. Len(files) /\ p.n \in 1 .. Count(p.file)
 <2>1. sessions[p.src] \in Sessions BY <1>1, <1>2, LenProperties, ElementOfSeq DEF SessionsOK
 <2>2. p.file \in 1 .. Len(files) BY <1>2, <2>1 DEF Sessions
 <2>3. sessions[p.src].n <= Count(p.file) /\ sessions[p.src].n \in Nat
   BY <1>1, <1>2, <2>1 DEF SessionsOK, Sessions
 <2>4. Count(p.file) \in Nat BY <1>1, <2>2, CountOK
 <2> QED BY <1>2, <2>2, <2>3, <2>4
<1>4. p.n < Blocks /\ p.n % Blocks = p.n /\ p.n = Len(got) + 1
 <2>1. Count(p.file) \in Nat /\ Count(p.file) < Blocks /\ Blocks \in Nat
   BY <1>1, <1>3, CountOK, NetBootAssumption
 <2>2. p.n \in Nat \ {0} /\ p.n < Blocks BY <1>2, <1>3, <2>1
 <2>3. p.n % Blocks = p.n BY <2>1, <2>2
 <2> QED BY <1>1, <2>2, <2>3 DEF Unordered
<1> DEFINE b == [file |-> p.file, n |-> p.n, len |-> p.len]
<1>5. /\ block' = p.n /\ prevblock' = p.n /\ ack' = p.n /\ retry' = 0
      /\ got' = Append(got, b) /\ taken' = taken + p.len
      /\ pc' = IF Goes(p.len, taken') THEN "fetch" ELSE "next"
  BY <1>4 DEF Accept
<1>6. b \in GotBlocks BY <1>2, <1>3 DEF GotBlocks
<1>7. /\ got' \in Seq(GotBlocks) /\ got' # <<>> /\ Len(got') = p.n
      /\ \A i \in 1 .. Len(got) : got'[i] = got[i]
      /\ got'[p.n] = b /\ DOMAIN got = 1 .. Len(got) /\ DOMAIN got' = 1 .. p.n
 <2>1. /\ got' \in Seq(GotBlocks) /\ got' # <<>> /\ Len(got') = Len(got) + 1
       /\ \A i \in 1 .. Len(got) : got'[i] = got[i]
       /\ got'[Len(got) + 1] = b
   BY <1>1, <1>5, <1>6, AppendProperties
 <2> QED BY <1>1, <1>4, <2>1
<1>8. ClientOK'
 <2>1. GotBlocks' = GotBlocks BY <1>1 DEF GotBlocks
 <2>2. taken' \in Nat /\ retry' \in 0 .. MaxRetries + 1
  <3>1. taken \in Nat /\ p.len \in Nat /\ MaxRetries \in Nat BY <1>1, <1>2, NetBootAssumption
  <3>2. taken' = taken + p.len /\ retry' = 0 BY <1>5
  <3> QED BY <3>1, <3>2
 <2>3. ack' \in 0 .. Len(got') BY <1>2, <1>5, <1>7
 <2> QED BY <1>1, <1>4, <1>5, <1>7, <2>1, <2>2, <2>3 DEF ClientOK
<1>9. GotOK'
 <2> SUFFICES ASSUME NEW i \in 1 .. p.n
              PROVE  /\ got'[i].n = i
                     /\ \E t \in DOMAIN sessions : sessions[t].file = got'[i].file
                                                  /\ sessions[t].n >= i
   BY <1>1, <1>7 DEF GotOK
 <2>1. CASE i \in 1 .. Len(got) BY <1>1, <1>7, <2>1 DEF GotOK
 <2>2. CASE i = p.n BY <1>2, <1>7, <2>2
 <2> QED BY <1>1, <1>4, <2>1, <2>2
<1>10. ASSUME \A i \in DOMAIN got' : got'[i].file = transfer
       PROVE  /\ p.file = transfer
              /\ taken' = Smaller(p.n * Size, files[transfer].size)
              /\ taken' <= files[transfer].size
              /\ p.len < Size => taken' = files[transfer].size
 <2>1. p.file = transfer BY <1>2, <1>7, <1>10
 <2>2. taken = Smaller((p.n - 1) * Size, files[transfer].size)
  <3>1. CASE got = <<>>
   <4>1. taken = 0 /\ p.n - 1 = 0 /\ files[transfer].size \in Nat
     BY <1>1, <1>4, <3>1, FileOK DEF ClientOK
   <4>2. 0 * Size = 0 BY SizeOK
   <4> QED BY <4>1, <4>2 DEF Smaller
  <3>2. CASE got # <<>>
   <4>1. \A i \in DOMAIN got : got[i].file = transfer BY <1>1, <1>4, <1>7, <1>10
   <4>2. Len(got) = p.n - 1 BY <1>1, <1>4
   <4> QED BY <1>1, <3>2, <4>1, <4>2 DEF TakenOK
  <3> QED BY <3>1, <3>2
 <2> QED BY <1>1, <1>2, <1>3, <1>5, <2>1, <2>2, BlockLenOK
<1>11. TakenOK' BY <1>1, <1>7, <1>10 DEF TakenOK, Size
<1>12. EndedIsWhole'
 <2> SUFFICES ASSUME pc' = "next",
                     \/ files[transfer].reader = "fill_inbuf"
                     \/ files[transfer].reader = "initrd" /\ packetsize = Default,
                     \A e \in Range(got') : e.file = transfer
              PROVE  taken' = files[transfer].size
   BY <1>1 DEF EndedIsWhole
 <2>1. \A i \in DOMAIN got' : got'[i].file = transfer BY DEF Range
 <2>2. /\ taken' <= files[transfer].size
       /\ p.len < Size => taken' = files[transfer].size
   BY <1>10, <2>1
 <2>3. ~Goes(p.len, taken') /\ transfer' = transfer /\ files[transfer].size \in Nat
   BY <1>1, <1>5, FileOK
 <2>4. CASE files[transfer].reader = "fill_inbuf"
  <3>1. ~(taken' < files[transfer].size) BY <2>3, <2>4 DEF Goes
  <3>2. taken' \in Nat BY <1>1, <1>2, <1>5
  <3> QED BY <2>2, <2>3, <3>1, <3>2
 <2>5. CASE files[transfer].reader = "initrd" /\ packetsize = Default
  <3>1. p.len # Default BY <2>3, <2>5 DEF Goes
  <3>2. p.len < Size BY <1>2, <2>5, <3>1, SizeOK, NetBootAssumption
  <3> QED BY <2>2, <3>2
 <2> QED BY <2>4, <2>5
<1> QED BY <1>7, <1>8, <1>9, <1>11, <1>12, <1>1, <1>4

\* What awaits a block: it is the next one, or nothing the reader has changes.
LEMMA FetchReplyOK ==
  ASSUME FewerThanBlocks, IInv, pc = "await_fetch", NEW p, PacketOK(p, sessions),
         NEW r \in {retry, Spent}, FetchReply(p, r), p = packet',
         UNCHANGED <<known, transfer, iport, packetsize, server>>
  PROVE  ClientOK' /\ GotOK' /\ TakenOK' /\ EndedIsWhole' /\ Len(got') >= Len(got)
<1>1. CASE /\ p.op = "DATA" /\ p.len <= packetsize /\ ~Unordered(p.n % Blocks)
           /\ Accept(p)
  BY <1>1, AcceptOK
<1> DEFINE Held ==
             /\ prevblock' = prevblock /\ got' = got /\ taken' = taken
             /\ block' \in {block, prevblock} /\ ack' \in {ack, prevblock}
             /\ retry' = r
             /\ pc' = "fetch" \/ (p.op = "ERROR" /\ pc' = FetchError)
<1>2. CASE Held
 <2>1. /\ ClientOK /\ GotOK /\ TakenOK /\ transfer > 0
       /\ UNCHANGED <<files, reply, sessions>>
   BY DEF IInv, ClientOK, server
 <2>2. /\ retry' \in 0 .. MaxRetries + 1 /\ (got = <<>> => iport' - 1 <= retry')
  <3>1. /\ retry \in Nat /\ iport \in Nat /\ retry <= MaxRetries + 1 /\ MaxRetries \in Nat
        /\ (got = <<>> => iport - 1 <= retry) /\ iport' = iport
    BY <2>1, NetBootAssumption DEF ClientOK
  <3>2. CASE retry' = retry BY <3>1, <3>2
  <3>3. CASE retry' = Spent BY <3>1, <3>3 DEF Spent
  <3> QED BY <1>2, <3>2, <3>3
 <2>3. ClientOK'
  <3>1. GotBlocks' = GotBlocks BY <2>1 DEF GotBlocks
  <3>2. /\ ack' \in {Junk} \cup (0 .. Len(got')) /\ block' = Len(got')
        /\ pc' \in {"next", "fetch", "lost"}
    BY <1>2, <2>1 DEF ClientOK, FetchError
  <3> QED BY <1>2, <2>1, <2>2, <3>1, <3>2 DEF ClientOK
 <2>4. GotOK' /\ TakenOK' BY <1>2, <2>1, GotKept
 <2>5. EndedIsWhole' BY <1>2 DEF EndedIsWhole, FetchError
 <2>6. Len(got') >= Len(got) BY <1>2, <2>1 DEF ClientOK
 <2> QED BY <2>3, <2>4, <2>5, <2>6
<1>3. \/ /\ p.op = "DATA" /\ p.len <= packetsize /\ ~Unordered(p.n % Blocks)
         /\ Accept(p)
      \/ Held
  BY DEF FetchReply, Again
<1> QED BY <1>1, <1>2, <1>3

\* A packet has come, or what is in nic.packet is taken for one.
LEMMA FetchAnsweredStep ==
  ASSUME FewerThanBlocks, IInv, FetchAnswered \/ FetchUnanswered PROVE IInv'
<1>1. CASE FetchAnswered
 <2>1. /\ pc = "await_fetch" /\ rx # <<>> /\ packet' = Head(rx) /\ rx' = Tail(rx)
       /\ FetchReply(Head(rx), retry)
       /\ UNCHANGED <<known, transfer, iport, packetsize, up, server>>
   BY <1>1 DEF FetchAnswered
 <2>2. PacketOK(Head(rx), sessions) BY <2>1, HeadOK DEF IInv
 <2>3. ClientOK' /\ GotOK' /\ TakenOK' /\ EndedIsWhole' /\ Len(got') >= Len(got)
   BY <2>1, <2>2, FetchReplyOK
 <2> QED BY <2>1, <2>3, ClientKeptSilent
<1>2. CASE FetchUnanswered
 <2>1. /\ pc = "await_fetch" /\ UNCHANGED <<packet, rx>>
       /\ UNCHANGED <<known, transfer, iport, packetsize, up, server>>
   BY <1>2 DEF FetchUnanswered
 <2>2. PICK r \in {retry, Spent} : FetchReply(packet, r) BY <1>2 DEF FetchUnanswered
 <2>3. PacketOK(packet, sessions) BY DEF IInv, ReceiveOK
 <2>4. ClientOK' /\ GotOK' /\ TakenOK' /\ EndedIsWhole' /\ Len(got') >= Len(got)
   BY <2>1, <2>2, <2>3, FetchReplyOK
 <2> QED BY <2>1, <2>4, ClientKeptSilent
<1> QED BY <1>1, <1>2

-----------------------------------------------------------------------------
(* The servers' steps, and the network's. *)

SessionsGrow ==
  /\ Len(sessions') \in Nat /\ Len(sessions') >= Len(sessions)
  /\ \A t \in DOMAIN sessions : /\ sessions'[t].file = sessions[t].file
                                /\ sessions'[t].n \in Nat
                                /\ sessions'[t].n >= sessions[t].n

\* Packets that belong to no session.
LEMMA PlainPacket ==
  ASSUME files \in Loads, NEW o \in {"none", "ARP", "RARP"}
  PROVE  PacketOK([Nothing EXCEPT !.op = o], sessions)
<1> DEFINE p == [op |-> o, port |-> Junk, src |-> Junk, file |-> 0, n |-> 0, len |-> 0]
<1>1. [Nothing EXCEPT !.op = o] = p BY DEF Nothing
<1>2. Len(files) \in Nat BY NetBootAssumption, LenProperties
<1>3. p \in Packets BY <1>2, NetBootAssumption DEF Packets, Junk
<1> QED BY <1>1, <1>3 DEF PacketOK

\* The length of a block.
LEMMA OutstandingLen ==
  ASSUME NEW t, NEW s, s.n > 0
  PROVE  Outstanding(t, s).len = Smaller(s.size, files[s.file].size - (s.n - 1) * s.size)
<1> DEFINE l == CASE s.n > 0 -> Smaller(s.size, files[s.file].size - (s.n - 1) * s.size)
                  [] s.n = 0 /\ reply = "OACK" -> MaxPacket
                  [] OTHER -> 0
<1>1. Outstanding(t, s).len = l BY DEF Outstanding
<1> QED BY <1>1

\* What a session waits an answer for is a packet of its own.
LEMMA OutstandingOK ==
  ASSUME FewerThanBlocks, files \in Loads, NEW ss \in Seq(Sessions), NEW t \in DOMAIN ss,
         ss[t].size = Size, ss[t].n <= Count(ss[t].file)
  PROVE  PacketOK(Outstanding(t, ss[t]), ss)
<1> DEFINE s == ss[t]
           p == Outstanding(t, s)
<1>1. /\ s.file \in 1 .. Len(files) /\ s.port \in 1 .. MaxRetries + 1 /\ s.n \in Nat
      /\ t \in Nat
 <2>1. s \in Sessions /\ t \in Nat BY LenProperties, ElementOfSeq
 <2> QED BY <2>1 DEF Sessions
<1>2. /\ p.port = s.port /\ p.src = t /\ p.file = s.file /\ p.n = s.n
      /\ p.op = IF s.n = 0 THEN "OACK" ELSE "DATA"
  BY DEF Outstanding
<1>5. ASSUME p.op \in {"OACK", "DATA"}, p.len \in 0 .. MaxPacket PROVE p \in Packets
 <2>1. p = [op |-> p.op, port |-> s.port, src |-> t, file |-> s.file, n |-> s.n,
            len |-> p.len]
   BY DEF Outstanding
 <2>2. s.port \in Int /\ t \in Int /\ s.file \in 0 .. Len(files) BY <1>1, NetBootAssumption
 <2> HIDE DEF s, p
 <2> QED BY <1>1, <1>5, <2>1, <2>2 DEF Packets
<1>3. CASE s.n > 0
 <2>1. p.op = "DATA" /\ p.len = BlockLen(s.file, s.n)
  <3>1. p.op = "DATA" BY <1>1, <1>2, <1>3
  <3>2. p.len = Smaller(s.size, files[s.file].size - (s.n - 1) * s.size) BY <1>3, OutstandingLen
  <3> QED BY <3>1, <3>2 DEF BlockLen
 <2>2. s.n \in 1 .. Count(s.file) BY <1>1, <1>3, CountOK
 <2>3. p.len \in 0 .. Size BY <1>1, <2>1, <2>2, BlockLenOK
 <2>4. p.len \in 0 .. MaxPacket BY <2>3, SizeOK, NetBootAssumption
 <2>5. p \in Packets BY <1>5, <2>1, <2>4
 <2>6. p.n \in 1 .. ss[p.src].n /\ p.src \in DOMAIN ss BY <1>1, <1>2, <1>3
 <2> QED BY <1>2, <2>1, <2>5, <2>6 DEF PacketOK
<1>4. CASE s.n = 0
 <2>1. p.op = "OACK" /\ p.len \in {0, MaxPacket} BY <1>2, <1>4 DEF Outstanding
 <2>2. p \in Packets
  <3>1. p.len \in 0 .. MaxPacket BY <2>1, NetBootAssumption
  <3> QED BY <1>5, <2>1, <3>1
 <2>3. p.src \in DOMAIN ss BY <1>2
 <2> QED BY <2>1, <2>2, <2>3 DEF PacketOK
<1> QED BY <1>1, <1>3, <1>4

\* Packets stay in order while sessions get on, and one arrives.
LEMMA ReceiveGrows ==
  ASSUME ReceiveOK, SessionsGrow, UNCHANGED <<files, reply, packet>>,
         sessions \in Seq(Sessions), sessions' \in Seq(Sessions),
         NEW p, UNCHANGED rx \/ (PacketOK(p, sessions') /\ Arrives(p))
  PROVE  ReceiveOK'
<1> DEFINE OK(q) == PacketOK(q, sessions')
<1>1. ASSUME NEW q, PacketOK(q, sessions) PROVE OK(q)
 <2>1. /\ DOMAIN sessions = 1 .. Len(sessions) /\ DOMAIN sessions' = 1 .. Len(sessions')
       /\ Len(sessions) \in Nat
   BY LenProperties
 <2>2. ASSUME NEW t \in DOMAIN sessions
       PROVE  t \in DOMAIN sessions' /\ sessions[t].n \in Nat
  <3>1. sessions[t] \in Sessions BY <2>1, ElementOfSeq
  <3> QED BY <2>1, <3>1 DEF SessionsGrow, Sessions
 <2>3. ASSUME q.op = "DATA" PROVE q.n \in 1 .. sessions'[q.src].n
   BY <1>1, <2>2, <2>3 DEF PacketOK, SessionsGrow
 <2> QED BY <1>1, <2>2, <2>3 DEF PacketOK, SessionsGrow
<1>2. Packets' = Packets BY DEF Packets
<1>3. \A q : OK(q) => PacketOK(q, sessions') OBVIOUS
<1> SUFFICES /\ OK(packet') /\ rx' \in Seq(Packets) /\ Len(rx') <= NumRxDesc
             /\ \A i \in DOMAIN rx' : OK(rx'[i])
  BY <1>2 DEF ReceiveOK, PacketOK, BlockLen, Size
<1>4. OK(packet') BY <1>1 DEF ReceiveOK
<1>5. CASE UNCHANGED rx BY <1>1, <1>4, <1>5 DEF ReceiveOK
<1>6. CASE OK(p) /\ Len(rx) < NumRxDesc /\ rx' = Append(rx, p)
 <2>1. rx \in Seq(Packets) /\ p \in Packets /\ Len(rx) < NumRxDesc
   BY <1>6 DEF ReceiveOK, PacketOK
 <2>2. /\ rx' \in Seq(Packets) /\ Len(rx') = Len(rx) + 1
       /\ \A i \in 1 .. Len(rx) : rx'[i] = rx[i]
       /\ rx'[Len(rx) + 1] = p
   BY <1>6, <2>1, AppendProperties
 <2>3. /\ DOMAIN rx = 1 .. Len(rx) /\ DOMAIN rx' = 1 .. Len(rx')
       /\ Len(rx) \in Nat /\ NumRxDesc \in Nat
   BY <2>1, <2>2, NetBootAssumption
 <2>4. Len(rx') <= NumRxDesc BY <2>1, <2>2, <2>3
 <2>5. ASSUME NEW i \in DOMAIN rx' PROVE OK(rx'[i])
  <3>1. CASE i \in 1 .. Len(rx)
   <4>1. rx'[i] = rx[i] /\ PacketOK(rx[i], sessions) BY <2>2, <2>3, <3>1 DEF ReceiveOK
   <4> QED BY <1>1, <4>1
  <3>2. CASE i = Len(rx) + 1 BY <1>6, <2>2, <3>2
  <3> QED BY <2>2, <2>3, <3>1, <3>2
 <2> QED BY <1>4, <2>2, <2>4, <2>5
<1> QED BY <1>5, <1>6 DEF Arrives

\* What the servers do leaves the rest in order when their sessions only get on,
\* up to the block after those the reader has.
LEMMA ServerKept ==
  ASSUME IInv, SessionsGrow, SessionsOK', UNCHANGED <<client, files, reply>>,
         NEW p, UNCHANGED rx \/ (PacketOK(p, sessions') /\ Arrives(p)),
         UNCHANGED up \/ (up # <<>> /\ up' = Tail(up))
  PROVE  IInv'
<1>1. /\ ClientOK /\ ReceiveOK /\ SessionsOK /\ UpOK /\ GotOK /\ TakenOK /\ EndedIsWhole
      /\ sessions \in Seq(Sessions) /\ sessions' \in Seq(Sessions)
      /\ files' = files /\ reply' = reply
 <2>1. Sessions' = Sessions BY DEF Sessions
 <2> QED BY <2>1 DEF IInv, SessionsOK
<1>2. /\ DOMAIN sessions = 1 .. Len(sessions) /\ DOMAIN sessions' = 1 .. Len(sessions')
      /\ Len(sessions) \in Nat
  BY <1>1, LenProperties
<1>3. ASSUME NEW t \in DOMAIN sessions
      PROVE  /\ t \in DOMAIN sessions' /\ sessions'[t].file = sessions[t].file
             /\ sessions[t].n \in Nat /\ sessions'[t].n \in Nat
             /\ sessions'[t].n >= sessions[t].n
 <2>1. sessions[t] \in Sessions BY <1>1, <1>2, ElementOfSeq
 <2> QED BY <1>2, <2>1 DEF SessionsGrow, Sessions
<1>4. ClientOK' /\ EndedIsWhole' /\ TakenOK'
 <2>1. GotBlocks' = GotBlocks BY <1>1 DEF GotBlocks
 <2>2. /\ pc' = pc /\ known' = known /\ transfer' = transfer /\ retry' = retry
       /\ iport' = iport /\ block' = block /\ prevblock' = prevblock
       /\ packetsize' = packetsize /\ ack' = ack /\ packet' = packet /\ got' = got
       /\ taken' = taken
   BY DEF client
 <2>3. ClientOK' BY <1>1, <2>1, <2>2 DEF ClientOK
 <2>4. EndedIsWhole' BY <1>1, <2>2 DEF EndedIsWhole
 <2>5. TakenOK' BY <1>1, <2>2 DEF TakenOK, Size
 <2> QED BY <2>3, <2>4, <2>5
<1>5. ReceiveOK'
 <2>1. packet' = packet BY DEF client
 <2> QED BY <1>1, <2>1, ReceiveGrows
<1>6. GotOK'
 <2>1. got' = got BY DEF client
 <2>2. ASSUME NEW i \in DOMAIN got
       PROVE  /\ got[i].n = i
              /\ \E t \in DOMAIN sessions' : /\ sessions'[t].file = got[i].file
                                             /\ sessions'[t].n >= i
  <3>1. PICK t \in DOMAIN sessions : sessions[t].file = got[i].file /\ sessions[t].n >= i
    BY <1>1 DEF GotOK
  <3>2. i \in Nat BY <1>1, LenProperties DEF ClientOK
  <3>3. t \in DOMAIN sessions' /\ sessions'[t].file = got[i].file /\ sessions'[t].n >= i
    BY <1>3, <3>1, <3>2
  <3> QED BY <1>1, <3>3 DEF GotOK
 <2> QED BY <2>1, <2>2 DEF GotOK
<1>7. UpOK'
 <2>1. transfer' = transfer /\ got' = got BY DEF client
 <2>2. ASSUME NEW m, MessageOK(m) PROVE MessageOK(m)'
  <3>1. m.op = "ACK" => m.tid \in {0} \cup DOMAIN sessions BY <2>2 DEF MessageOK
  <3>2. 0 \notin DOMAIN sessions' /\ DOMAIN sessions \subseteq DOMAIN sessions' BY <1>2, <1>3
  <3> QED BY <1>3, <2>1, <2>2, <3>1, <3>2 DEF MessageOK
 <2>3. up \in Seq(Messages) /\ Len(up) <= MaxUp /\ \A i \in DOMAIN up : MessageOK(up[i])
   BY <1>1 DEF UpOK
 <2>4. CASE UNCHANGED up BY <2>2, <2>3, <2>4 DEF UpOK
 <2>5. CASE up # <<>> /\ up' = Tail(up)
  <3>1. /\ up' \in Seq(Messages) /\ Len(up') = Len(up) - 1
        /\ \A i \in 1 .. Len(up') : up'[i] = up[i + 1]
    BY <2>3, <2>5, HeadTailProperties
  <3>2. /\ DOMAIN up' = 1 .. Len(up') /\ DOMAIN up = 1 .. Len(up)
        /\ Len(up) \in Nat /\ MaxUp \in Nat
    BY <2>3, <3>1, NetBootAssumption
  <3>3. Len(up') <= MaxUp BY <2>3, <3>1, <3>2
  <3>4. ASSUME NEW i \in DOMAIN up' PROVE MessageOK(up[i])'
   <4>1. i + 1 \in DOMAIN up /\ up'[i] = up[i + 1] BY <3>1, <3>2
   <4> QED BY <2>2, <2>3, <4>1
  <3> QED BY <3>1, <3>3, <3>4 DEF UpOK
 <2> QED BY <2>4, <2>5
<1> QED BY <1>1, <1>4, <1>5, <1>6, <1>7 DEF IInv

\* Nothing happens to the sessions.
LEMMA SessionsSame ==
  ASSUME SessionsOK, UNCHANGED sessions
  PROVE  /\ SessionsGrow
         /\ UNCHANGED <<files, reply, transfer, got>> => SessionsOK'
<1>1. sessions \in Seq(Sessions) /\ DOMAIN sessions = 1 .. Len(sessions) /\ Len(sessions) \in Nat
  BY LenProperties DEF SessionsOK
<1>2. ASSUME NEW t \in DOMAIN sessions PROVE sessions[t].n \in Nat
 <2>1. sessions[t] \in Sessions BY <1>1, ElementOfSeq
 <2> QED BY <2>1 DEF Sessions
<1>3. SessionsGrow BY <1>1, <1>2 DEF SessionsGrow
<1>4. ASSUME UNCHANGED <<files, reply, transfer, got>> PROVE SessionsOK'
 <2>1. Sessions' = Sessions /\ Size' = Size /\ \A f : Count(f)' = Count(f)
   BY <1>4 DEF Sessions, Size, Count
 <2> QED BY <1>4, <2>1 DEF SessionsOK
<1> QED BY <1>3, <1>4

\* Requests open sessions, answers to them go back.
LEMMA ServerReceivesStep ==
  ASSUME FewerThanBlocks, IInv, ServerReceives PROVE IInv'
<1>1. /\ files \in Loads /\ SessionsOK /\ ClientOK /\ sessions \in Seq(Sessions)
      /\ UNCHANGED <<client, files, reply>> /\ transfer' = transfer /\ got' = got
      /\ up # <<>> /\ up' = Tail(up) /\ transfer \in 0 .. Len(files)
      /\ Len(got) \in Nat
  BY DEF IInv, ServerReceives, client, SessionsOK, ClientOK
<1>2. /\ MessageOK(Head(up)) /\ UpOK
      /\ DOMAIN sessions = 1 .. Len(sessions) /\ Len(sessions) \in Nat
 <2>1. up \in Seq(Messages) /\ \A i \in DOMAIN up : MessageOK(up[i]) BY DEF IInv, UpOK
 <2>2. Len(up) \in Nat \ {0} /\ DOMAIN up = 1 .. Len(up) /\ Head(up) = up[1]
   BY <1>1, <2>1, EmptySeq, LenProperties
 <2> QED BY <1>1, <2>1, <2>2, LenProperties DEF IInv
<1>3. /\ Sessions' = Sessions /\ Size' = Size /\ \A f : Count(f)' = Count(f)
      /\ \A f \in 1 .. Len(files) : Count(f) \in Nat \ {0} /\ Count(f) < Blocks
  BY <1>1, CountOK DEF Sessions, Size, Count
<1>4. ASSUME NEW t \in DOMAIN sessions
      PROVE  /\ sessions[t] \in Sessions
             /\ sessions[t].n \in Nat /\ sessions[t].file \in 1 .. Len(files)
             /\ sessions[t].size = Size /\ sessions[t].n <= Count(sessions[t].file)
             /\ sessions[t].file <= transfer
             /\ sessions[t].file = transfer => sessions[t].n <= Len(got) + 1
 <2>1. sessions[t] \in Sessions BY <1>1, <1>2, ElementOfSeq
 <2> QED BY <1>1, <2>1 DEF SessionsOK, Sessions
<1>5. ASSUME UNCHANGED sessions, NEW p, UNCHANGED rx \/ (PacketOK(p, sessions) /\ Arrives(p))
      PROVE  IInv'
 <2>1. SessionsGrow BY <1>2, <1>4, <1>5 DEF SessionsGrow
 <2>2. SessionsOK' BY <1>1, <1>3, <1>5 DEF SessionsOK
 <2> QED BY <1>1, <1>5, <2>1, <2>2, ServerKept
<1>6. CASE ServerRarp
 <2> DEFINE p == [Nothing EXCEPT !.op = "RARP"]
 <2>1. PacketOK(p, sessions) BY <1>1, PlainPacket
 <2> QED BY <1>5, <1>6, <2>1 DEF ServerRarp
<1>7. CASE ServerRefuses
 <2> DEFINE p == [op |-> "ERROR", port |-> Head(up).port, src |-> 0, file |-> 0,
                  n |-> 0, len |-> 0]
 <2>1. Head(up).port \in Int /\ 0 \in 0 .. Len(files) /\ 0 \in 0 .. MaxPacket
   BY <1>1, <1>2, <1>7, NetBootAssumption DEF MessageOK, ServerRefuses
 <2>2. p \in Packets BY <2>1 DEF Packets
 <2>3. PacketOK(p, sessions) BY <2>2 DEF PacketOK
 <2> QED BY <1>5, <1>7, <2>3 DEF ServerRefuses
<1>8. CASE ServerIgnores BY <1>5, <1>8 DEF ServerIgnores
<1>9. CASE ServerError
 <2> DEFINE Later(t) == IF t = Head(up).tid THEN [sessions[t] EXCEPT !.open = FALSE]
                        ELSE sessions[t]
 <2>1. ASSUME NEW t \in 1 .. Len(sessions)
       PROVE  /\ Later(t) \in Sessions /\ Later(t).file = sessions[t].file
              /\ Later(t).n = sessions[t].n /\ Later(t).size = sessions[t].size
   BY <1>2, <1>4 DEF Sessions
 <2>2. sessions' = [t \in 1 .. Len(sessions) |-> Later(t)] /\ UNCHANGED rx
   BY <1>2, <1>9 DEF ServerError
 <2>3. sessions' \in Seq(Sessions) BY <1>2, <2>1, <2>2, IsASeq
 <2>4. Len(sessions') = Len(sessions) /\ DOMAIN sessions' = DOMAIN sessions
   BY <1>2, <2>2, <2>3, LenProperties
 <2>5. \A t \in DOMAIN sessions : sessions'[t] = Later(t) BY <1>2, <2>2
 <2> HIDE DEF Later
 <2>6. SessionsGrow BY <1>2, <1>4, <2>1, <2>4, <2>5 DEF SessionsGrow
 <2>7. SessionsOK' BY <1>1, <1>2, <1>3, <1>4, <2>1, <2>3, <2>4, <2>5 DEF SessionsOK
 <2> QED BY <1>1, <2>2, <2>6, <2>7, ServerKept
<1>10. CASE ServerOpens
 <2>1. PICK s : /\ s = [file |-> Head(up).file, port |-> Head(up).port, open |-> TRUE,
                        size |-> IF reply = "OACK" THEN MaxPacket ELSE Default,
                        n |-> IF reply = "DATA" THEN 1 ELSE 0]
                /\ sessions' = Append(sessions, s)
                /\ Arrives(Outstanding(Len(sessions) + 1, s))
   BY <1>10 DEF ServerOpens
 <2>2. Head(up).file \in 1 .. transfer /\ Head(up).port \in 1 .. MaxRetries + 1
   BY <1>2, <1>10 DEF ServerOpens, MessageOK
 <2>3. /\ s \in Sessions /\ s.file \in 1 .. Len(files) /\ s.file <= transfer
       /\ s.size = Size /\ s.n \in {0, 1}
   BY <1>1, <2>1, <2>2, NetBootAssumption DEF Sessions, Size
 <2>4. /\ sessions' \in Seq(Sessions) /\ Len(sessions') = Len(sessions) + 1
       /\ \A t \in 1 .. Len(sessions) : sessions'[t] = sessions[t]
       /\ sessions'[Len(sessions) + 1] = s
   BY <1>1, <2>1, <2>3, AppendProperties
 <2>5. DOMAIN sessions' = 1 .. Len(sessions) + 1 BY <2>4, LenProperties
 <2>6. s.n <= Count(s.file) /\ s.n <= Len(got) + 1 BY <1>1, <1>3, <2>3
 <2>7. SessionsGrow BY <1>2, <1>4, <2>4 DEF SessionsGrow
 <2>8. ASSUME NEW t \in DOMAIN sessions'
       PROVE  /\ sessions'[t].size = Size /\ sessions'[t].file <= transfer
              /\ sessions'[t].n <= Count(sessions'[t].file)
              /\ sessions'[t].file = transfer => sessions'[t].n <= Len(got) + 1
  <3>1. CASE t \in 1 .. Len(sessions) BY <1>2, <1>4, <2>4, <3>1
  <3>2. CASE t = Len(sessions) + 1 BY <2>3, <2>4, <2>6, <3>2
  <3> QED BY <1>2, <2>5, <3>1, <3>2
 <2>9. SessionsOK' BY <1>1, <1>3, <2>4, <2>8 DEF SessionsOK
 <2>10. PacketOK(Outstanding(Len(sessions) + 1, s), sessions')
  <3>1. Len(sessions) + 1 \in DOMAIN sessions' /\ sessions'[Len(sessions) + 1] = s
    BY <1>2, <2>4, <2>5
  <3> QED BY <1>1, <2>3, <2>4, <2>6, <3>1, OutstandingOK
 <2> QED BY <1>1, <2>1, <2>7, <2>9, <2>10, ServerKept
<1>12. ASSUME NEW tid \in DOMAIN sessions, NEW s \in Sessions,
              s.file = sessions[tid].file, s.size = Size, s.n >= sessions[tid].n,
              s.n <= Count(s.file), s.file = transfer => s.n <= Len(got) + 1,
              sessions' = [sessions EXCEPT ![tid] = s],
              UNCHANGED rx \/ Arrives(Outstanding(tid, s))
       PROVE  IInv'
 <2>1. /\ sessions' \in Seq(Sessions) /\ Len(sessions') = Len(sessions)
       /\ DOMAIN sessions' = DOMAIN sessions /\ sessions'[tid] = s
       /\ \A t \in DOMAIN sessions : t # tid => sessions'[t] = sessions[t]
  <3>1. /\ sessions' \in Seq(Sessions) /\ Len(sessions') = Len(sessions)
        /\ \A j \in 1 .. Len(sessions) :
             sessions'[j] = IF j = tid THEN s ELSE sessions[j]
    BY <1>1, <1>2, <1>12, ExceptSeq
  <3> QED BY <1>2, <3>1, LenProperties
 <2>2. s.n \in Nat /\ s.file <= transfer BY <1>4, <1>12 DEF Sessions
 <2>3. SessionsGrow BY <1>2, <1>4, <1>12, <2>1, <2>2 DEF SessionsGrow
 <2>4. ASSUME NEW t \in DOMAIN sessions'
       PROVE  /\ sessions'[t].size = Size /\ sessions'[t].file <= transfer
              /\ sessions'[t].n <= Count(sessions'[t].file)
              /\ sessions'[t].file = transfer => sessions'[t].n <= Len(got) + 1
  <3>1. CASE t = tid BY <1>12, <2>1, <2>2, <3>1
  <3>2. CASE t # tid BY <1>4, <2>1, <3>2
  <3> QED BY <3>1, <3>2
 <2>5. SessionsOK' BY <1>1, <1>3, <2>1, <2>4 DEF SessionsOK
 <2>6. PacketOK(Outstanding(tid, s), sessions') BY <1>1, <1>12, <2>1, OutstandingOK
 <2> QED BY <1>1, <1>12, <2>3, <2>5, <2>6, ServerKept
<1>11. CASE ServerAck
 <2> DEFINE tid == Head(up).tid
            s == [sessions[tid] EXCEPT !.n = @ + 1]
            n == sessions[tid].n
 <2>1. /\ Head(up).op = "ACK" /\ tid \in DOMAIN sessions /\ Head(up).block = n % Blocks
       /\ \/ n = LastBlock(s) /\ sessions' = [sessions EXCEPT ![tid].open = FALSE]
             /\ UNCHANGED rx
          \/ n # LastBlock(s) /\ sessions' = [sessions EXCEPT ![tid] = s]
             /\ Arrives(Outstanding(tid, s))
   BY <1>11 DEF ServerAck, Acknowledges
 <2>2. /\ sessions[tid] \in Sessions /\ n \in Nat /\ sessions[tid].file \in 1 .. Len(files)
       /\ sessions[tid].size = Size /\ n <= Count(sessions[tid].file)
       /\ sessions[tid].file <= transfer
       /\ sessions[tid].file = transfer => n <= Len(got) + 1
   BY <1>4, <2>1
 <2>3. /\ s \in Sessions /\ s.n = n + 1 /\ s.file = sessions[tid].file /\ s.size = Size
       /\ LastBlock(s) = Count(s.file)
   BY <2>2 DEF Sessions, LastBlock, Count
 <2>4. Count(s.file) \in Nat /\ Count(s.file) < Blocks /\ Blocks \in Nat \ {0}
   BY <1>3, <2>2, <2>3, NetBootAssumption
 <2>5. s.file = transfer => s.n <= Len(got) + 1
  <3>1. n % Blocks = n BY <2>2, <2>3, <2>4
  <3>2. s.file = transfer => n <= Len(got) BY <1>2, <2>1, <2>3, <3>1 DEF MessageOK
  <3> QED BY <1>1, <2>2, <2>3, <3>2
 <2>6. CASE /\ n = LastBlock(s) /\ sessions' = [sessions EXCEPT ![tid].open = FALSE]
            /\ UNCHANGED rx
  <3> DEFINE e == [sessions[tid] EXCEPT !.open = FALSE]
  <3>1. e \in Sessions /\ e.n = n /\ e.file = sessions[tid].file /\ e.size = Size
    BY <2>2 DEF Sessions
  <3>2. sessions' = [sessions EXCEPT ![tid] = e] BY <2>6
  <3>3. /\ e.n >= sessions[tid].n /\ e.n <= Count(e.file)
        /\ e.file = transfer => e.n <= Len(got) + 1
    BY <2>2, <3>1
  <3> HIDE DEF e
  <3> QED BY <1>12, <2>1, <2>6, <3>1, <3>2, <3>3
 <2>7. CASE /\ n # LastBlock(s) /\ sessions' = [sessions EXCEPT ![tid] = s]
            /\ Arrives(Outstanding(tid, s))
  <3>1. s.n \in Nat /\ s.n <= Count(s.file) /\ s.n >= n BY <2>2, <2>3, <2>4, <2>7
  <3> HIDE DEF s
  <3> QED BY <1>12, <2>1, <2>2, <2>3, <2>5, <2>7, <3>1
 <2> QED BY <2>1, <2>6, <2>7
<1> QED BY <1>6, <1>7, <1>8, <1>9, <1>10, <1>11 DEF ServerReceives

\* The server sends again, and other machines send.
LEMMA OthersStep ==
  ASSUME FewerThanBlocks, IInv, Noise \/ \E t \in Tids : ServerResends(t) PROVE IInv'
<1>1. /\ files \in Loads /\ SessionsOK /\ sessions \in Seq(Sessions)
      /\ UNCHANGED <<client, files, reply, sessions, up>>
  BY DEF IInv, Noise, ServerResends, server, SessionsOK
<1>2. SessionsGrow BY <1>1, SessionsSame
<1>3. SessionsOK' BY <1>1, SessionsSame DEF client
<1>4. CASE Noise
 <2> DEFINE p == [Nothing EXCEPT !.op = "ARP"]
 <2>1. PacketOK(p, sessions) BY <1>1, PlainPacket
 <2>2. Arrives(p) BY <1>4 DEF Noise, Arrives
 <2> QED BY <1>1, <1>2, <1>3, <2>1, <2>2, ServerKept
<1>5. CASE \E t \in Tids : ServerResends(t)
 <2>1. PICK t : ServerResends(t) BY <1>5
 <2>2. t \in DOMAIN sessions /\ Arrives(Outstanding(t, sessions[t]))
   BY <2>1 DEF ServerResends, Arrives
 <2>3. PacketOK(Outstanding(t, sessions[t]), sessions)
   BY <1>1, <2>2, OutstandingOK DEF SessionsOK
 <2> QED BY <1>1, <1>2, <1>3, <2>2, <2>3, ServerKept
<1> QED BY <1>4, <1>5

-----------------------------------------------------------------------------

\* Nothing has been asked for, sent or read.
LEMMA InvInit ==
  ASSUME Init PROVE IInv
<1>1. /\ Len(files) \in Nat /\ files \in Loads /\ reply \in Replies
      /\ transfer = 0 /\ retry = 0 /\ iport = 0 /\ block = 0 /\ prevblock = 0 /\ taken = 0
      /\ got = <<>> /\ up = <<>> /\ rx = <<>> /\ sessions = <<>> /\ packet = Nothing
      /\ pc = "rarp" /\ known = FALSE /\ packetsize = Default /\ ack = Junk
  BY NetBootAssumption, LenProperties DEF Init
<1>2. ClientOK
 <2>1. got \in Seq(GotBlocks) /\ Len(got) = 0 BY <1>1
 <2>2. /\ retry \in 0 .. MaxRetries + 1 /\ iport \in 0 .. MaxRetries + 1
       /\ iport - 1 <= retry /\ retry <= MaxRetries /\ Len(got) < Blocks
   BY <1>1, <2>1, NetBootAssumption
 <2>3. /\ transfer \in 0 .. Len(files) /\ ack \in {Junk} \cup (0 .. Len(got))
       /\ prevblock = Len(got) /\ block = Len(got) /\ taken \in Nat
   BY <1>1, <2>1
 <2> QED BY <1>1, <2>1, <2>2, <2>3 DEF ClientOK
<1>3. ReceiveOK
 <2>1. rx \in Seq(Packets) /\ Len(rx) = 0 /\ DOMAIN rx = {} BY <1>1
 <2>2. packet = [Nothing EXCEPT !.op = "none"] BY <1>1 DEF Nothing
 <2>3. PacketOK(packet, sessions) BY <1>1, <2>2, PlainPacket
 <2> QED BY <2>1, <2>3, NetBootAssumption DEF ReceiveOK
<1>4. SessionsOK BY <1>1 DEF SessionsOK
<1>5. UpOK
 <2>1. up \in Seq(Messages) /\ Len(up) = 0 /\ DOMAIN up = {} BY <1>1
 <2> QED BY <2>1, NetBootAssumption DEF UpOK
<1>6. GotOK /\ TakenOK /\ EndedIsWhole BY <1>1 DEF GotOK, TakenOK, EndedIsWhole
<1> QED BY <1>1, <1>2, <1>3, <1>4, <1>5, <1>6 DEF IInv

\* Every step keeps the invariant.
LEMMA InvStep ==
  ASSUME FewerThanBlocks, IInv, [Next]_vars PROVE IInv'
<1>1. CASE ClientStep
 <2>1. CASE RarpRequest \/ RarpGivesUp \/ RarpReply \/ RarpTimeout \/ RarpEscape
   BY <2>1, RarpStep
 <2>2. CASE InitAnswered \/ InitUnanswered BY <2>2, InitAnsweredStep
 <2>3. CASE FetchAnswered \/ FetchUnanswered BY <2>3, FetchAnsweredStep
 <2> QED BY <1>1, <2>1, <2>2, <2>3, PollOtherStep, TftpInitStep, InitRetryStep, FetchStep,
            FetchRetryStep DEF ClientStep
<1>2. CASE ServerReceives BY <1>2, ServerReceivesStep
<1>3. CASE Noise \/ \E tid \in Tids : ServerResends(tid) BY <1>3, OthersStep
<1>4. CASE UNCHANGED vars
 <2>1. UNCHANGED <<client, up, rx, files, reply, sessions>> BY <1>4 DEF vars, server
 <2>2. SessionsOK /\ sessions \in Seq(Sessions) BY DEF IInv, SessionsOK
 <2>3. SessionsGrow BY <2>1, <2>2, SessionsSame
 <2>4. SessionsOK' BY <2>1, <2>2, SessionsSame DEF client
 <2> QED BY <2>1, <2>3, <2>4, ServerKept
<1> QED BY <1>1, <1>2, <1>3, <1>4 DEF Next

\* The invariant is one of every execution.
LEMMA Invariance == ASSUME FewerThanBlocks PROVE Spec => []IInv
<1>1. Init => IInv BY InvInit
<1>2. IInv /\ [Next]_vars => IInv' BY InvStep
<1> QED BY <1>1, <1>2, PTL DEF Spec, Safety

-----------------------------------------------------------------------------

\* The ranges follow: the ports of a transfer are no more than its retries.
LEMMA TypeFollows ==
  ASSUME IInv PROVE TypeOK
<1>1. /\ ClientOK /\ ReceiveOK /\ UpOK /\ sessions \in Seq(Sessions)
      /\ Len(got) \in Nat /\ Len(got) < Blocks /\ Blocks \in Nat
  BY NetBootAssumption DEF IInv, ClientOK, SessionsOK
<1>2. /\ block \in 0 .. Blocks - 1 /\ prevblock \in 0 .. Blocks - 1
      /\ ack \in {Junk} \cup (0 .. Blocks - 1)
  BY <1>1 DEF ClientOK
<1>3. packet \in Packets /\ rx \in Seq(Packets) /\ Len(rx) <= NumRxDesc
  BY <1>1 DEF ReceiveOK, PacketOK
<1>4. Len(up) <= MaxUp BY <1>1 DEF UpOK
<1> QED BY <1>1, <1>2, <1>3, <1>4 DEF TypeOK, ClientOK

\* So does the agreement on the blocks.
LEMMA AgreementFollows ==
  ASSUME IInv PROVE BlocksAgree
<1>1. SessionsOK /\ GotOK /\ EndedIsWhole /\ ClientOK BY DEF IInv
<1>2. ReceivedInOrder
 <2> SUFFICES ASSUME NEW i \in DOMAIN got, got[i].file # transfer
              PROVE  \E s \in Range(sessions) : /\ s.file = got[i].file /\ s.file < transfer
                                                /\ s.n >= i
   BY <1>1 DEF ReceivedInOrder, GotOK
 <2>1. PICK t \in DOMAIN sessions : sessions[t].file = got[i].file /\ sessions[t].n >= i
   BY <1>1 DEF GotOK
 <2>2. sessions[t] \in Sessions BY <1>1, LenProperties, ElementOfSeq DEF SessionsOK
 <2>3. sessions[t].file <= transfer /\ transfer \in Int /\ sessions[t].file \in Int
   BY <1>1, <2>2 DEF SessionsOK, ClientOK, Sessions
 <2>4. sessions[t].file < transfer BY <2>1, <2>3
 <2>5. sessions[t] \in Range(sessions) BY DEF Range
 <2> QED BY <2>1, <2>4, <2>5
<1>3. AckedIsReceived BY <1>1 DEF AckedIsReceived, SessionsOK, Range
<1> QED BY <1>1, <1>2, <1>3 DEF BlocksAgree

\* Values stay in their ranges, whatever the network, the servers and the clock do
\* (rarp, tftp_init and tftp_fetchone): a retry that moves to another port is
\* counted, and only before the first block there are any.
THEOREM TypeCorrect == ASSUME FewerThanBlocks PROVE Spec => []TypeOK
<1>1. IInv => TypeOK BY TypeFollows
<1> QED BY <1>1, Invariance, PTL

\* The blocks come in order, none is acknowledged that the reader does not have,
\* and a transfer that ends without an error has brought the whole file
\* (tftp_fetchone, the loops of linuxbiosmain and fill_inbuf), for every file that
\* has fewer blocks than there are block numbers, every loss, repetition and
\* delay, and every ring, retry limit and block size.
THEOREM BlocksAlwaysAgree == ASSUME FewerThanBlocks PROVE Spec => []BlocksAgree
<1>1. IInv => BlocksAgree BY AgreementFollows
<1> QED BY <1>1, Invariance, PTL

-----------------------------------------------------------------------------
(***************************************************************************)
(* PciConfigure, for every machine: the numbers lead to their buses, the   *)
(* windows are a tree as the bridges are, and one thing answers to every   *)
(* address.                                                                *)
(***************************************************************************)

Depth == Len(stack)
BusAt(i) == stack[i].bus
OnStack(b) == \E i \in 1 .. Depth : BusAt(i) = b
On(b) == {f \in Fns : on[f] = b}

\* The machine is a tree of buses.
MachineInv ==
  /\ on \in [Fns -> Buses] /\ bars \in [Fns -> BarSets] /\ \A f \in Fns : on[f] < f
  /\ path \in [Buses -> SUBSET Fns] /\ path[Root] = {}
  /\ \A f \in Fns : path[f] = {f} \cup path[on[f]]
  /\ \A b \in Buses : \A a \in path[b] : a <= b /\ path[a] \subseteq path[b]

\* Numbers, and what the hardware has of them.
NumberInv ==
  /\ number \in [Buses -> 0 .. N] /\ number[Root] = 0
  /\ subordinate \in [Buses -> 0 .. LastBus]
  /\ numbers \in [Fns -> [secondary : 0 .. LastBus, subordinate : 0 .. LastBus]]
  /\ \A b \in Fns : number[b] # 0 =>
       /\ kind[b] = "bridge" /\ on[b] \in Scanned
       /\ numbers[b] = [secondary |-> number[b], subordinate |-> subordinate[b]]
       /\ \A a \in path[b] : number[a] # 0 /\ number[a] <= number[b] /\ number[b] <= subordinate[a]
  /\ \A b, c \in Fns : number[b] = number[c] /\ number[b] # 0 => b = c
  /\ \A b \in Fns : number[b] = 0 => numbers[b] = Unnumbered \/ FirstBridge(b)
  /\ children = [b \in Buses |-> {c \in On(b) : number[c] # 0}]
  /\ devices \in [Buses -> SUBSET Fns]
  /\ \A b \in Buses : devices[b] \subseteq On(b)

\* A bus all of which has been found.
Explored(b) ==
  /\ devices[b] = On(b)
  /\ \A f \in On(b) : kind[f] = "bridge" => number[f] # 0
  /\ \E c \in Behind(b) : number[c] = subordinate[b]
  /\ \A c \in Behind(b) : number[c] <= subordinate[b]

\* The frames of a walk.
Line ==
  /\ Depth >= 1 /\ BusAt(1) = Root
  /\ \A i \in 1 .. Depth : BusAt(i) \in Scanned /\ BusAt(i) >= i - 1
  /\ \A i \in 1 .. Depth - 1 : BusAt(i + 1) \in children[BusAt(i)]
  /\ \A i \in 1 .. Depth : \A j \in 1 .. i :
       /\ BusAt(j) \in path[BusAt(i)] \cup {Root}
       /\ j < i => BusAt(j) < BusAt(i)
  /\ \A i \in 1 .. Depth : \A a \in path[BusAt(i)] : \E j \in 1 .. i : BusAt(j) = a

Highest == IF Top.probed THEN Top.max ELSE number[Top.bus]

ScanFrame == [bus : Buses, probed : BOOLEAN, max : 0 .. N, rest : SUBSET Fns]

\* What a call that has looked at its bus has still to do, and one that has not.
Searched(b, frame) ==
  /\ devices[b] = On(b)
  /\ \A f \in frame.rest : f \in On(b) /\ number[f] = 0 /\ kind[f] # "device"
  /\ \A f \in On(b) : kind[f] = "bridge" /\ number[f] = 0 => f \in frame.rest
  /\ \/ frame.max = number[b]
     \/ \E c \in On(b) : number[c] # 0 /\ \A f \in frame.rest : c < f
Unsearched(b) == devices[b] = {} /\ \A f \in On(b) : number[f] = 0

ScanFrames ==
  /\ stack \in Seq(ScanFrame)
  /\ Line
  /\ \A i \in 1 .. Depth - 1 : stack[i].probed /\ \A f \in stack[i].rest : BusAt(i + 1) < f
  /\ \A i \in 1 .. Depth : IF stack[i].probed THEN Searched(BusAt(i), stack[i]) ELSE Unsearched(BusAt(i))

ScanInv ==
  /\ ScanFrames
  /\ \A b \in Buses : b \notin Scanned => devices[b] = {}
  /\ \A b \in Scanned : OnStack(b) \/ Explored(b)
  /\ \A b \in Scanned : number[b] <= Highest
  /\ \E b \in Scanned : number[b] = Highest
  /\ Cardinality({b \in Fns : number[b] # 0}) = Highest
  /\ \A b \in Fns : OnStack(b) => /\ subordinate[b] = LastBus
                                  /\ \A c \in Fns : number[c] >= number[b] => b \in path[c]

FoundInv ==
  /\ \A b \in Scanned : Explored(b)
  /\ \A b \in Buses : b \notin Scanned => devices[b] = {}

ResourceTypes ==
  /\ base \in [Buses -> [Spaces -> 0 .. Space - 1]] /\ limit \in [Buses -> [Spaces -> 0 .. Space - 1]]
  /\ address \in [Registers -> 0 .. Space - 1] /\ bar \in [Registers -> Off .. Space - 1]
  /\ command \in [Fns -> SUBSET Bits] /\ cmd \in [Fns -> SUBSET Bits]
  /\ windows \in [Fns -> [Spaces -> Int \X Int]]
  /\ wrapped \in BOOLEAN

WalkFrame == [bus : Buses, used : 0 .. Space - 1, rest : SUBSET Fns, todo : SUBSET Registers]
WalkFrames ==
  /\ stack \in Seq(WalkFrame)
  /\ Line
  /\ \A i \in 1 .. Depth : LET b == BusAt(i) IN
       /\ stack[i].rest \subseteq children[b] /\ stack[i].todo \subseteq Needs(b, phase)
       /\ i < Depth \/ stack[i].rest # {} => stack[i].todo = Needs(b, phase)
  /\ \A i \in 1 .. Depth - 1 : BusAt(i + 1) \notin stack[i].rest

\* What an address register has been given.
Settled(r, p) ==
  /\ Bit(p) \in command[r.fn]
  /\ (p = "io" => SmallIo) => address[r] % SizeOf(r) = 0

\* Buses and registers lie from lo on and below hi and keep apart.
Laid(p, C, R, lo, hi) ==
  /\ \A c \in C : limit[c][p] # 0 /\ lo <= base[c][p] /\ limit[c][p] < hi
  /\ \A c, d \in C : c # d => limit[c][p] < base[d][p] \/ limit[d][p] < base[c][p]
  /\ \A r \in R : lo <= address[r] /\ address[r] + SizeOf(r) <= hi /\ Settled(r, p)
  /\ \A r, s \in R : r # s => address[r] + SizeOf(r) <= address[s] \/ address[s] + SizeOf(s) <= address[r]
  /\ \A r \in R, c \in C : limit[c][p] < address[r]

\* A bus the walk has gone through.
Complete(b, p) ==
  /\ base[b][p] > 0 /\ base[b][p] <= limit[b][p] + 1 /\ limit[b][p] + 1 < Space
  /\ base[b][p] % Granularity(p) = 0 /\ (limit[b][p] + 1) % Granularity(p) = 0
  /\ p = "io" => limit[b][p] < IoSpace /\ (b # Root => base[b][p] < IoSpace)
  /\ Laid(p, children[b], Needs(b, p), base[b][p], limit[b][p] + 1)

Called(i) == IF i < Depth THEN {BusAt(i + 1)} ELSE {}

\* What a call has laid out so far, with the bridge that it is behind now.
FrameLaid(p, b, frame, called) ==
  /\ limit[b][p] = 0
  /\ base[b][p] > 0 /\ base[b][p] <= frame.used /\ base[b][p] % Granularity(p) = 0
  /\ p = "io" => (b # Root => base[b][p] < IoSpace) /\ frame.used % IoAlign = 0
  /\ frame.rest # {} => frame.used % Granularity(p) = 0
  /\ Laid(p, children[b] \ (frame.rest \cup called), Needs(b, p) \ frame.todo, base[b][p], frame.used)

\* A space that has been given out, and one that has not.
Given(p) == \A b \in Scanned : limit[b][p] # 0 /\ Complete(b, p)
Ungiven(p) == \A b \in Buses : limit[b][p] = 0

\* While a space is given out.
WalkInv ==
  /\ \A i \in 1 .. Depth : FrameLaid(phase, BusAt(i), stack[i], Called(i))
  /\ \A i \in 1 .. Depth - 1 : stack[i].used <= base[BusAt(i + 1)][phase]
  /\ \A b \in Scanned : limit[b][phase] # 0 => Complete(b, phase)
  /\ \A c \in Fns : limit[c][phase] # 0 =>
       \/ limit[on[c]][phase] # 0
       \/ \E i \in 1 .. Depth : BusAt(i) = on[c] /\ c \notin stack[i].rest \cup Called(i)
  /\ phase # "io" => Given("io")
  /\ phase = "pref" => Given("mem") /\ limit[Root]["mem"] < base[Root]["pref"]
  /\ phase # "pref" => Ungiven("pref")
  /\ phase = "io" => Ungiven("mem") /\ base[Root]["mem"] = MemStart

\* When all spaces have been.
LaidInv == Given("io") /\ Given("mem") /\ Given("pref") /\ limit[Root]["mem"] < base[Root]["pref"]

SetInv ==
  phase \in {"enable", "done"} =>
  /\ \A f \in Fns, p \in Spaces :
       windows[f][p] = IF f \in Programmed THEN <<base[f][p], limit[f][p]>> ELSE Shut
  /\ \A r \in Registers : r.fn \in Chain => bar[r] # Off /\ ((SpaceOf(r) = "io" => SmallIo) => bar[r] = address[r])
  /\ \A r \in Registers : r.fn \notin Chain => bar[r] = Off
  /\ phase = "done" => \A f \in Chain : command[f] \subseteq cmd[f]
  /\ \A f \in Programmed : {"io", "mem"} \subseteq command[f]

PciIInv ==
  /\ MachineInv /\ NumberInv /\ ResourceTypes
  /\ phase \in {"scan", "assign", "enable", "done"} \cup Spaces
  /\ phase = "scan" => ScanInv /\ limit = [b \in Buses |-> [p \in Spaces |-> 0]] /\ ~wrapped
  /\ phase # "scan" => FoundInv
  /\ phase \in Spaces => WalkFrames /\ (~wrapped => WalkInv)
  /\ phase \in {"scan", "assign"} \cup Spaces => /\ windows = [f \in Fns |-> [p \in Spaces |-> Shut]]
                                                 /\ bar = [r \in Registers |-> Off]
  /\ phase \in {"assign", "enable", "done"} => Len(stack) = 0 /\ (~wrapped => LaidInv /\ SetInv)
-----------------------------------------------------------------------------
\* Division with a remainder.
LEMMA DivMod ==
  ASSUME NEW v \in Nat, NEW m \in Nat \ {0}
  PROVE  /\ v \div m \in Nat /\ (v \div m) * m <= v /\ v < (v \div m) * m + m
         /\ v % m = v - (v \div m) * m
OBVIOUS

\* What is divided without one is a multiple,
LEMMA ModIsMultiple ==
  ASSUME NEW v \in Nat, NEW m \in Nat \ {0}, v % m = 0 PROVE \E k \in Nat : v = k * m
OBVIOUS

\* and the other way round.
LEMMA MultipleMod ==
  ASSUME NEW k \in Nat, NEW m \in Nat \ {0} PROVE (k * m) % m = 0 /\ k * m \in Nat
OBVIOUS

\* Rounding up gives a multiple, and less than one more than it has to.
LEMMA RoundUpFacts ==
  ASSUME NEW v \in Nat, NEW m \in Nat \ {0}
  PROVE  /\ RoundUp(v, m) \in Nat /\ v <= RoundUp(v, m) /\ RoundUp(v, m) < v + m
         /\ RoundUp(v, m) % m = 0
BY DEF RoundUp

\* Sums of multiples are multiples.
LEMMA ModAdd ==
  ASSUME NEW v \in Nat, NEW w \in Nat, NEW m \in Nat \ {0}, v % m = 0, w % m = 0
  PROVE  (v + w) % m = 0
<1>1. PICK a \in Nat : v = a * m BY ModIsMultiple
<1>2. PICK b \in Nat : w = b * m BY ModIsMultiple
<1>3. v + w = (a + b) * m /\ a + b \in Nat BY <1>1, <1>2
<1> QED BY <1>3, MultipleMod

\* so are multiples of multiples,
LEMMA ModChain ==
  ASSUME NEW v \in Nat, NEW m \in Nat \ {0}, NEW k \in Nat \ {0}, v % m = 0, m % k = 0
  PROVE  v % k = 0
<1>1. PICK a \in Nat : v = a * m BY ModIsMultiple
<1>2. PICK b \in Nat : m = b * k BY ModIsMultiple
<1>3. v = (a * b) * k /\ a * b \in Nat BY <1>1, <1>2
<1> QED BY <1>3, MultipleMod

\* What is aligned is not rounded up.
LEMMA RoundUpAligned ==
  ASSUME NEW v \in Nat, NEW m \in Nat \ {0}, v % m = 0 PROVE RoundUp(v, m) = v
<1>1. PICK a \in Nat : v = a * m BY ModIsMultiple
<1>2. PICK b \in Nat : RoundUp(v, m) = b * m BY RoundUpFacts, ModIsMultiple
<1>3. a * m <= b * m /\ b * m < a * m + m BY <1>1, <1>2, RoundUpFacts
<1>4. a <= b /\ b < a + 1 BY <1>3
<1> QED BY <1>1, <1>2, <1>4

\* The last address of a window that is rounded up, and the next one behind it.
LEMMA RoundUpLast ==
  ASSUME NEW v \in Nat, NEW m \in Nat \ {0, 1}, v > 0, (v + 1) % m = 0
  PROVE  RoundUp(v, m) = v + 1
<1>1. PICK a \in Nat : v + 1 = a * m BY ModIsMultiple
<1>2. PICK b \in Nat : RoundUp(v, m) = b * m BY RoundUpFacts, ModIsMultiple
<1>3. a * m <= b * m + 1 /\ b * m < a * m - 1 + m BY <1>1, <1>2, RoundUpFacts
<1>4. a <= b
 <2> SUFFICES ASSUME b + 1 <= a PROVE FALSE OBVIOUS
 <2>1. (b + 1) * m <= a * m OBVIOUS
 <2> QED BY <2>1, <1>3
<1>5. b < a + 1
 <2> SUFFICES ASSUME a + 1 <= b PROVE FALSE OBVIOUS
 <2>1. (a + 1) * m <= b * m OBVIOUS
 <2> QED BY <2>1, <1>3
<1> QED BY <1>1, <1>2, <1>4, <1>5

\* What a base register keeps of a number that is aligned, and of the last before one.
LEMMA KeptAligned ==
  ASSUME NEW v \in Nat, NEW m \in Nat \ {0}, v % m = 0 PROVE (v \div m) * m = v
BY DivMod

\* The same of the last number before an aligned one.
LEMMA KeptLast ==
  ASSUME NEW v \in Nat, NEW m \in Nat \ {0, 1}, (v + 1) % m = 0
  PROVE  (v \div m) * m = v + 1 - m
<1>1. PICK a \in Nat : v + 1 = a * m BY ModIsMultiple
<1>2. PICK b \in Nat : b = v \div m BY DivMod
<1>3. b * m <= a * m - 1 /\ a * m - 1 < b * m + m BY <1>1, <1>2, DivMod
<1>4. b < a
 <2> SUFFICES ASSUME a <= b PROVE FALSE OBVIOUS
 <2>1. a * m <= b * m OBVIOUS
 <2> QED BY <2>1, <1>3
<1>5. a <= b + 1
 <2> SUFFICES ASSUME b + 2 <= a PROVE FALSE OBVIOUS
 <2>1. (b + 2) * m <= a * m OBVIOUS
 <2> QED BY <2>1, <1>3
<1>6. b * m = (a - 1) * m BY <1>4, <1>5
<1> QED BY <1>1, <1>2, <1>6

\* A number that is small enough is its own remainder.
LEMMA ModSmall ==
  ASSUME NEW v \in Nat, NEW m \in Nat \ {0}, v < m PROVE v % m = v
OBVIOUS
-----------------------------------------------------------------------------
\* What is assumed of the constants, of each by itself.
LEMMA Constants ==
  /\ N \in Nat /\ LastBus \in Nat /\ LastBus > N
  /\ IoAlign \in Nat \ {0} /\ MemAlign \in Nat \ {0} /\ IoSpace \in Nat \ {0} /\ Space \in Nat \ {0}
  /\ IoBridgeAlign \in Nat \ {0, 1} /\ OneMeg \in Nat \ {0, 1}
  /\ IoStart \in 1 .. Space - 1 /\ MemStart \in 1 .. Space - 1
BY PciAssumption

\* Buses are named by numbers, bridges by larger ones than the first bus.
LEMMA BusFacts ==
  /\ Root \in Buses /\ Root \notin Fns /\ Root = 0 /\ Fns \subseteq Buses
  /\ \A b \in Buses : b \in Nat /\ b <= N /\ (b # Root => b \in Fns)
  /\ \A f \in Fns : f \in Nat /\ 1 <= f /\ f <= N
BY Constants DEF Buses, Fns, Root

\* A set of numbers that is not empty has a least one.
LEMMA Least ==
  ASSUME NEW S, S \subseteq Nat, S # {} PROVE \E m \in S : \A k \in S : m <= k
<1>1. PICK m \in S : \A k \in S : ~ (<<k, m>> \in OpToRel(<, Nat))
  BY NatLessThanWellFounded, WFMin
<1>2. \A k \in S : ~ (k < m) BY <1>1 DEF OpToRel
<1> QED BY <1>2
-----------------------------------------------------------------------------
\* The bridges on the way.

\* What Way says, step by step: the bridge in front of a bus, and those on the way
\* to the bus that it is on.
LEMMA WayFacts ==
  ASSUME on \in [Fns -> Buses], \A f \in Fns : on[f] < f
  PROVE  /\ Way(Root) = {}
         /\ \A f \in Fns : Way(f) = {f} \cup Way(on[f])
         /\ \A b \in Buses : \A a \in Way(b) : a <= b /\ Way(a) \subseteq Way(b)
<1>1. Way(Root) = {}
 <2>1. {Root} \in SUBSET Buses /\ Root \in {Root} /\ Closed({Root}) BY BusFacts DEF Closed
 <2> QED BY <2>1, BusFacts DEF Way
<1>2. ASSUME NEW f \in Fns PROVE Way(f) = {f} \cup Way(on[f])
 <2>1. ASSUME NEW a \in Way(f), a # f PROVE a \in Way(on[f])
  <3> SUFFICES ASSUME NEW S \in SUBSET Buses, on[f] \in S, Closed(S) PROVE a \in S
    BY <2>1 DEF Way
  <3>1. S \cup {f} \in SUBSET Buses /\ f \in S \cup {f} /\ Closed(S \cup {f})
    BY BusFacts DEF Closed
  <3> QED BY <3>1, <2>1 DEF Way
 <2>2. f \in Way(f) BY DEF Way
 <2>3. ASSUME NEW a \in Way(on[f]) PROVE a \in Way(f)
  <3> SUFFICES ASSUME NEW S \in SUBSET Buses, f \in S, Closed(S) PROVE a \in S BY <2>3 DEF Way
  <3>1. on[f] \in S BY BusFacts DEF Closed
  <3> QED BY <3>1, <2>3 DEF Way
 <2> QED BY <2>1, <2>2, <2>3
<1>3. ASSUME NEW b \in Buses, NEW a \in Way(b) PROVE a <= b
 <2> DEFINE S == {c \in Buses : c <= b}
 <2>1. S \in SUBSET Buses /\ b \in S /\ Closed(S)
  <3>1. ASSUME NEW c \in S, c # Root PROVE on[c] \in S
   <4>1. c \in Fns /\ on[c] \in Buses /\ on[c] < c /\ c <= b BY <3>1, BusFacts
   <4>2. on[c] \in Nat /\ c \in Nat /\ b \in Nat BY <4>1, BusFacts
   <4> QED BY <4>1, <4>2
  <3>2. b <= b BY BusFacts
  <3> QED BY <3>1, <3>2 DEF Closed
 <2> QED BY <1>3, <2>1 DEF Way
<1>4. ASSUME NEW b \in Buses, NEW a \in Way(b), NEW c \in Way(a) PROVE c \in Way(b)
 <2> SUFFICES ASSUME NEW S \in SUBSET Buses, b \in S, Closed(S) PROVE c \in S BY <1>4 DEF Way
 <2>1. a \in S BY <1>4 DEF Way
 <2> QED BY <1>4, <2>1 DEF Way
<1> QED BY <1>1, <1>2, <1>3, <1>4

\* The machine is a tree,
LEMMA MachineAtFirst == PciInit => MachineInv
<1> SUFFICES ASSUME PciInit PROVE MachineInv OBVIOUS
<1>1. PICK m \in Machines : on = m.on /\ bars = m.bars BY DEF PciInit
<1>2. on \in [Fns -> 0 .. N] /\ bars \in [Fns -> BarSets] /\ \A f \in Fns : on[f] < f
  BY <1>1 DEF Machines
<1>3. 0 .. N = Buses BY Constants DEF Buses, Fns, Root
<1>10. on \in [Fns -> Buses] BY <1>2, <1>3
<1>4. path = [b \in Buses |-> Way(b)] BY DEF PciInit
<1>5. \A b \in Buses : path[b] = Way(b) /\ Way(b) \subseteq Fns BY <1>4 DEF Way
<1>6. path \in [Buses -> SUBSET Fns] BY <1>4, <1>5
<1>7. \A f \in Fns : f \in Buses /\ on[f] \in Buses BY <1>2, <1>3, BusFacts
<1>8. ASSUME NEW f \in Fns PROVE path[f] = {f} \cup path[on[f]]
 <2>1. Way(f) = {f} \cup Way(on[f]) BY <1>2, <1>10, WayFacts
 <2>2. path[f] = Way(f) /\ path[on[f]] = Way(on[f]) BY <1>5, <1>7
 <2> QED BY <2>1, <2>2
<1>9. \A b \in Buses : \A a \in path[b] : a <= b /\ path[a] \subseteq path[b]
 <2> SUFFICES ASSUME NEW b \in Buses, NEW a \in path[b] PROVE a <= b /\ path[a] \subseteq path[b]
   OBVIOUS
 <2>1. a \in Way(b) /\ a \in Buses BY <1>5, BusFacts
 <2>2. a <= b /\ Way(a) \subseteq Way(b) BY <1>2, <1>10, <2>1, WayFacts
 <2>3. path[a] = Way(a) /\ path[b] = Way(b) BY <1>5, <2>1
 <2> QED BY <2>2, <2>3
<1> QED BY <1>2, <1>10, <1>5, <1>6, <1>8, <1>9, WayFacts, BusFacts DEF MachineInv

\* and stays one.
LEMMA MachineStays == MachineInv /\ UNCHANGED machine => MachineInv'
BY DEF MachineInv, machine

\* What a bus is behind, and what is on it.
LEMMA PathFacts ==
  ASSUME MachineInv, NEW f \in Fns
  PROVE  /\ on[f] \in Buses /\ on[f] < f /\ f \in path[f] /\ path[on[f]] \subseteq path[f]
         /\ path[f] \subseteq Fns /\ path[f] = {f} \cup path[on[f]] /\ f \notin path[on[f]]
         /\ (on[f] # Root => on[f] \in Fns /\ on[f] \in path[f] /\ on[f] \in path[on[f]])
<1>1. on[f] \in Buses /\ on[f] < f /\ path[f] = {f} \cup path[on[f]] /\ path[f] \subseteq Fns
  BY BusFacts DEF MachineInv
<1>2. f \notin path[on[f]]
 <2>1. \A a \in path[on[f]] : a <= on[f] BY <1>1 DEF MachineInv
 <2>2. f \in Nat /\ on[f] \in Nat BY <1>1, BusFacts
 <2> QED BY <1>1, <2>1, <2>2
<1>3. ASSUME on[f] # Root PROVE on[f] \in Fns /\ on[f] \in path[on[f]]
 <2>1. on[f] \in Fns BY <1>1, <1>3, BusFacts
 <2>2. path[on[f]] = {on[f]} \cup path[on[on[f]]] BY <2>1 DEF MachineInv
 <2> QED BY <2>1, <2>2
<1> QED BY <1>1, <1>2, <1>3

\* And what the bridges on the way to a bus are on.
LEMMA PathUp ==
  ASSUME MachineInv, NEW b \in Buses, NEW a \in path[b]
  PROVE  a \in Fns /\ a <= b /\ path[a] \subseteq path[b] /\ (on[a] # Root => on[a] \in path[b])
<1>1. a \in Fns /\ a <= b /\ path[a] \subseteq path[b] BY BusFacts DEF MachineInv
<1> QED BY <1>1, PathFacts
-----------------------------------------------------------------------------
\* What happens to a stack.
LEMMA Replaced ==
  ASSUME NEW S, NEW s \in Seq(S), Len(s) >= 1, NEW e \in S, NEW t, t = [s EXCEPT ![Len(s)] = e]
  PROVE  /\ t \in Seq(S) /\ Len(t) = Len(s) /\ t[Len(s)] = e
         /\ \A i \in 1 .. Len(s) - 1 : t[i] = s[i]
<1>1. Len(s) \in 1 .. Len(s) OBVIOUS
<1> QED BY <1>1, ExceptSeq

\* A stack that gets a frame, when the one below it changes,
LEMMA Pushed ==
  ASSUME NEW S, NEW s \in Seq(S), Len(s) >= 1, NEW e \in S, NEW f \in S,
         NEW t, t = Append([s EXCEPT ![Len(s)] = e], f)
  PROVE  /\ t \in Seq(S) /\ Len(t) = Len(s) + 1 /\ t[Len(s) + 1] = f /\ t[Len(s)] = e
         /\ \A i \in 1 .. Len(s) - 1 : t[i] = s[i]
<1> DEFINE r == [s EXCEPT ![Len(s)] = e]
<1>1. /\ r \in Seq(S) /\ Len(r) = Len(s) /\ r[Len(s)] = e
      /\ \A i \in 1 .. Len(s) - 1 : r[i] = s[i]
  BY Replaced
<1>2. t = Append(r, f) OBVIOUS
<1> HIDE DEF r
<1> QED BY <1>1, <1>2, AppendProperties

\* and one that loses its last frame.
LEMMA FrontFacts ==
  ASSUME NEW S, NEW s \in Seq(S), Len(s) >= 2
  PROVE  /\ Front(s) \in Seq(S) /\ Len(Front(s)) = Len(s) - 1
         /\ \A i \in 1 .. Len(s) - 1 : Front(s)[i] = s[i]
BY DEF Front
-----------------------------------------------------------------------------
\* What NumberInv says of a bus that has a number.
LEMMA NumberedFacts ==
  ASSUME NumberInv, NEW b \in Fns, number[b] # 0
  PROVE  /\ number[b] \in 1 .. N /\ kind[b] = "bridge" /\ on[b] \in Scanned
         /\ numbers[b].secondary = number[b] /\ numbers[b].subordinate = subordinate[b]
         /\ \A a \in path[b] : number[a] # 0 /\ number[a] <= number[b] /\ number[b] <= subordinate[a]
<1>1. number[b] \in 0 .. N BY BusFacts DEF NumberInv
<1>2. numbers[b] = [secondary |-> number[b], subordinate |-> subordinate[b]] BY DEF NumberInv
<1>3. /\ kind[b] = "bridge" /\ on[b] \in Scanned
      /\ \A a \in path[b] : number[a] # 0 /\ number[a] <= number[b] /\ number[b] <= subordinate[a]
  BY DEF NumberInv
<1>4. number[b] \in 1 .. N BY <1>1, Constants
<1> QED BY <1>2, <1>3, <1>4

\* On the way to a bus that has no number, the first that has none is on a bus that
\* is scanned.
LEMMA FirstUnnumbered ==
  ASSUME MachineInv, NumberInv, NEW c \in Buses, NEW d \in path[c], number[d] = 0
  PROVE  \E a \in path[c] : number[a] = 0 /\ on[a] \in Scanned /\ (on[a] # Root => on[a] \in path[c])
<1> DEFINE S == {a \in path[c] : number[a] = 0}
<1>1. S \subseteq Nat /\ S # {}
 <2>1. path[c] \subseteq Fns BY DEF MachineInv
 <2> QED BY <2>1, BusFacts
<1>2. PICK a \in S : \A k \in S : a <= k BY <1>1, Least
<1>3. a \in path[c] /\ number[a] = 0 /\ a \in Fns /\ (on[a] # Root => on[a] \in path[c]) BY PathUp
<1>4. on[a] \in Scanned
 <2>1. CASE on[a] = Root BY <2>1 DEF Scanned
 <2>2. CASE on[a] # Root
  <3>1. on[a] \in Fns /\ on[a] < a /\ on[a] \in path[c] BY <1>3, <2>2, PathFacts
  <3>2. number[on[a]] # 0
   <4> SUFFICES ASSUME number[on[a]] = 0 PROVE FALSE OBVIOUS
   <4>1. a <= on[a] BY <1>2, <3>1
   <4>2. a \in Nat /\ on[a] \in Nat BY <1>3, <3>1, BusFacts
   <4> QED BY <3>1, <4>1, <4>2
  <3> QED BY <3>1, <3>2 DEF Scanned
 <2> QED BY <2>1, <2>2
<1> QED BY <1>3, <1>4

\* Where a bus answers: what comes up with numbers of its own is behind it, or is
\* not reached yet.
LEMMA ReachedIs ==
  ASSUME MachineInv, NumberInv, NEW b \in Scanned,
         \A a \in Fns : number[a] = 0 /\ on[a] \in Scanned /\ numbers[a] # Unnumbered => number[on[a]] >= number[b]
  PROVE  Reached(number[b]) = {b}
<1>1. CASE b = Root BY <1>1 DEF Reached, NumberInv
<1>2. CASE b # Root
 <2>1. b \in Fns /\ number[b] # 0 BY <1>2 DEF Scanned
 <2>2. \A a \in path[b] : a \in Fns BY <2>1, BusFacts DEF MachineInv
 <2>3. ASSUME NEW a \in path[b]
       PROVE  (a # b => numbers[a].secondary < number[b]) /\ number[b] <= numbers[a].subordinate
  <3>1. number[a] # 0 /\ number[a] <= number[b] /\ number[b] <= subordinate[a]
    BY <2>1, NumberedFacts
  <3>2. numbers[a].secondary = number[a] /\ numbers[a].subordinate = subordinate[a] /\ number[a] \in 1 .. N
    BY <2>2, <3>1, NumberedFacts
  <3>3. a # b => number[a] # number[b] BY <2>1, <2>2, <3>1 DEF NumberInv
  <3>4. number[b] \in 1 .. N BY <2>1, NumberedFacts
  <3> QED BY <3>1, <3>2, <3>3, <3>4
 <2>4. b \in Reached(number[b]) BY <2>1, <2>3, NumberedFacts DEF Reached
 <2>5. ASSUME NEW c \in Reached(number[b]) PROVE c = b
  <3>1. /\ c \in Fns /\ numbers[c].secondary = number[b]
        /\ \A a \in path[c] : /\ a # c => numbers[a].secondary < number[b]
                              /\ number[b] <= numbers[a].subordinate
    BY <2>1, <2>5 DEF Reached
  <3>2. CASE number[c] # 0
   <4>1. number[c] = number[b] BY <3>1, <3>2, NumberedFacts
   <4> QED BY <2>1, <3>1, <4>1 DEF NumberInv
  <3>3. CASE number[c] = 0
   <4>1. c \in Buses /\ c \in path[c] BY <3>1, PathFacts, BusFacts
   <4>2. PICK a \in path[c] : number[a] = 0 /\ on[a] \in Scanned /\ (on[a] # Root => on[a] \in path[c])
     BY <3>3, <4>1, FirstUnnumbered
   <4>3. a \in Fns BY <4>1, PathUp
   <4>4. number[b] \in 1 .. N BY <2>1, NumberedFacts
   <4>5. numbers[a] # Unnumbered
    <5>1. number[b] <= numbers[a].subordinate BY <3>1
    <5> QED BY <4>4, <5>1, Constants DEF Unnumbered
   <4>6. number[on[a]] >= number[b] BY <4>2, <4>3, <4>5
   <4>7. on[a] # Root BY <4>4, <4>6 DEF NumberInv
   <4>8. on[a] \in Fns /\ number[on[a]] # 0 /\ on[a] \in path[c] /\ on[a] # c
     BY <3>3, <4>2, <4>7 DEF Scanned
   <4>9. numbers[on[a]].secondary = number[on[a]] /\ number[on[a]] \in 1 .. N
     BY <4>8, NumberedFacts
   <4> QED BY <3>1, <4>4, <4>6, <4>8, <4>9
  <3> QED BY <3>2, <3>3
 <2> QED BY <2>4, <2>5
<1> QED BY <1>1, <1>2
-----------------------------------------------------------------------------
\* The frame of the scan that is worked on.
LEMMA ScanTop ==
  ASSUME ScanFrames
  PROVE  /\ Depth \in Nat /\ Depth >= 1 /\ Depth \in 1 .. Depth /\ Top = stack[Depth] /\ Top.bus = BusAt(Depth)
         /\ Top \in ScanFrame /\ Top.bus \in Scanned /\ Top.bus \in Buses
         /\ \A i \in 1 .. Depth : stack[i] \in ScanFrame /\ BusAt(i) \in Buses
<1>1. Depth \in Nat /\ Depth >= 1 BY DEF ScanFrames, Line, Depth
<1>2. \A i \in 1 .. Depth : stack[i] \in ScanFrame BY <1>1 DEF ScanFrames, Depth
<1>3. \A i \in 1 .. Depth : BusAt(i) \in Buses BY <1>2 DEF BusAt, ScanFrame
<1>4. \A i \in 1 .. Depth : BusAt(i) \in Scanned BY DEF ScanFrames, Line
<1> QED BY <1>1, <1>2, <1>3, <1>4 DEF Top, Depth, BusAt

\* A bridge that comes up with numbers is on the bus that has the last number yet.
LEMMA ScanJunk ==
  ASSUME MachineInv, NumberInv, ScanInv, NEW a \in Fns, number[a] = 0, on[a] \in Scanned, numbers[a] # Unnumbered
  PROVE  number[on[a]] = Highest
<1> DEFINE b == on[a]
<1>1. kind[a] = "bridge" /\ \A g \in 1 .. a - 1 : on[g] = b => kind[g] = "device"
  BY DEF NumberInv, FirstBridge
<1>2. \A g \in Fns : on[g] = b /\ g < a => kind[g] = "device" BY <1>1, BusFacts
<1>3. a \in On(b) BY DEF On
<1>4. OnStack(b) BY <1>1, <1>3 DEF ScanInv, Explored
<1>5. PICK i \in 1 .. Depth : BusAt(i) = b BY <1>4 DEF OnStack
<1>6. Depth \in Nat /\ ScanFrames /\ Top = stack[Depth] /\ Top.bus = BusAt(Depth)
  BY ScanTop DEF ScanInv
<1>7. CASE i # Depth
 <2>1. i \in 1 .. Depth - 1 /\ i \in 1 .. Depth BY <1>6, <1>7
 <2>2. stack[i].probed /\ (\A f \in stack[i].rest : BusAt(i + 1) < f) /\ Searched(b, stack[i])
   BY <1>5, <1>6, <2>1 DEF ScanFrames
 <2>3. BusAt(i + 1) < a BY <1>1, <1>3, <2>2 DEF Searched
 <2>4. BusAt(i + 1) \in children[b] BY <1>5, <1>6, <2>1 DEF ScanFrames, Line
 <2>5. BusAt(i + 1) \in On(b) /\ number[BusAt(i + 1)] # 0 BY <2>4, PathFacts DEF NumberInv
 <2>6. BusAt(i + 1) \in Fns /\ on[BusAt(i + 1)] = b BY <2>5 DEF On
 <2> QED BY <1>2, <2>3, <2>5, <2>6, NumberedFacts
<1>8. CASE i = Depth
 <2>1. b = Top.bus BY <1>5, <1>6, <1>8
 <2>2. CASE ~Top.probed BY <2>1, <2>2 DEF Highest
 <2>3. CASE Top.probed
  <3>1. Searched(b, Top) BY <1>5, <1>6, <1>8, <2>3 DEF ScanFrames
  <3>2. a \in Top.rest BY <1>1, <1>3, <3>1 DEF Searched
  <3>3. ~ \E c \in On(b) : number[c] # 0 /\ \A f \in Top.rest : c < f
   <4> SUFFICES ASSUME NEW c \in On(b), number[c] # 0, c < a PROVE FALSE BY <3>2
   <4>1. c \in Fns /\ on[c] = b BY DEF On
   <4> QED BY <1>2, <4>1, NumberedFacts
  <3> QED BY <2>1, <2>3, <3>1, <3>3 DEF Searched, Highest
 <2> QED BY <2>2, <2>3
<1> QED BY <1>7, <1>8

\* While the buses are scanned, a number leads to its bus alone,
LEMMA ScanReached ==
  ASSUME MachineInv, NumberInv, ScanInv, NEW b \in Scanned PROVE Reached(number[b]) = {b}
<1>1. \A a \in Fns : number[a] = 0 /\ on[a] \in Scanned /\ numbers[a] # Unnumbered => number[on[a]] >= number[b]
 <2> SUFFICES ASSUME NEW a \in Fns, number[a] = 0, on[a] \in Scanned, numbers[a] # Unnumbered
              PROVE number[on[a]] >= number[b]
   OBVIOUS
 <2>1. number[on[a]] = Highest BY ScanJunk
 <2>2. number[b] <= Highest BY DEF ScanInv
 <2>3. on[a] \in Buses /\ b \in Buses BY BusFacts DEF Scanned
 <2>4. number[on[a]] \in Nat /\ number[b] \in Nat BY <2>3 DEF NumberInv
 <2> QED BY <2>1, <2>2, <2>4
<1> QED BY <1>1, ReachedIs

\* and so it does afterwards.
LEMMA FoundReached ==
  ASSUME MachineInv, NumberInv, FoundInv, NEW b \in Scanned PROVE Reached(number[b]) = {b}
<1>1. \A a \in Fns : number[a] = 0 /\ on[a] \in Scanned /\ numbers[a] # Unnumbered => number[on[a]] >= number[b]
 <2> SUFFICES ASSUME NEW a \in Fns, number[a] = 0, on[a] \in Scanned, numbers[a] # Unnumbered PROVE FALSE
   OBVIOUS
 <2>1. kind[a] = "bridge" /\ a \in On(on[a]) BY DEF NumberInv, FirstBridge, On
 <2> QED BY <2>1 DEF FoundInv, Explored
<1> QED BY <1>1, ReachedIs
-----------------------------------------------------------------------------
\* Numbered follows.

\* Numbered follows from the invariants of the scan.
LEMMA NumberedHolds ==
  ASSUME MachineInv, NumberInv, phase = "scan" => ScanInv, phase # "scan" => FoundInv
  PROVE  Numbered
<1>1. \A b \in Scanned : Reached(number[b]) = {b} BY ScanReached, FoundReached
<1>2. \A b, c \in Buses : b # c => devices[b] \cap devices[c] = {} BY DEF NumberInv, On
<1>3. ASSUME FoundInv PROVE Chain = {f \in Fns : \A b \in path[on[f]] : kind[b] = "bridge"}
 <2>1. ASSUME NEW f \in Chain PROVE f \in Fns /\ \A b \in path[on[f]] : kind[b] = "bridge"
  <3>1. PICK b \in Buses : f \in devices[b] BY DEF Chain
  <3>2. b \in Scanned /\ f \in Fns /\ on[f] = b BY <1>3, <3>1 DEF FoundInv, NumberInv, On
  <3>3. ASSUME NEW a \in path[b] PROVE kind[a] = "bridge"
   <4>1. b \in Fns /\ number[b] # 0 BY <3>2, <3>3 DEF Scanned, MachineInv
   <4>2. a \in Fns /\ number[a] # 0 BY <3>1, <4>1, PathUp, NumberedFacts
   <4> QED BY <4>2, NumberedFacts
  <3> QED BY <3>2, <3>3
 <2>2. ASSUME NEW f \in Fns, \A b \in path[on[f]] : kind[b] = "bridge" PROVE f \in Chain
  <3>1. on[f] \in Buses BY PathFacts
  <3>2. on[f] \in Scanned
   <4> SUFFICES ASSUME on[f] \notin Scanned PROVE FALSE OBVIOUS
   <4>1. on[f] # Root /\ on[f] \in Fns /\ number[on[f]] = 0 BY <3>1, BusFacts DEF Scanned
   <4>2. on[f] \in path[on[f]] BY <4>1, PathFacts
   <4>3. PICK a \in path[on[f]] : number[a] = 0 /\ on[a] \in Scanned
     BY <3>1, <4>1, <4>2, FirstUnnumbered
   <4>4. a \in Fns /\ a \in On(on[a]) /\ kind[a] = "bridge" BY <2>2, <3>1, PathUp DEF On
   <4> QED BY <1>3, <4>3, <4>4 DEF FoundInv, Explored
  <3>3. f \in devices[on[f]] BY <1>3, <3>2 DEF FoundInv, Explored, On
  <3> QED BY <3>1, <3>3 DEF Chain
 <2> QED BY <2>1, <2>2
<1>4. ASSUME FoundInv, NEW b \in Scanned
      PROVE  /\ \E c \in Behind(b) : number[c] = subordinate[b]
             /\ \A c \in Behind(b) : number[c] <= subordinate[b]
  BY <1>4 DEF FoundInv, Explored
<1> QED BY <1>1, <1>2, <1>3, <1>4 DEF Numbered
-----------------------------------------------------------------------------
\* The numbers stay while nothing is numbered.
LEMMA NumbersStay ==
  ASSUME NumberInv, UNCHANGED <<on, kind, path, number, subordinate, numbers, children>>,
         devices' \in [Buses -> SUBSET Fns], \A b \in Buses : devices'[b] \subseteq On(b)
  PROVE  NumberInv'
BY DEF NumberInv, On, FirstBridge, Scanned

\* A bus that has been gone through stays so when neither it nor the numbers change.
LEMMA ExploredStays ==
  ASSUME UNCHANGED <<on, kind, path, number, subordinate>>, NEW b \in Buses, devices'[b] = devices[b], Explored(b)
  PROVE  Explored(b)'
BY DEF Explored, On, Behind, Scanned

\* The calls are a way down the tree while they are of the same buses,
LEMMA LineStays ==
  ASSUME Line, Depth \in Nat, Depth' = Depth, \A i \in 1 .. Depth : BusAt(i)' = BusAt(i),
         UNCHANGED <<path, number, children>>
  PROVE  Line'
<1>1. Depth >= 1 /\ Scanned' = Scanned BY DEF Line, Scanned
<1> QED BY <1>1 DEF Line

\* Looking at what is on a bus keeps the invariants: devices and bridges are those of
\* this bus, because its number leads nowhere else.
LEMMA ProbeScans == MachineInv /\ NumberInv /\ ScanInv /\ Probe => NumberInv' /\ ScanInv'
<1> SUFFICES ASSUME MachineInv, NumberInv, ScanInv, Probe PROVE NumberInv' /\ ScanInv' OBVIOUS
<1> DEFINE t == Top.bus
           found == Found(number[t])
           e == [Top EXCEPT !.probed = TRUE, !.max = number[t], !.rest = {f \in found : kind[f] # "device"}]
<1>1. /\ Depth \in Nat /\ Depth >= 1 /\ Depth \in 1 .. Depth /\ Top = stack[Depth] /\ t = BusAt(Depth)
      /\ Top \in ScanFrame /\ t \in Scanned /\ t \in Buses
      /\ \A i \in 1 .. Depth : stack[i] \in ScanFrame /\ BusAt(i) \in Buses
  BY ScanTop DEF ScanInv
<1>2. Reached(number[t]) = {t} BY <1>1, ScanReached
<1>3. found = On(t) BY <1>2 DEF Found, On
<1>4. number[t] \in 0 .. N BY <1>1 DEF NumberInv
<1>5. /\ e \in ScanFrame /\ e.bus = t /\ e.probed /\ e.max = number[t]
      /\ e.rest = {f \in On(t) : kind[f] # "device"}
  BY <1>1, <1>3, <1>4 DEF ScanFrame, On
<1>6. stack' = [stack EXCEPT ![Len(stack)] = e] /\ stack \in Seq(ScanFrame) /\ Len(stack) >= 1
  BY <1>1, <1>3 DEF Probe, Top, Depth, ScanInv, ScanFrames
<1> HIDE DEF e
<1>7. /\ stack' \in Seq(ScanFrame) /\ Depth' = Depth /\ stack'[Depth] = e
      /\ \A i \in 1 .. Depth - 1 : stack'[i] = stack[i]
  BY <1>5, <1>6, Replaced DEF Depth
<1>8. \A i \in 1 .. Depth : BusAt(i)' = BusAt(i) BY <1>1, <1>5, <1>7 DEF BusAt
<1>9. /\ UNCHANGED <<on, kind, bars, path, number, subordinate, numbers, children>>
      /\ devices' = [devices EXCEPT ![t] = On(t)] /\ ~Top.probed
  BY <1>3 DEF Probe, machine, hardware
<1>10. Scanned' = Scanned /\ \A b \in Buses : On(b)' = On(b) BY <1>9 DEF Scanned, On
<1>11. /\ devices' \in [Buses -> SUBSET Fns] /\ devices'[t] = On(t)
       /\ \A b \in Buses : b # t => devices'[b] = devices[b]
  BY <1>1, <1>9 DEF NumberInv, On
<1>12. NumberInv'
 <2>1. \A b \in Buses : devices'[b] \subseteq On(b) BY <1>11 DEF NumberInv
 <2> QED BY <1>9, <1>11, <2>1, NumbersStay
<1>13. Top' = e BY <1>7 DEF Top, Depth
<1>14. Highest' = Highest /\ Highest = number[t] BY <1>5, <1>9, <1>13 DEF Highest
<1>15. \A b \in Buses : OnStack(b)' <=> OnStack(b) BY <1>7, <1>8 DEF OnStack
<1>16. ScanFrames'
 <2>1. Line'
  <3>1. Line BY DEF ScanInv, ScanFrames
  <3> QED BY <1>1, <1>7, <1>8, <1>9, <3>1, LineStays
 <2>2. ASSUME NEW i \in 1 .. Depth - 1
       PROVE  stack'[i].probed /\ \A f \in stack'[i].rest : BusAt(i + 1)' < f
  <3>1. stack'[i] = stack[i] /\ BusAt(i + 1)' = BusAt(i + 1) BY <1>1, <1>7, <1>8
  <3> QED BY <3>1 DEF ScanInv, ScanFrames
 <2>3. ASSUME NEW i \in 1 .. Depth - 1 PROVE Searched(BusAt(i), stack[i])'
  <3>1. i \in 1 .. Depth /\ stack[i].probed BY <1>1 DEF ScanInv, ScanFrames
  <3>2. Searched(BusAt(i), stack[i]) BY <3>1 DEF ScanInv, ScanFrames
  <3>3. stack'[i] = stack[i] /\ BusAt(i)' = BusAt(i) /\ BusAt(i) \in Buses
    BY <1>1, <1>7, <1>8, <3>1
  <3>4. devices'[BusAt(i)] = On(BusAt(i)) BY <1>11, <3>2, <3>3 DEF Searched
  <3> QED BY <1>9, <1>10, <3>2, <3>3, <3>4 DEF Searched
 <2>4. Searched(BusAt(Depth), stack[Depth])'
  <3>1. Unsearched(t) BY <1>1, <1>9 DEF ScanInv, ScanFrames
  <3> QED BY <1>1, <1>5, <1>7, <1>8, <1>9, <1>10, <1>11, <3>1 DEF Searched, Unsearched
 <2>5. ASSUME NEW i \in 1 .. Depth'
       PROVE  IF stack'[i].probed THEN Searched(BusAt(i), stack[i])' ELSE Unsearched(BusAt(i))'
  <3>1. CASE i = Depth BY <1>5, <1>7, <2>4, <3>1
  <3>2. CASE i # Depth
   <4>1. i \in 1 .. Depth - 1 BY <1>1, <1>7, <3>2
   <4> QED BY <2>2, <2>3, <4>1
  <3> QED BY <3>1, <3>2
 <2> QED BY <1>7, <2>1, <2>2, <2>5 DEF ScanFrames
<1>17. \A b \in Buses : b \notin Scanned => devices'[b] = {} BY <1>1, <1>11 DEF ScanInv
<1>18. ASSUME NEW b \in Scanned PROVE OnStack(b)' \/ Explored(b)'
 <2>1. b \in Buses BY BusFacts DEF Scanned
 <2>2. CASE OnStack(b) BY <1>15, <2>1, <2>2
 <2>3. CASE ~OnStack(b)
  <3>1. Explored(b) BY <2>3 DEF ScanInv
  <3>2. b # t BY <1>1, <2>3 DEF OnStack
  <3> QED BY <1>9, <1>11, <2>1, <3>1, <3>2, ExploredStays
 <2> QED BY <2>2, <2>3
<1>19. /\ \A b \in Scanned : number[b] <= Highest
       /\ \E b \in Scanned : number[b] = Highest
       /\ Cardinality({b \in Fns : number[b] # 0}) = Highest
       /\ \A b \in Fns : OnStack(b) => /\ subordinate[b] = LastBus
                                       /\ \A c \in Fns : number[c] >= number[b] => b \in path[c]
  BY DEF ScanInv
<1>20. \A b \in Fns : b \in Buses BY BusFacts
<1> QED BY <1>9, <1>10, <1>12, <1>14, <1>15, <1>16, <1>17, <1>18, <1>19, <1>20 DEF ScanInv
-----------------------------------------------------------------------------
\* when one more is called for a bridge of the last one,
LEMMA LinePushed ==
  ASSUME MachineInv, Line, NEW d \in Nat, Depth = d, \A i \in 1 .. d : BusAt(i) \in Buses,
         NEW b \in Fns, on[b] = BusAt(d), Depth' = d + 1, BusAt(d + 1)' = b,
         \A i \in 1 .. d : BusAt(i)' = BusAt(i),
         b \in Scanned', \A x \in Scanned : x \in Scanned', path' = path,
         \A x \in Buses : children[x] \subseteq children'[x], b \in children'[BusAt(d)]
  PROVE  Line'
<1>1. /\ d >= 1 /\ BusAt(1) = Root
      /\ \A i \in 1 .. d : BusAt(i) \in Scanned /\ BusAt(i) >= i - 1
      /\ \A i \in 1 .. d - 1 : BusAt(i + 1) \in children[BusAt(i)]
      /\ \A i \in 1 .. d : \A j \in 1 .. i :
           BusAt(j) \in path[BusAt(i)] \cup {Root} /\ (j < i => BusAt(j) < BusAt(i))
      /\ \A i \in 1 .. d : \A a \in path[BusAt(i)] : \E j \in 1 .. i : BusAt(j) = a
  BY DEF Line
<1>2. /\ BusAt(d) < b /\ path[b] = {b} \cup path[BusAt(d)] BY PathFacts
<1>3. b \in Nat /\ \A i \in 1 .. d : BusAt(i) \in Nat BY BusFacts
<1>4. d \in 1 .. d BY <1>1
<1>5. \A j \in 1 .. d : BusAt(j) \in path[b] \cup {Root} /\ BusAt(j) < b
 <2> SUFFICES ASSUME NEW j \in 1 .. d PROVE BusAt(j) \in path[b] \cup {Root} /\ BusAt(j) < b
   OBVIOUS
 <2>1. BusAt(j) \in path[BusAt(d)] \cup {Root} /\ (j < d => BusAt(j) < BusAt(d)) BY <1>1, <1>4
 <2>2. j < d \/ j = d OBVIOUS
 <2>3. BusAt(j) \in Nat /\ BusAt(d) \in Nat BY <1>3, <1>4
 <2> QED BY <1>2, <1>3, <2>1, <2>2, <2>3
<1>6. ASSUME NEW i \in 1 .. (d + 1) PROVE BusAt(i)' \in Scanned' /\ BusAt(i)' >= i - 1
 <2>1. CASE i = d + 1
  <3>1. BusAt(d) >= d - 1 /\ BusAt(d) \in Nat BY <1>1, <1>3, <1>4
  <3> QED BY <1>2, <1>3, <2>1, <3>1
 <2>2. CASE i # d + 1
  <3>1. i \in 1 .. d BY <2>2
  <3> QED BY <1>1, <3>1
 <2> QED BY <2>1, <2>2
<1>7. ASSUME NEW i \in 1 .. d PROVE BusAt(i + 1)' \in children'[BusAt(i)']
 <2>1. i \in 1 .. d OBVIOUS
 <2>2. CASE i = d BY <2>1, <2>2
 <2>3. CASE i # d
  <3>1. i \in 1 .. d - 1 /\ i + 1 \in 1 .. d BY <2>1, <2>3
  <3> QED BY <1>1, <2>1, <3>1
 <2> QED BY <2>2, <2>3
<1>8. ASSUME NEW i \in 1 .. (d + 1), NEW j \in 1 .. i
      PROVE  BusAt(j)' \in path'[BusAt(i)'] \cup {Root} /\ (j < i => BusAt(j)' < BusAt(i)')
 <2>1. CASE i = d + 1
  <3>1. CASE j = d + 1 BY <1>2, <2>1, <3>1
  <3>2. CASE j # d + 1
   <4>1. j \in 1 .. d BY <2>1, <3>2
   <4> QED BY <1>5, <2>1, <4>1
  <3> QED BY <3>1, <3>2
 <2>2. CASE i # d + 1
  <3>1. i \in 1 .. d /\ j \in 1 .. d BY <2>2
  <3> QED BY <1>1, <3>1
 <2> QED BY <2>1, <2>2
<1>9. ASSUME NEW i \in 1 .. (d + 1), NEW a \in path'[BusAt(i)'] PROVE \E j \in 1 .. i : BusAt(j)' = a
 <2>1. CASE i = d + 1
  <3>1. CASE a = b BY <2>1, <3>1
  <3>2. CASE a # b
   <4>1. PICK j \in 1 .. d : BusAt(j) = a BY <1>1, <1>2, <1>4, <1>9, <2>1, <3>2
   <4> QED BY <2>1, <4>1
  <3> QED BY <3>1, <3>2
 <2>2. CASE i # d + 1
  <3>1. i \in 1 .. d BY <2>2
  <3>2. PICK j \in 1 .. i : BusAt(j) = a BY <1>1, <1>9, <3>1
  <3>3. j \in 1 .. d BY <3>1
  <3> QED BY <3>2, <3>3
 <2> QED BY <2>1, <2>2
<1>10. Depth' >= 1 /\ BusAt(1)' = Root BY <1>1
<1> QED BY <1>6, <1>7, <1>8, <1>9, <1>10 DEF Line

\* and when the last one returns.
LEMMA LinePopped ==
  ASSUME Line, Depth \in Nat, Depth >= 2, Depth' = Depth - 1, \A i \in 1 .. Depth' : BusAt(i)' = BusAt(i),
         UNCHANGED <<path, number, children>>
  PROVE  Line'
<1>1. Scanned' = Scanned BY DEF Scanned
<1>2. \A i \in 1 .. Depth' : i \in 1 .. Depth /\ \A j \in 1 .. i : j \in 1 .. Depth' OBVIOUS
<1>3. \A i \in 1 .. Depth' - 1 : i \in 1 .. Depth - 1 /\ i \in 1 .. Depth' /\ i + 1 \in 1 .. Depth'
  OBVIOUS
<1> QED BY <1>1, <1>2, <1>3 DEF Line

\* The buses of the calls are different, and the bridges on the way have all been called.
LEMMA LineFacts ==
  ASSUME Line, Depth \in Nat, \A i \in 1 .. Depth : BusAt(i) \in Buses
  PROVE  /\ \A i, j \in 1 .. Depth : i # j => BusAt(i) # BusAt(j)
         /\ OnStack(Root) /\ \A i \in 1 .. Depth : \A a \in path[BusAt(i)] : OnStack(a)
         /\ BusAt(Depth) = Root => Depth = 1
<1>1. /\ Depth >= 1 /\ BusAt(1) = Root
      /\ \A i \in 1 .. Depth : \A j \in 1 .. i : j < i => BusAt(j) < BusAt(i)
      /\ \A i \in 1 .. Depth : \A a \in path[BusAt(i)] : \E j \in 1 .. i : BusAt(j) = a
  BY DEF Line
<1>2. \A i \in 1 .. Depth : BusAt(i) \in Nat BY BusFacts
<1>3. ASSUME NEW i \in 1 .. Depth, NEW j \in 1 .. Depth, i # j PROVE BusAt(i) # BusAt(j)
 <2>1. CASE i < j BY <1>1, <1>2, <2>1
 <2>2. CASE j < i BY <1>1, <1>2, <2>2
 <2> QED BY <1>3, <2>1, <2>2
<1>4. 1 \in 1 .. Depth /\ Depth \in 1 .. Depth BY <1>1
<1>5. ASSUME BusAt(Depth) = Root PROVE Depth = 1 BY <1>1, <1>3, <1>4, <1>5
<1>6. ASSUME NEW i \in 1 .. Depth, NEW a \in path[BusAt(i)] PROVE OnStack(a)
 <2>1. PICK j \in 1 .. i : BusAt(j) = a BY <1>1
 <2> QED BY <2>1 DEF OnStack
<1> QED BY <1>1, <1>3, <1>4, <1>5, <1>6 DEF OnStack
-----------------------------------------------------------------------------

\* A bridge of a chipset that is left alone keeps them.
LEMMA SkipScans == MachineInv /\ NumberInv /\ ScanInv /\ SkipBridge => NumberInv' /\ ScanInv'
<1> SUFFICES ASSUME MachineInv, NumberInv, ScanInv, SkipBridge PROVE NumberInv' /\ ScanInv'
  OBVIOUS
<1>1. PICK b \in Top.rest : kind[b] = "left alone" /\ stack' = [stack EXCEPT ![Len(stack)].rest = @ \ {b}]
  BY DEF SkipBridge
<1> DEFINE e == [Top EXCEPT !.rest = @ \ {b}]
<1>2. /\ Depth \in Nat /\ Depth >= 1 /\ Depth \in 1 .. Depth /\ Top = stack[Depth] /\ Top.bus = BusAt(Depth)
      /\ Top \in ScanFrame
      /\ \A i \in 1 .. Depth : stack[i] \in ScanFrame /\ BusAt(i) \in Buses
  BY ScanTop DEF ScanInv
<1>3. Top.probed /\ UNCHANGED <<machine, hardware, phase, tree>> BY DEF SkipBridge
<1>4. /\ e \in ScanFrame /\ e.bus = Top.bus /\ e.probed /\ e.max = Top.max /\ e.rest = Top.rest \ {b}
  BY <1>2, <1>3 DEF ScanFrame
<1>5. stack' = [stack EXCEPT ![Len(stack)] = e] /\ stack \in Seq(ScanFrame) /\ Len(stack) >= 1
  BY <1>1, <1>2 DEF Top, Depth, ScanInv, ScanFrames
<1> HIDE DEF e
<1>6. /\ stack' \in Seq(ScanFrame) /\ Depth' = Depth /\ stack'[Depth] = e
      /\ \A i \in 1 .. Depth - 1 : stack'[i] = stack[i]
  BY <1>4, <1>5, Replaced DEF Depth
<1>7. \A i \in 1 .. Depth : BusAt(i)' = BusAt(i) BY <1>2, <1>4, <1>6 DEF BusAt
<1>8. UNCHANGED <<on, kind, bars, path, number, subordinate, numbers, children, devices>>
  BY <1>3 DEF machine, hardware, tree
<1>9. Scanned' = Scanned /\ \A x \in Buses : On(x)' = On(x) BY <1>8 DEF Scanned, On
<1>10. NumberInv'
 <2>1. devices' \in [Buses -> SUBSET Fns] /\ \A x \in Buses : devices'[x] \subseteq On(x)
   BY <1>8 DEF NumberInv
 <2> QED BY <1>8, <2>1, NumbersStay
<1>11. Highest' = Highest
 <2>1. Top' = e BY <1>6 DEF Top, Depth
 <2> QED BY <1>3, <1>4, <2>1 DEF Highest
<1>12. \A x \in Buses : OnStack(x)' <=> OnStack(x) BY <1>6, <1>7 DEF OnStack
<1>13. ScanFrames'
 <2>1. Line'
  <3>1. Line BY DEF ScanInv, ScanFrames
  <3> QED BY <1>2, <1>6, <1>7, <1>8, <3>1, LineStays
 <2>2. ASSUME NEW i \in 1 .. Depth - 1
       PROVE  stack'[i].probed /\ \A f \in stack'[i].rest : BusAt(i + 1)' < f
  <3>1. stack'[i] = stack[i] /\ BusAt(i + 1)' = BusAt(i + 1) BY <1>2, <1>6, <1>7
  <3> QED BY <3>1 DEF ScanInv, ScanFrames
 <2>3. ASSUME NEW i \in 1 .. Depth - 1
       PROVE  IF stack'[i].probed THEN Searched(BusAt(i), stack[i])' ELSE Unsearched(BusAt(i))'
  <3>1. i \in 1 .. Depth /\ stack[i].probed BY <1>2 DEF ScanInv, ScanFrames
  <3>2. Searched(BusAt(i), stack[i]) BY <3>1 DEF ScanInv, ScanFrames
  <3>3. stack'[i] = stack[i] /\ BusAt(i)' = BusAt(i) /\ BusAt(i) \in Buses
    BY <1>2, <1>6, <1>7, <3>1
  <3> QED BY <1>8, <1>9, <3>1, <3>2, <3>3 DEF Searched
 <2>4. Searched(BusAt(Depth), stack[Depth])'
  <3>1. Searched(BusAt(Depth), Top) BY <1>2, <1>3 DEF ScanInv, ScanFrames
  <3>2. kind[b] # "bridge" /\ BusAt(Depth) \in Buses BY <1>1, <1>2
  <3>3. stack'[Depth'] = e /\ BusAt(Depth)' = BusAt(Depth) BY <1>2, <1>6, <1>7
  <3> QED BY <1>4, <1>8, <1>9, <3>1, <3>2, <3>3 DEF Searched
 <2>5. ASSUME NEW i \in 1 .. Depth'
       PROVE  IF stack'[i].probed THEN Searched(BusAt(i), stack[i])' ELSE Unsearched(BusAt(i))'
  <3>1. CASE i = Depth BY <1>4, <1>6, <2>4, <3>1
  <3>2. CASE i # Depth
   <4>1. i \in 1 .. Depth - 1 BY <1>2, <1>6, <3>2
   <4> QED BY <2>3, <4>1
  <3> QED BY <3>1, <3>2
 <2> QED BY <1>6, <2>1, <2>2, <2>5 DEF ScanFrames
<1>14. \A x \in Buses : x \notin Scanned => devices'[x] = {} BY <1>8 DEF ScanInv
<1>15. ASSUME NEW x \in Scanned PROVE OnStack(x)' \/ Explored(x)'
 <2>1. x \in Buses BY BusFacts DEF Scanned
 <2>2. CASE OnStack(x) BY <1>12, <2>1, <2>2
 <2>3. CASE ~OnStack(x)
  <3>1. Explored(x) BY <2>3 DEF ScanInv
  <3> QED BY <1>8, <2>1, <3>1, ExploredStays
 <2> QED BY <2>2, <2>3
<1>16. /\ \A x \in Scanned : number[x] <= Highest
       /\ \E x \in Scanned : number[x] = Highest
       /\ Cardinality({x \in Fns : number[x] # 0}) = Highest
       /\ \A x \in Fns : OnStack(x) => /\ subordinate[x] = LastBus
                                       /\ \A c \in Fns : number[c] >= number[x] => x \in path[c]
  BY DEF ScanInv
<1>17. \A x \in Fns : x \in Buses BY BusFacts
<1> QED BY <1>8, <1>9, <1>10, <1>11, <1>12, <1>13, <1>14, <1>15, <1>16, <1>17 DEF ScanInv
-----------------------------------------------------------------------------
\* There are N functions.
LEMMA FnsFinite == IsFiniteSet(Fns) /\ Cardinality(Fns) = N
BY Constants, FS_Interval DEF Fns

\* One more has a number.
LEMMA OneMore ==
  ASSUME NEW S \in SUBSET Fns, NEW b \in Fns, b \notin S
  PROVE  Cardinality(S \cup {b}) = Cardinality(S) + 1 /\ Cardinality(S) + 1 \in 1 .. N
<1>1. IsFiniteSet(S) /\ IsFiniteSet(S \cup {b}) BY FnsFinite, FS_Subset, FS_AddElement
<1>2. Cardinality(S \cup {b}) = Cardinality(S) + 1 /\ Cardinality(S) \in Nat
  BY <1>1, FS_AddElement, FS_CardinalityType
<1>3. Cardinality(S \cup {b}) <= N BY FnsFinite, FS_Subset
<1> QED BY <1>2, <1>3, Constants

\* So does giving the next number to a bridge, and going behind it: it is higher than
\* all that have been given, and not higher than the last one there is.
LEMMA ScanBehindScans == MachineInv /\ NumberInv /\ ScanInv /\ ScanBehind => NumberInv' /\ ScanInv'
<1> SUFFICES ASSUME MachineInv, NumberInv, ScanInv, ScanBehind PROVE NumberInv' /\ ScanInv'
  OBVIOUS
<1> DEFINE t == Top.bus
           n == Highest + 1
<1>1. PICK b \in Top.rest :
        /\ IsNext(b) /\ kind[b] = "bridge"
        /\ number' = [number EXCEPT ![b] = Top.max + 1]
        /\ subordinate' = [subordinate EXCEPT ![b] = LastBus]
        /\ children' = [children EXCEPT ![t] = @ \cup {b}]
        /\ numbers' = [numbers EXCEPT ![b] = Opened(Top.max + 1)]
        /\ stack' = Calls([bus |-> b, probed |-> FALSE, max |-> 0, rest |-> {}])
  BY DEF ScanBehind
<1>2. /\ Depth \in Nat /\ Depth >= 1 /\ Depth \in 1 .. Depth /\ Top = stack[Depth] /\ t = BusAt(Depth)
      /\ Top \in ScanFrame /\ t \in Scanned /\ t \in Buses
      /\ \A i \in 1 .. Depth : stack[i] \in ScanFrame /\ BusAt(i) \in Buses
  BY ScanTop DEF ScanInv
<1>3. Top.probed /\ UNCHANGED <<on, kind, bars, path, devices>> BY DEF ScanBehind, machine
<1>4. Searched(t, Top) BY <1>2, <1>3 DEF ScanInv, ScanFrames
<1>5. b \in Fns /\ on[b] = t /\ number[b] = 0 /\ b \in On(t) /\ b \in Buses /\ b # Root
  BY <1>4, BusFacts DEF Searched, On
<1> DEFINE S == {x \in Fns : number[x] # 0}
<1>6. Highest = Top.max /\ Cardinality(S) = Highest /\ n \in 1 .. N
 <2>1. Highest = Top.max /\ Cardinality(S) = Highest BY <1>3 DEF Highest, ScanInv
 <2> QED
  <3>1. S \in SUBSET Fns /\ b \notin S BY <1>5
  <3>2. Cardinality(S) + 1 \in 1 .. N BY <1>5, <3>1, OneMore
  <3> QED BY <2>1, <3>2
<1>7. /\ number' = [number EXCEPT ![b] = n] /\ number'[b] = n
      /\ \A x \in Buses : x # b => number'[x] = number[x]
  BY <1>1, <1>5, <1>6 DEF NumberInv
<1>8. /\ subordinate'[b] = LastBus /\ \A x \in Buses : x # b => subordinate'[x] = subordinate[x]
      /\ subordinate' \in [Buses -> 0 .. LastBus]
  BY <1>1, <1>5, Constants DEF NumberInv
<1>9. /\ numbers'[b] = [secondary |-> n, subordinate |-> LastBus]
      /\ \A x \in Fns : x # b => numbers'[x] = numbers[x]
      /\ numbers' \in [Fns -> [secondary : 0 .. LastBus, subordinate : 0 .. LastBus]]
 <2>1. [secondary |-> n, subordinate |-> LastBus] \in [secondary : 0 .. LastBus, subordinate : 0 .. LastBus]
   BY <1>6, Constants
 <2> QED BY <1>1, <1>5, <1>6, <2>1 DEF NumberInv, Opened
<1>10. n \in Nat /\ n # 0 /\ n <= LastBus /\ Highest < n /\ Highest \in Nat
 <2>1. Highest \in Nat BY <1>2, <1>6, Constants DEF ScanFrame
 <2>2. n \in 1 .. N BY <1>6
 <2> QED BY <2>1, <2>2, Constants
<1>11. Scanned' = Scanned \cup {b} /\ b \notin Scanned BY <1>5, <1>7, <1>10, BusFacts DEF Scanned
<1>12. \A x \in Buses : On(x)' = On(x) BY <1>3 DEF On
<1>13. \A x \in Fns : x # b => number'[x] = number[x] /\ subordinate'[x] = subordinate[x]
  BY <1>7, <1>8, BusFacts
<1>14. \A x \in Buses : number[x] \in Nat BY DEF NumberInv
<1>15. \A x \in Scanned : number[x] <= Highest BY DEF ScanInv
<1>16. Line BY DEF ScanInv, ScanFrames
<1>17. path[b] = {b} \cup path[t] /\ path[b] \subseteq Fns /\ b \in path[b] BY <1>5, PathFacts
<1>18. \A a \in path[t] : OnStack(a) /\ a \in Fns /\ number[a] # 0 /\ a # b
 <2> SUFFICES ASSUME NEW a \in path[t] PROVE OnStack(a) /\ a \in Fns /\ number[a] # 0 /\ a # b
   OBVIOUS
 <2>1. OnStack(a) /\ a \in Fns BY <1>2, <1>16, LineFacts, PathUp
 <2>2. a \in Scanned BY <1>16, <2>1 DEF OnStack, Line
 <2> QED BY <1>5, <2>1, <2>2, BusFacts DEF Scanned
<1>19. \A c \in Fns : number[c] # 0 => b \notin path[c] BY <1>5, NumberedFacts
\* NumberInv
<1>20. number' \in [Buses -> 0 .. N] /\ number'[Root] = 0
  BY <1>5, <1>6, <1>7, BusFacts, Constants DEF NumberInv
<1>21. ASSUME NEW c \in Fns, number'[c] # 0
       PROVE  /\ kind[c] = "bridge" /\ on[c] \in Scanned'
              /\ numbers'[c] = [secondary |-> number'[c], subordinate |-> subordinate'[c]]
              /\ \A a \in path[c] : number'[a] # 0 /\ number'[a] <= number'[c] /\ number'[c] <= subordinate'[a]
 <2>1. CASE c = b
  <3>1. ASSUME NEW a \in path[b] PROVE number'[a] # 0 /\ number'[a] <= n /\ n <= subordinate'[a]
   <4>1. CASE a = b BY <1>7, <1>8, <1>10, <4>1
   <4>2. CASE a # b
    <5>1. a \in path[t] /\ a \in Fns /\ a \in Buses BY <1>17, <3>1, <4>2, BusFacts
    <5>2. OnStack(a) /\ number[a] # 0 /\ number'[a] = number[a] /\ subordinate'[a] = subordinate[a]
      BY <1>13, <1>18, <4>2, <5>1
    <5>3. subordinate[a] = LastBus /\ a \in Scanned BY <5>1, <5>2 DEF ScanInv, Scanned
    <5>4. number[a] <= Highest /\ number[a] \in Nat BY <1>14, <1>15, <5>1, <5>3
    <5> QED BY <1>6, <1>10, <5>2, <5>3, <5>4
   <4> QED BY <4>1, <4>2
  <3> QED BY <1>1, <1>2, <1>5, <1>7, <1>8, <1>9, <1>11, <2>1, <3>1
 <2>2. CASE c # b
  <3>1. number[c] # 0 /\ number'[c] = number[c] /\ subordinate'[c] = subordinate[c] /\ numbers'[c] = numbers[c]
    BY <1>9, <1>13, <1>21, <2>2
  <3>2. b \notin path[c] /\ path[c] \subseteq Fns BY <1>19, <3>1, PathFacts
  <3>3. \A a \in path[c] : number'[a] = number[a] /\ subordinate'[a] = subordinate[a]
    BY <1>13, <3>2
  <3> QED BY <1>11, <3>1, <3>3 DEF NumberInv
 <2> QED BY <2>1, <2>2
<1>22. ASSUME NEW c \in Fns, NEW d \in Fns, number'[c] = number'[d], number'[c] # 0 PROVE c = d
 <2>1. \A x \in Fns : x # b /\ number[x] # 0 => number[x] # n
  <3> SUFFICES ASSUME NEW x \in Fns, x # b, number[x] # 0 PROVE number[x] # n OBVIOUS
  <3>1. x \in Scanned /\ x \in Buses BY BusFacts DEF Scanned
  <3> QED BY <1>10, <1>14, <1>15, <3>1
 <2> QED BY <1>7, <1>13, <1>22, <2>1 DEF NumberInv
<1>23. \A c \in Fns : number'[c] = 0 => numbers'[c] = Unnumbered \/ FirstBridge(c)'
 <2> SUFFICES ASSUME NEW c \in Fns, number'[c] = 0 PROVE numbers'[c] = Unnumbered \/ FirstBridge(c)'
   OBVIOUS
 <2>1. c # b /\ number[c] = 0 /\ numbers'[c] = numbers[c] BY <1>7, <1>9, <1>10, <1>13
 <2> QED BY <1>3, <2>1 DEF NumberInv, FirstBridge
<1>24. children' = [x \in Buses |-> {c \in On(x) : number'[c] # 0}]
 <2>1. children = [x \in Buses |-> {c \in On(x) : number[c] # 0}] BY DEF NumberInv
 <2>2. children' = [x \in Buses |-> IF x = t THEN children[t] \cup {b} ELSE children[x]]
   BY <1>1, <2>1
 <2>3. ASSUME NEW x \in Buses
       PROVE  (IF x = t THEN children[t] \cup {b} ELSE children[x]) = {c \in On(x) : number'[c] # 0}
  <3>1. children[x] = {c \in On(x) : number[c] # 0} BY <2>1
  <3>2. \A c \in On(x) : c \in Fns /\ on[c] = x BY DEF On
  <3>3. CASE x = t
   <4>1. \A c \in On(x) : number'[c] # 0 <=> number[c] # 0 \/ c = b BY <1>7, <1>10, <1>13, <3>2
   <4> QED BY <1>5, <3>1, <3>3, <4>1
  <3>4. CASE x # t
   <4>1. \A c \in On(x) : c # b /\ number'[c] = number[c] BY <1>5, <1>13, <3>2, <3>4
   <4> QED BY <3>1, <3>4, <4>1
  <3> QED BY <3>3, <3>4
 <2> QED BY <2>2, <2>3
<1>25. NumberInv'
 <2>1. devices' \in [Buses -> SUBSET Fns] /\ \A x \in Buses : devices'[x] \subseteq On(x)'
   BY <1>3, <1>12 DEF NumberInv
 <2>2. children' = [x \in Buses |-> {c \in On(x)' : number'[c] # 0}] BY <1>12, <1>24
 <2> QED BY <1>3, <1>8, <1>9, <1>20, <1>21, <1>22, <1>23, <2>1, <2>2 DEF NumberInv
\* ScanInv
<1> DEFINE e == [Top EXCEPT !.rest = @ \ {b}]
           f == [bus |-> b, probed |-> FALSE, max |-> 0, rest |-> {}]
<1>26. /\ e \in ScanFrame /\ e.bus = t /\ e.probed /\ e.max = Top.max /\ e.rest = Top.rest \ {b}
       /\ f \in ScanFrame /\ f.bus = b /\ f.probed = FALSE
  BY <1>2, <1>3, <1>5, Constants DEF ScanFrame
<1>27. stack' = Append([stack EXCEPT ![Len(stack)] = e], f) /\ stack \in Seq(ScanFrame) /\ Len(stack) >= 1
  BY <1>1, <1>2 DEF Calls, Top, Depth, ScanInv, ScanFrames
<1>28. PICK d \in Nat : d = Depth BY <1>2
<1> HIDE DEF e, f
<1>29. /\ stack' \in Seq(ScanFrame) /\ Depth' = d + 1 /\ stack'[d + 1] = f /\ stack'[d] = e
       /\ \A i \in 1 .. d - 1 : stack'[i] = stack[i]
  BY <1>26, <1>27, <1>28, Pushed DEF Depth
<1>30. d >= 1 /\ (\A i \in 1 .. d : BusAt(i)' = BusAt(i)) /\ BusAt(d + 1)' = b /\ BusAt(d) = t
  BY <1>2, <1>26, <1>28, <1>29 DEF BusAt
<1>31. Line'
 <2>1. \A x \in Buses : children[x] \subseteq children'[x] BY <1>1 DEF NumberInv
 <2>2. b \in children'[t] BY <1>1, <1>2 DEF NumberInv
 <2> QED BY <1>2, <1>3, <1>5, <1>11, <1>16, <1>28, <1>29, <1>30, <2>1, <2>2, LinePushed
<1>32. \A i \in 1 .. d : stack[i] \in ScanFrame /\ BusAt(i) \in Buses /\ BusAt(i) # b
 <2>1. \A i \in 1 .. d : BusAt(i) \in Scanned BY <1>16, <1>28 DEF Line
 <2> QED BY <1>2, <1>11, <1>28, <2>1
<1>33. ASSUME NEW i \in 1 .. d PROVE stack'[i].probed /\ \A g \in stack'[i].rest : BusAt(i + 1)' < g
 <2>1. CASE i = d
  <3>1. ASSUME NEW g \in Top.rest \ {b} PROVE b < g
   <4>1. b <= g /\ g \in Fns BY <1>1, <1>2 DEF IsNext, ScanFrame
   <4> QED BY <1>5, <4>1, BusFacts
  <3> QED BY <1>26, <1>29, <1>30, <2>1, <3>1
 <2>2. CASE i # d
  <3>1. i \in 1 .. Depth - 1 /\ i \in 1 .. d - 1 /\ i + 1 \in 1 .. d BY <1>28, <1>30, <2>2
  <3>2. stack'[i] = stack[i] /\ BusAt(i + 1)' = BusAt(i + 1) BY <1>29, <1>30, <3>1
  <3> QED BY <3>1, <3>2 DEF ScanInv, ScanFrames
 <2> QED BY <2>1, <2>2
<1>34. ASSUME NEW i \in 1 .. d PROVE Searched(BusAt(i), stack[i])'
 <2> DEFINE x == BusAt(i)
 <2>1. stack[i].probed
  <3>1. CASE i = d BY <1>2, <1>3, <1>28, <3>1
  <3>2. CASE i # d
   <4>1. i \in 1 .. Depth - 1 BY <1>28, <1>30, <3>2
   <4> QED BY <4>1 DEF ScanInv, ScanFrames
  <3> QED BY <3>1, <3>2
 <2>2. Searched(x, stack[i]) BY <1>28, <2>1 DEF ScanInv, ScanFrames
 <2>3. BusAt(i)' = x /\ x \in Buses /\ x # b /\ number'[x] = number[x] BY <1>7, <1>30, <1>32
 <2>4. stack'[i].max = stack[i].max /\ stack'[i].rest = stack[i].rest \ {b}
  <3>1. CASE i = d BY <1>2, <1>26, <1>28, <1>29, <3>1
  <3>2. CASE i # d
   <4>1. i \in 1 .. d - 1 BY <1>30, <3>2
   <4>2. b \notin stack[i].rest
    <5>1. b \notin On(x)
     <6>1. x # t BY <1>2, <1>16, <1>28, <1>30, <3>2, LineFacts
     <6> QED BY <1>5, <6>1 DEF On
    <5> QED BY <2>2, <5>1 DEF Searched
   <4> QED BY <1>29, <4>1, <4>2
  <3> QED BY <3>1, <3>2
 <2>5. devices'[x] = On(x) BY <1>3, <2>2 DEF Searched
 <2>6. \A g \in On(x) : g \in Fns BY DEF On
 <2>7. \A g \in stack'[i].rest : g \in On(x) /\ number'[g] = 0 /\ kind[g] # "device"
   BY <1>13, <2>2, <2>4, <2>6 DEF Searched
 <2>8. \A g \in On(x) : kind[g] = "bridge" /\ number'[g] = 0 => g \in stack'[i].rest
  <3> SUFFICES ASSUME NEW g \in On(x), kind[g] = "bridge", number'[g] = 0 PROVE g \in stack'[i].rest
    OBVIOUS
  <3>1. g # b /\ number[g] = 0 BY <1>7, <1>10, <1>13, <2>6
  <3> QED BY <2>2, <2>4, <3>1 DEF Searched
 <2>9. \/ stack'[i].max = number'[x]
       \/ \E c \in On(x) : number'[c] # 0 /\ \A g \in stack'[i].rest : c < g
  <3>1. CASE stack[i].max = number[x] BY <2>3, <2>4, <3>1
  <3>2. CASE \E c \in On(x) : number[c] # 0 /\ \A g \in stack[i].rest : c < g
   <4>1. PICK c \in On(x) : number[c] # 0 /\ \A g \in stack[i].rest : c < g BY <3>2
   <4>2. number'[c] # 0 BY <1>7, <1>10, <1>13, <2>6, <4>1
   <4> QED BY <2>4, <4>1, <4>2
  <3> QED BY <2>2, <3>1, <3>2 DEF Searched
 <2> QED BY <1>3, <1>12, <2>3, <2>5, <2>7, <2>8, <2>9 DEF Searched
<1>35. Unsearched(b)'
 <2>1. devices'[b] = {} BY <1>3, <1>5, <1>11 DEF ScanInv
 <2>2. \A g \in On(b) : number'[g] = 0
  <3> SUFFICES ASSUME NEW g \in On(b), number'[g] # 0 PROVE FALSE OBVIOUS
  <3>1. g \in Fns /\ on[g] = b BY DEF On
  <3>2. g # b BY <1>5, <3>1, PathFacts, BusFacts
  <3>3. number[g] # 0 BY <1>13, <3>1, <3>2
  <3> QED BY <1>11, <3>1, <3>3, NumberedFacts
 <2> QED BY <1>5, <1>12, <2>1, <2>2 DEF Unsearched
<1>36. ScanFrames'
 <2>1. ASSUME NEW i \in 1 .. Depth'
       PROVE  IF stack'[i].probed THEN Searched(BusAt(i), stack[i])' ELSE Unsearched(BusAt(i))'
  <3>1. CASE i = d + 1 BY <1>26, <1>29, <1>30, <1>35, <3>1
  <3>2. CASE i # d + 1
   <4>1. i \in 1 .. d BY <1>29, <3>2
   <4> QED BY <1>33, <1>34, <4>1
  <3> QED BY <3>1, <3>2
 <2>2. \A i \in 1 .. Depth' - 1 : i \in 1 .. d BY <1>29
 <2> QED BY <1>29, <1>31, <1>33, <2>1, <2>2 DEF ScanFrames
<1>37. \A x \in Buses : x \notin Scanned' => devices'[x] = {} BY <1>3, <1>11 DEF ScanInv
<1>38. \A x \in Buses : OnStack(x)' <=> OnStack(x) \/ x = b
 <2>1. \A i \in 1 .. d + 1 : i \in 1 .. d \/ i = d + 1 OBVIOUS
 <2>2. \A i \in 1 .. d : i \in 1 .. d + 1 OBVIOUS
 <2>3. d + 1 \in 1 .. d + 1 OBVIOUS
 <2> QED BY <1>28, <1>29, <1>30, <2>1, <2>2, <2>3 DEF OnStack
<1>39. Top' = f BY <1>29 DEF Top, Depth
<1>40. Highest' = n BY <1>7, <1>26, <1>39 DEF Highest
<1>41. ASSUME NEW x \in Scanned' PROVE OnStack(x)' \/ Explored(x)'
 <2>1. x \in Buses BY BusFacts DEF Scanned
 <2>2. CASE OnStack(x) \/ x = b BY <1>38, <2>1, <2>2
 <2>3. CASE ~(OnStack(x) \/ x = b)
  <3>1. x \in Scanned /\ Explored(x) /\ x # b /\ x # Root
   <4>1. OnStack(Root) BY <1>2, <1>16, LineFacts
   <4> QED BY <1>11, <2>3, <4>1 DEF ScanInv
  <3>2. x \notin path[b] BY <1>17, <1>18, <2>3
  <3>3. Behind(x)' = Behind(x) BY <1>3, <1>11, <3>1, <3>2 DEF Behind
  <3>4. \A c \in Behind(x) : number'[c] = number[c]
   <4>1. \A c \in Scanned : c \in Buses /\ c # b BY <1>11, BusFacts DEF Scanned
   <4> QED BY <1>7, <4>1 DEF Behind
  <3>5. subordinate'[x] = subordinate[x] /\ devices'[x] = devices[x] /\ On(x)' = On(x)
    BY <1>3, <1>8, <1>12, <2>1, <3>1
  <3>6. \A c \in On(x) : number[c] # 0 => number'[c] # 0
   <4>1. \A c \in On(x) : c \in Fns BY DEF On
   <4> QED BY <1>5, <1>13, <4>1
  <3> QED BY <1>3, <3>1, <3>3, <3>4, <3>5, <3>6 DEF Explored
 <2> QED BY <2>2, <2>3
<1>42. \A x \in Scanned' : number'[x] <= n
 <2> SUFFICES ASSUME NEW x \in Scanned' PROVE number'[x] <= n OBVIOUS
 <2>1. CASE x = b BY <1>7, <1>10, <2>1
 <2>2. CASE x # b
  <3>1. x \in Scanned /\ x \in Buses BY <1>11, <2>2, BusFacts DEF Scanned
  <3> QED BY <1>10, <1>7, <1>14, <1>15, <2>2, <3>1
 <2> QED BY <2>1, <2>2
<1>43. \E x \in Scanned' : number'[x] = n BY <1>7, <1>11
<1>44. Cardinality({x \in Fns : number'[x] # 0}) = n
 <2>1. {x \in Fns : number'[x] # 0} = S \cup {b} BY <1>5, <1>7, <1>10, <1>13
 <2> QED BY <1>5, <1>6, <2>1, OneMore
<1>45. ASSUME NEW x \in Fns, OnStack(x)'
       PROVE  /\ subordinate'[x] = LastBus
              /\ \A c \in Fns : number'[c] >= number'[x] => x \in path[c]
 <2>1. CASE x = b
  <3> SUFFICES ASSUME NEW c \in Fns, number'[c] >= n PROVE b \in path[c] BY <1>7, <1>8, <2>1
  <3>1. CASE c = b BY <1>17, <3>1
  <3>2. CASE c # b
   <4>1. number[c] >= n /\ number[c] \in Nat BY <1>13, <1>14, <3>2, BusFacts
   <4>2. c \in Scanned BY <1>10, <4>1 DEF Scanned
   <4> QED BY <1>10, <1>15, <4>1, <4>2
  <3> QED BY <3>1, <3>2
 <2>2. CASE x # b
  <3>1. OnStack(x) BY <1>38, <1>45, <2>2, BusFacts
  <3>2. /\ subordinate[x] = LastBus /\ \A c \in Fns : number[c] >= number[x] => x \in path[c]
    BY <3>1 DEF ScanInv
  <3>3. x \in path[b]
   <4>1. PICK i \in 1 .. d : BusAt(i) = x BY <1>28, <3>1 DEF OnStack
   <4>2. d \in 1 .. Depth /\ i \in 1 .. d BY <1>2, <1>28
   <4>3. x \in path[BusAt(d)] \cup {Root} BY <1>16, <4>1, <4>2 DEF Line
   <4> QED BY <1>17, <1>30, <4>3, BusFacts
  <3> QED BY <1>13, <2>2, <3>2, <3>3
 <2> QED BY <2>1, <2>2
<1> QED BY <1>3, <1>25, <1>36, <1>37, <1>40, <1>41, <1>42, <1>43, <1>44, <1>45 DEF ScanInv
-----------------------------------------------------------------------------
\* What has been found when a bus has been gone through: itself and all behind it.
LEMMA BusExplored ==
  ASSUME MachineInv, NumberInv, ScanInv, NEW t \in Buses, t = Top.bus, Top.probed, Top.rest = {},
         UNCHANGED <<on, kind, path, number, devices>>, subordinate'[t] = Top.max
  PROVE  Explored(t)'
<1>1. /\ Depth \in 1 .. Depth /\ Top = stack[Depth] /\ t = BusAt(Depth)
      /\ Top \in ScanFrame /\ t \in Scanned /\ t \in Buses
  BY ScanTop DEF ScanInv
<1>2. Searched(t, Top) BY <1>1 DEF ScanInv, ScanFrames
<1>3. Highest = Top.max /\ \A c \in Scanned : number[c] <= Top.max BY DEF Highest, ScanInv
<1>4. PICK c \in Scanned : number[c] = Top.max BY <1>3 DEF ScanInv
<1>5. c \in Behind(t)
 <2>1. CASE t = Root BY <2>1 DEF Behind
 <2>2. CASE t # Root
  <3>1. t \in Fns /\ number[t] \in 1 .. N BY <1>1, <2>2, NumberedFacts DEF Scanned
  <3>2. number[c] >= number[t] BY <1>1, <1>3, <1>4
  <3>3. c # Root BY <3>1, <3>2 DEF NumberInv
  <3>4. c \in Fns BY <3>3 DEF Scanned
  <3>5. OnStack(t) BY <1>1 DEF OnStack
  <3> QED BY <3>1, <3>2, <3>4, <3>5 DEF ScanInv, Behind
 <2> QED BY <2>1, <2>2
<1>6. /\ Behind(t)' = Behind(t) /\ On(t)' = On(t) /\ t \in Buses
      /\ \A x \in Behind(t) : x \in Scanned
  BY <1>1 DEF Behind, Scanned, On
<1>7. \A f \in On(t) : kind[f] = "bridge" => number[f] # 0 BY <1>2 DEF Searched
<1>8. devices'[t] = On(t) BY <1>2 DEF Searched
<1>10. /\ devices'[t] = On(t)' /\ \A f \in On(t)' : kind'[f] = "bridge" => number'[f] # 0
       /\ \E x \in Behind(t)' : number'[x] = subordinate'[t]
       /\ \A x \in Behind(t)' : number'[x] <= subordinate'[t]
  BY <1>3, <1>4, <1>5, <1>6, <1>7, <1>8
<1> QED BY <1>10 DEF Explored
-----------------------------------------------------------------------------

\* And so does coming back: what was opened up is closed at the highest number behind
\* the bridge, and the bridges of the bus that are still to come keep out of the way.
LEMMA ReturnScans == MachineInv /\ NumberInv /\ ScanInv /\ ReturnFromBus => NumberInv' /\ ScanInv'
<1> SUFFICES ASSUME MachineInv, NumberInv, ScanInv, ReturnFromBus PROVE NumberInv' /\ ScanInv'
  OBVIOUS
<1>1. PICK t \in Buses, d \in Nat, m \in 0 .. N : t = Top.bus /\ d = Depth /\ m = Top.max
 <2>1. Top \in ScanFrame /\ Top.bus \in Buses /\ Depth \in Nat BY ScanTop DEF ScanInv
 <2>2. Top.max \in 0 .. N BY <2>1 DEF ScanFrame
 <2> QED BY <2>1, <2>2
<1>2. /\ d >= 1 /\ d \in 1 .. d /\ Top = stack[d] /\ t = BusAt(d)
      /\ Top \in ScanFrame /\ t \in Scanned
      /\ \A i \in 1 .. d : stack[i] \in ScanFrame /\ BusAt(i) \in Buses
  BY <1>1, ScanTop DEF ScanInv
<1>3. /\ Top.probed /\ Top.rest = {} /\ t # Root
      /\ subordinate' = [subordinate EXCEPT ![t] = m]
      /\ numbers' = [numbers EXCEPT ![t].subordinate = m]
      /\ stack' = [Front(stack) EXCEPT ![Len(stack) - 1].max = m]
      /\ UNCHANGED <<on, kind, bars, path, number, children, devices>>
  BY <1>1 DEF ReturnFromBus, machine
<1>4. Line BY DEF ScanInv, ScanFrames
<1>5. d >= 2
 <2>1. d # 1 BY <1>1, <1>2, <1>3, <1>4 DEF Line
 <2> QED BY <1>2, <2>1
<1>6. t \in Fns /\ number[t] # 0 /\ OnStack(t) BY <1>1, <1>2, <1>3 DEF Scanned, OnStack
<1>7. Highest = m /\ m \in Nat /\ m <= LastBus /\ \A c \in Scanned : number[c] <= m
 <2>1. Highest = m BY <1>1, <1>3 DEF Highest
 <2> QED BY <2>1, Constants DEF ScanInv
<1>8. /\ subordinate' \in [Buses -> 0 .. LastBus] /\ subordinate'[t] = m
      /\ \A x \in Buses : x # t => subordinate'[x] = subordinate[x]
  BY <1>3, <1>7 DEF NumberInv
<1>9. /\ numbers' \in [Fns -> [secondary : 0 .. LastBus, subordinate : 0 .. LastBus]]
      /\ numbers'[t] = [secondary |-> number[t], subordinate |-> m]
      /\ \A x \in Fns : x # t => numbers'[x] = numbers[x]
 <2>1. numbers[t] = [secondary |-> number[t], subordinate |-> subordinate[t]]
   BY <1>6 DEF NumberInv
 <2>2. numbers \in [Fns -> [secondary : 0 .. LastBus, subordinate : 0 .. LastBus]]
   BY DEF NumberInv
 <2>3. numbers[t] \in [secondary : 0 .. LastBus, subordinate : 0 .. LastBus] BY <1>6, <2>2
 <2>4. [numbers[t] EXCEPT !.subordinate = m] = [secondary |-> number[t], subordinate |-> m]
   BY <2>1
 <2>5. number[t] \in 0 .. LastBus BY <2>1, <2>3
 <2>6. numbers' = [numbers EXCEPT ![t] = [secondary |-> number[t], subordinate |-> m]]
   BY <1>3, <1>6, <2>2, <2>4
 <2> QED BY <1>6, <1>7, <2>2, <2>5, <2>6
<1>10. Scanned' = Scanned /\ \A x \in Buses : On(x)' = On(x) BY <1>3 DEF Scanned, On
<1>11. NumberInv'
 <2>1. ASSUME NEW b \in Fns, number[b] # 0
       PROVE  /\ kind[b] = "bridge" /\ on[b] \in Scanned
              /\ numbers'[b] = [secondary |-> number[b], subordinate |-> subordinate'[b]]
              /\ \A a \in path[b] : number[a] # 0 /\ number[a] <= number[b] /\ number[b] <= subordinate'[a]
  <3>1. numbers'[b] = [secondary |-> number[b], subordinate |-> subordinate'[b]]
    BY <1>8, <1>9, <2>1, BusFacts DEF NumberInv
  <3>2. ASSUME NEW a \in path[b] PROVE number[b] <= subordinate'[a]
   <4>1. a \in Buses BY <3>2, PathUp, BusFacts
   <4>2. CASE a = t
    <5>1. b \in Scanned BY <2>1 DEF Scanned
    <5> QED BY <1>7, <1>8, <4>2, <5>1
   <4>3. CASE a # t BY <1>8, <2>1, <4>1, <4>3, NumberedFacts
   <4> QED BY <4>2, <4>3
  <3> QED BY <2>1, <3>1, <3>2, NumberedFacts
 <2>2. \A b \in Fns : number[b] = 0 => numbers'[b] = Unnumbered \/ FirstBridge(b)'
   BY <1>3, <1>6, <1>9 DEF NumberInv, FirstBridge
 <2>3. /\ number \in [Buses -> 0 .. N] /\ number[Root] = 0
       /\ \A b, c \in Fns : number[b] = number[c] /\ number[b] # 0 => b = c
       /\ children = [b \in Buses |-> {c \in On(b) : number[c] # 0}]
       /\ devices \in [Buses -> SUBSET Fns] /\ \A b \in Buses : devices[b] \subseteq On(b)
   BY DEF NumberInv
 <2>4. children' = [b \in Buses |-> {c \in On(b)' : number'[c] # 0}] BY <1>3, <1>10, <2>3
 <2> QED
  <3>1. numbers' \in [Fns -> [secondary : 0 .. LastBus, subordinate : 0 .. LastBus]] BY <1>9
  <3>2. subordinate' \in [Buses -> 0 .. LastBus] BY <1>8
  <3> QED BY <1>3, <1>10, <2>1, <2>2, <2>3, <2>4, <3>1, <3>2, SMTT(30) DEF NumberInv
\* the frames
<1> DEFINE e == [stack[d - 1] EXCEPT !.max = m]
<1>12. /\ d - 1 \in 1 .. d /\ d - 1 \in 1 .. d - 1 /\ stack[d - 1] \in ScanFrame
       /\ e \in ScanFrame /\ e.bus = BusAt(d - 1)
       /\ e.probed = stack[d - 1].probed /\ e.rest = stack[d - 1].rest /\ e.max = m
 <2>1. d - 1 \in 1 .. d /\ d - 1 \in 1 .. d - 1 BY <1>5
 <2>2. stack[d - 1] \in ScanFrame BY <1>2, <2>1
 <2> QED BY <2>1, <2>2 DEF ScanFrame, BusAt
<1>13. stack' = [Front(stack) EXCEPT ![Len(stack) - 1] = e] /\ stack \in Seq(ScanFrame) /\ Len(stack) = d
 <2>1. stack \in Seq(ScanFrame) /\ Len(stack) = d BY <1>1 DEF ScanInv, ScanFrames, Depth
 <2>2. Front(stack)[d - 1] = stack[d - 1] BY <1>5, <2>1 DEF Front
 <2> QED BY <1>3, <2>1, <2>2
<1> HIDE DEF e
<1>14. /\ stack' \in Seq(ScanFrame) /\ Depth' = d - 1 /\ stack'[d - 1] = e
       /\ \A i \in 1 .. d - 2 : stack'[i] = stack[i]
 <2>1. Len(stack) >= 2 BY <1>5, <1>13
 <2>2. /\ stack' \in Seq(ScanFrame) /\ Len(stack') = Len(stack) - 1 /\ stack'[Len(stack) - 1] = e
       /\ \A i \in 1 .. Len(stack) - 2 : stack'[i] = stack[i]
  <3>1. /\ Front(stack) \in Seq(ScanFrame) /\ Len(Front(stack)) = d - 1
        /\ \A i \in 1 .. d - 1 : Front(stack)[i] = stack[i]
    BY <1>13, <2>1, FrontFacts
  <3>2. PICK r \in Seq(ScanFrame) : r = Front(stack) BY <3>1
  <3>3. stack' = [r EXCEPT ![Len(r)] = e] /\ Len(r) = d - 1 BY <1>13, <3>1, <3>2
  <3>4. /\ stack' \in Seq(ScanFrame) /\ Len(stack') = Len(r) /\ stack'[Len(r)] = e
        /\ \A i \in 1 .. Len(r) - 1 : stack'[i] = r[i]
    BY <1>5, <1>12, <3>3, Replaced
  <3> QED BY <1>13, <3>1, <3>2, <3>3, <3>4
 <2> QED BY <1>13, <2>2 DEF Depth
<1>15. \A i \in 1 .. d - 1 : BusAt(i)' = BusAt(i) /\ i \in 1 .. d
 <2> SUFFICES ASSUME NEW i \in 1 .. d - 1 PROVE BusAt(i)' = BusAt(i) /\ i \in 1 .. d OBVIOUS
 <2>1. CASE i = d - 1 BY <1>12, <1>14, <2>1 DEF BusAt
 <2>2. CASE i # d - 1
  <3>1. i \in 1 .. d - 2 BY <2>2
  <3> QED BY <1>14, <3>1 DEF BusAt
 <2> QED BY <2>1, <2>2
<1>16. Line' BY <1>1, <1>3, <1>4, <1>5, <1>14, <1>15, LinePopped
<1>17. ASSUME NEW i \in 1 .. d - 1
       PROVE  stack'[i].probed /\ Searched(BusAt(i), stack[i])' /\ stack'[i].rest = stack[i].rest
              /\ \A f \in stack[i].rest : BusAt(i + 1) < f
 <2>1. /\ stack[i].probed /\ \A f \in stack[i].rest : BusAt(i + 1) < f
   BY <1>1 DEF ScanInv, ScanFrames
 <2>2. Searched(BusAt(i), stack[i])
  <3>1. i \in 1 .. Depth BY <1>1, <1>15
  <3> QED BY <2>1, <3>1 DEF ScanInv, ScanFrames
 <2>3. BusAt(i)' = BusAt(i) /\ BusAt(i) \in Buses BY <1>2, <1>15
 <2>4. CASE i # d - 1
  <3>1. stack'[i] = stack[i]
   <4>1. i \in 1 .. d - 2 BY <2>4
   <4> QED BY <1>14, <4>1
  <3> QED BY <1>3, <1>10, <2>1, <2>2, <2>3, <3>1 DEF Searched
 <2>5. CASE i = d - 1
  <3>1. t \in On(BusAt(i)) /\ i + 1 = d
   <4>1. BusAt(i + 1) \in children[BusAt(i)] /\ i + 1 = d BY <1>1, <1>4, <2>5 DEF Line
   <4> QED BY <1>2, <2>3, <4>1 DEF NumberInv
  <3>2. number[t] # 0 /\ \A f \in stack[i].rest : t < f BY <1>2, <1>6, <2>1, <3>1
  <3>3. stack'[i].probed /\ stack'[i].rest = stack[i].rest BY <1>12, <1>14, <2>1, <2>5
  <3> QED BY <1>3, <1>10, <2>1, <2>2, <2>3, <3>1, <3>2, <3>3 DEF Searched
 <2> QED BY <2>4, <2>5
<1>18. ScanFrames'
 <2>1. \A i \in 1 .. Depth' - 1 : stack'[i].probed /\ \A f \in stack'[i].rest : BusAt(i + 1)' < f
  <3> SUFFICES ASSUME NEW i \in 1 .. Depth' - 1
               PROVE  stack'[i].probed /\ \A f \in stack'[i].rest : BusAt(i + 1)' < f
    OBVIOUS
  <3>1. i \in 1 .. d - 1 /\ i + 1 \in 1 .. d - 1 BY <1>14
  <3> QED BY <1>15, <1>17, <3>1
 <2> QED BY <1>14, <1>16, <1>17, <2>1 DEF ScanFrames
<1>19. Explored(t)' BY <1>1, <1>3, <1>8, BusExplored
<1>20. \A x \in Buses : OnStack(x)' <=> OnStack(x) /\ x # t
 <2> SUFFICES ASSUME NEW x \in Buses PROVE OnStack(x)' <=> OnStack(x) /\ x # t OBVIOUS
 <2>1. \A i, j \in 1 .. d : i # j => BusAt(i) # BusAt(j) BY <1>1, <1>2, <1>4, LineFacts
 <2>2. \A i \in 1 .. d - 1 : BusAt(i) # t
  <3>1. \A i \in 1 .. d - 1 : i \in 1 .. d /\ i # d OBVIOUS
  <3> QED BY <1>2, <2>1, <3>1
 <2>3. \A i \in 1 .. d : i = d \/ i \in 1 .. d - 1 OBVIOUS
 <2> QED BY <1>1, <1>2, <1>14, <1>15, <2>2, <2>3 DEF OnStack
<1>21. ASSUME NEW x \in Scanned PROVE OnStack(x)' \/ Explored(x)'
 <2>1. x \in Buses BY BusFacts DEF Scanned
 <2>2. CASE x = t BY <1>19, <2>2
 <2>3. CASE x # t /\ OnStack(x) BY <1>20, <2>1, <2>3
 <2>4. CASE x # t /\ ~OnStack(x)
  <3>1. Explored(x) /\ subordinate'[x] = subordinate[x] BY <1>8, <2>1, <2>4 DEF ScanInv
  <3>2. Behind(x)' = Behind(x) BY <1>3, <1>10 DEF Behind
  <3> QED BY <1>3, <1>10, <2>1, <3>1, <3>2 DEF Explored
 <2> QED BY <2>2, <2>3, <2>4
<1>22. Highest' = m
 <2>1. Top' = e BY <1>14 DEF Top, Depth
 <2>2. e.probed BY <1>12, <1>14, <1>17
 <2> QED BY <1>12, <2>1, <2>2 DEF Highest
<1>23. ASSUME NEW x \in Fns, OnStack(x)'
       PROVE  /\ subordinate'[x] = LastBus
              /\ \A c \in Fns : number[c] >= number[x] => x \in path[c]
 <2>1. x \in Buses /\ x # t /\ OnStack(x) BY <1>20, <1>23, BusFacts
 <2> QED BY <1>8, <2>1 DEF ScanInv
<1>24. /\ \E b \in Scanned : number[b] = m
       /\ Cardinality({b \in Fns : number[b] # 0}) = m
       /\ \A b \in Buses : b \notin Scanned => devices[b] = {}
  BY <1>7 DEF ScanInv
<1> QED BY <1>3, <1>7, <1>10, <1>11, <1>18, <1>21, <1>22, <1>23, <1>24 DEF ScanInv
-----------------------------------------------------------------------------

\* When the first bus has been gone through, all have been.
LEMMA DoneFound == MachineInv /\ NumberInv /\ ScanInv /\ ScanDone => NumberInv' /\ FoundInv'
<1> SUFFICES ASSUME MachineInv, NumberInv, ScanInv, ScanDone PROVE NumberInv' /\ FoundInv' OBVIOUS
<1>1. PICK m \in 0 .. LastBus : m = Top.max
 <2>1. Top \in ScanFrame BY ScanTop DEF ScanInv
 <2> QED BY <2>1, Constants DEF ScanFrame
<1>2. /\ Top.probed /\ Top.rest = {} /\ Top.bus = Root /\ subordinate' = [subordinate EXCEPT ![Root] = m]
      /\ UNCHANGED <<on, kind, bars, path, numbers, number, children, devices>>
  BY <1>1 DEF ScanDone, machine, hardware
<1>3. /\ subordinate' \in [Buses -> 0 .. LastBus] /\ subordinate'[Root] = m
      /\ \A x \in Fns : subordinate'[x] = subordinate[x]
  BY <1>2, BusFacts DEF NumberInv
<1>4. Scanned' = Scanned /\ \A x \in Buses : On(x)' = On(x) BY <1>2 DEF Scanned, On
<1>5. NumberInv'
 <2>1. /\ number \in [Buses -> 0 .. N] /\ number[Root] = 0
       /\ numbers \in [Fns -> [secondary : 0 .. LastBus, subordinate : 0 .. LastBus]]
       /\ \A b, c \in Fns : number[b] = number[c] /\ number[b] # 0 => b = c
       /\ children = [b \in Buses |-> {c \in On(b) : number[c] # 0}]
       /\ devices \in [Buses -> SUBSET Fns] /\ \A b \in Buses : devices[b] \subseteq On(b)
   BY DEF NumberInv
 <2>2. \A b \in Fns : number[b] = 0 => numbers'[b] = Unnumbered \/ FirstBridge(b)'
   BY <1>2 DEF NumberInv, FirstBridge
 <2>3. children' = [b \in Buses |-> {c \in On(b)' : number'[c] # 0}] BY <1>2, <1>4, <2>1
 <2>4. ASSUME NEW b \in Fns, number[b] # 0
       PROVE  /\ kind[b] = "bridge" /\ on[b] \in Scanned
              /\ numbers[b] = [secondary |-> number[b], subordinate |-> subordinate'[b]]
              /\ \A a \in path[b] : number[a] # 0 /\ number[a] <= number[b] /\ number[b] <= subordinate'[a]
  <3>1. path[b] \subseteq Fns BY PathFacts
  <3>2. /\ kind[b] = "bridge" /\ on[b] \in Scanned
        /\ numbers[b] = [secondary |-> number[b], subordinate |-> subordinate[b]]
        /\ \A a \in path[b] : number[a] # 0 /\ number[a] <= number[b] /\ number[b] <= subordinate[a]
    BY <2>4 DEF NumberInv
  <3> QED BY <1>3, <3>1, <3>2
 <2> QED BY <1>2, <1>3, <1>4, <2>1, <2>2, <2>3, <2>4 DEF NumberInv
<1>6. /\ Line /\ Depth \in Nat /\ BusAt(Depth) = Root /\ \A i \in 1 .. Depth : BusAt(i) \in Buses
  BY <1>2, ScanTop DEF ScanInv, ScanFrames
<1>7. Depth = 1 /\ BusAt(1) = Root BY <1>6, LineFacts
<1>8. Explored(Root)' BY <1>1, <1>2, <1>3, BusFacts, BusExplored
<1>9. ASSUME NEW x \in Scanned PROVE Explored(x)'
 <2>1. CASE x = Root BY <1>8, <2>1
 <2>2. CASE x # Root
  <3>1. x \in Fns /\ x \in Buses BY <2>2, BusFacts DEF Scanned
  <3>2. ~OnStack(x) BY <1>7, <2>2 DEF OnStack
  <3>3. Explored(x) /\ subordinate'[x] = subordinate[x] BY <1>3, <3>1, <3>2 DEF ScanInv
  <3>4. Behind(x)' = Behind(x) BY <1>2, <1>4 DEF Behind
  <3> QED BY <1>2, <1>4, <3>1, <3>3, <3>4 DEF Explored
 <2> QED BY <2>1, <2>2
<1> QED BY <1>2, <1>4, <1>5, <1>9 DEF FoundInv, ScanInv
-----------------------------------------------------------------------------
\* An unsigned long holds what is small enough.
LEMMA UlongIs ==
  ASSUME NEW v \in Int
  PROVE  Ulong(v) \in 0 .. Space - 1 /\ (0 <= v /\ v < Space => Ulong(v) = v)
<1>1. Space \in Nat \ {0} BY Constants
<1> QED BY <1>1 DEF Ulong

\* What windows are aligned to.
LEMMA GranularityIs ==
  ASSUME NEW p \in Spaces
  PROVE  Granularity(p) \in Nat \ {0, 1} /\ (p = "io" => Granularity(p) = IoBridgeAlign)
BY Constants DEF Granularity, Spaces

\* An address register.
LEMMA RegisterFacts ==
  ASSUME MachineInv, NEW r \in Registers
  PROVE  /\ r.fn \in Fns /\ SizeOf(r) \in Nat \ {0} /\ SpaceOf(r) \in Spaces
         /\ bars[r.fn][r.i] \in Sizes /\ bars[r.fn][r.i].size = SizeOf(r) /\ bars[r.fn][r.i].space = SpaceOf(r)
<1>1. r.fn \in Fns /\ r.i \in DOMAIN bars[r.fn] /\ bars[r.fn] \in BarSets
  BY DEF Registers, MachineInv
<1>2. PICK k \in 0 .. 6 : bars[r.fn] \in [1 .. k -> [space : Spaces, size : Nat \ {0}]]
  BY <1>1, PciAssumption
<1>3. bars[r.fn][r.i] \in [space : Spaces, size : Nat \ {0}] BY <1>1, <1>2
<1>4. bars[r.fn][r.i] \in Sizes BY <1>1 DEF Sizes
<1> QED BY <1>1, <1>3, <1>4 DEF SizeOf, SpaceOf

\* An address register that a bus needs addresses for,
LEMMA NeedsFacts ==
  ASSUME MachineInv, NumberInv, NEW b \in Buses, NEW p, NEW r \in Needs(b, p)
  PROVE  r \in Registers /\ r.fn \in devices[b] /\ r.fn \in Fns /\ on[r.fn] = b /\ SpaceOf(r) = p
BY DEF Needs, NumberInv, On

\* and a bridge that has a bus behind it.
LEMMA ChildFacts ==
  ASSUME MachineInv, NumberInv, NEW b \in Buses, NEW c \in children[b]
  PROVE  c \in Fns /\ c \in Buses /\ on[c] = b /\ number[c] # 0 /\ c \in Scanned /\ c # Root
BY BusFacts DEF NumberInv, On, Scanned

\* The frame of the walk that is worked on.
LEMMA WalkTop ==
  ASSUME WalkFrames
  PROVE  /\ Depth \in Nat /\ Depth >= 1 /\ Depth \in 1 .. Depth /\ Top = stack[Depth] /\ Top.bus = BusAt(Depth)
         /\ Top \in WalkFrame
         /\ Top.bus \in Scanned /\ Top.bus \in Buses /\ Top.used \in Nat /\ Top.used < Space
         /\ Top.rest \subseteq children[Top.bus] /\ Top.todo \subseteq Needs(Top.bus, phase)
         /\ \A i \in 1 .. Depth : /\ BusAt(i) \in Buses /\ BusAt(i) \in Scanned /\ stack[i].used \in Nat
<1>1. Depth \in Nat /\ Depth >= 1 BY DEF WalkFrames, Line, Depth
<1>2. \A i \in 1 .. Depth : stack[i] \in WalkFrame BY <1>1 DEF WalkFrames, Depth
<1>3. \A i \in 1 .. Depth : BusAt(i) \in Buses /\ stack[i].used \in Nat /\ stack[i].used < Space
  BY <1>2, Constants DEF BusAt, WalkFrame
<1>4. \A i \in 1 .. Depth : BusAt(i) \in Scanned BY DEF WalkFrames, Line
<1>5. Depth \in 1 .. Depth BY <1>1
<1>6. stack[Depth].rest \subseteq children[BusAt(Depth)] /\ stack[Depth].todo \subseteq Needs(BusAt(Depth), phase)
  BY <1>5 DEF WalkFrames
<1> QED BY <1>1, <1>2, <1>3, <1>4, <1>5, <1>6, Constants DEF Top, Depth, BusAt, WalkFrame
-----------------------------------------------------------------------------
\* What is laid out stays so while what it consists of does.

\* What lies apart does so still while it has the same addresses;
LEMMA LaidStays ==
  ASSUME NEW p, NEW C, NEW R, NEW lo, NEW hi, Laid(p, C, R, lo, hi), UNCHANGED bars,
         \A c \in C : limit'[c][p] = limit[c][p] /\ base'[c][p] = base[c][p],
         \A r \in R : address'[r] = address[r] /\ (Bit(p) \in command[r.fn] => Bit(p) \in command'[r.fn])
  PROVE  Laid(p, C, R, lo, hi)'
BY DEF Laid, Settled, SizeOf

\* so does what a call has laid out,
LEMMA FrameStays ==
  ASSUME NEW p \in Spaces, NEW b \in Buses, NEW f, NEW k, FrameLaid(p, b, f, k),
         UNCHANGED <<bars, children, devices>>,
         limit'[b][p] = limit[b][p], base'[b][p] = base[b][p],
         \A c \in children[b] \ (f.rest \cup k) : limit'[c][p] = limit[c][p] /\ base'[c][p] = base[c][p],
         \A r \in Needs(b, p) \ f.todo : /\ address'[r] = address[r]
                                         /\ Bit(p) \in command[r.fn] => Bit(p) \in command'[r.fn]
  PROVE  FrameLaid(p, b, f, k)'
<1>1. PICK C, R, lo : C = children[b] \ (f.rest \cup k) /\ R = Needs(b, p) \ f.todo /\ lo = base[b][p]
  OBVIOUS
<1>2. Laid(p, C, R, lo, f.used) BY <1>1 DEF FrameLaid
<1>3. Laid(p, C, R, lo, f.used)' BY <1>1, <1>2, LaidStays
<1>4. Needs(b, p)' = Needs(b, p) BY DEF Needs, SpaceOf, Registers
<1>5. C = (children[b] \ (f.rest \cup k))' /\ R = (Needs(b, p) \ f.todo)' /\ lo = base[b][p]'
  BY <1>1, <1>4
<1> QED BY <1>3, <1>5 DEF FrameLaid

\* what there is on a bus that is complete,
LEMMA CompleteStays ==
  ASSUME NEW p \in Spaces, NEW b \in Buses, Complete(b, p), UNCHANGED <<bars, children, devices>>,
         limit'[b][p] = limit[b][p], base'[b][p] = base[b][p],
         \A c \in children[b] : limit'[c][p] = limit[c][p] /\ base'[c][p] = base[c][p],
         \A r \in Needs(b, p) : /\ address'[r] = address[r]
                                /\ Bit(p) \in command[r.fn] => Bit(p) \in command'[r.fn]
  PROVE  Complete(b, p)'
<1>1. PICK C, R, lo, hi : C = children[b] /\ R = Needs(b, p) /\ lo = base[b][p] /\ hi = limit[b][p] + 1
  OBVIOUS
<1>2. Laid(p, C, R, lo, hi) BY <1>1 DEF Complete
<1>3. Laid(p, C, R, lo, hi)' BY <1>1, <1>2, LaidStays
<1>4. Needs(b, p)' = Needs(b, p) BY DEF Needs, SpaceOf, Registers
<1>5. C = children[b]' /\ R = Needs(b, p)' /\ lo = base[b][p]' /\ hi = (limit[b][p] + 1)'
  BY <1>1, <1>4
<1> QED BY <1>3, <1>5 DEF Complete

\* and a whole space that has been given out.
LEMMA GivenStays ==
  ASSUME NEW p \in Spaces, Given(p), UNCHANGED <<number, bars, children, devices>>,
         \A b \in Buses : children[b] \subseteq Buses,
         \A b \in Buses : limit'[b][p] = limit[b][p] /\ base'[b][p] = base[b][p],
         \A b \in Buses : \A r \in Needs(b, p) : /\ address'[r] = address[r]
                                                 /\ Bit(p) \in command[r.fn] => Bit(p) \in command'[r.fn]
  PROVE  Given(p)'
<1>1. Scanned' = Scanned /\ \A b \in Scanned : b \in Buses BY BusFacts DEF Scanned
<1>2. ASSUME NEW b \in Scanned PROVE limit'[b][p] # 0 /\ Complete(b, p)'
 <2>1. b \in Buses /\ limit[b][p] # 0 /\ Complete(b, p) BY <1>1 DEF Given
 <2> QED BY <2>1, CompleteStays
<1> QED BY <1>1, <1>2 DEF Given

\* What lies below one address lies below every higher one.
LEMMA LaidUpTo ==
  ASSUME MachineInv, ResourceTypes, NEW p \in Spaces, NEW C \in SUBSET Buses, NEW R \in SUBSET Registers,
         NEW lo, NEW hi \in Int, NEW top \in Int, hi <= top, Laid(p, C, R, lo, hi)
  PROVE  Laid(p, C, R, lo, top)
<1>1. \A c \in C : limit[c][p] \in Int BY DEF ResourceTypes
<1>2. \A r \in R : address[r] \in Int /\ SizeOf(r) \in Int BY RegisterFacts DEF ResourceTypes
<1> QED BY <1>1, <1>2 DEF Laid
-----------------------------------------------------------------------------
\* Nothing that has been found out about the buses changes any more.
LEMMA FoundStays ==
  ASSUME MachineInv, NumberInv, FoundInv, UNCHANGED <<on, kind, bars, path, numbers, tree>>
  PROVE  MachineInv' /\ NumberInv' /\ FoundInv'
<1>1. UNCHANGED <<number, subordinate, children, devices>> BY DEF tree
<1>2. MachineInv' BY MachineStays DEF machine
<1>3. NumberInv'
 <2>1. devices' \in [Buses -> SUBSET Fns] /\ \A b \in Buses : devices'[b] \subseteq On(b)
   BY <1>1 DEF NumberInv
 <2> QED BY <1>1, <2>1, NumbersStay
<1>4. Scanned' = Scanned /\ \A b \in Scanned : b \in Buses BY <1>1, BusFacts DEF Scanned
<1>5. \A b \in Scanned : Explored(b)' BY <1>1, <1>4, ExploredStays DEF FoundInv
<1> QED BY <1>1, <1>2, <1>3, <1>4, <1>5 DEF FoundInv

\* What does not change while a space is given out.
LEMMA Rigid ==
  ASSUME UNCHANGED <<machine, hardware, tree>>
  PROVE  /\ UNCHANGED <<on, kind, bars, path, number, subordinate, children, devices, numbers, windows, bar, cmd>>
         /\ Registers' = Registers /\ Scanned' = Scanned /\ WalkFrame' = WalkFrame
         /\ \A r \in Registers : SizeOf(r)' = SizeOf(r) /\ SpaceOf(r)' = SpaceOf(r)
         /\ \A b, p : Needs(b, p)' = Needs(b, p)
BY DEF machine, hardware, tree, Registers, Scanned, WalkFrame, Needs, SizeOf, SpaceOf

\* A bridge that is still to be gone behind has got nothing yet.
LEMMA NotYet ==
  ASSUME MachineInv, NumberInv, WalkFrames, WalkInv, NEW b \in Top.rest
  PROVE  limit[b][phase] = 0
<1> SUFFICES ASSUME limit[b][phase] # 0 PROVE FALSE OBVIOUS
<1>1. /\ Depth \in Nat /\ Depth >= 1 /\ Depth \in 1 .. Depth /\ Top = stack[Depth] /\ Top.bus = BusAt(Depth)
      /\ Top.bus \in Buses /\ Top.rest \subseteq children[Top.bus]
      /\ \A i \in 1 .. Depth : BusAt(i) \in Buses
  BY WalkTop
<1>2. b \in Fns /\ on[b] = Top.bus BY <1>1, ChildFacts
<1>3. limit[Top.bus][phase] = 0 BY <1>1 DEF WalkInv, FrameLaid
<1>4. PICK i \in 1 .. Depth : BusAt(i) = on[b] /\ b \notin stack[i].rest \cup Called(i)
  BY <1>2, <1>3 DEF WalkInv
<1>5. i = Depth BY <1>1, <1>2, <1>4, LineFacts DEF WalkFrames
<1> QED BY <1>1, <1>4, <1>5
-----------------------------------------------------------------------------

\* Going behind a bridge keeps the invariants of the walk: its window starts where the
\* last one of the bus ended, which is aligned.
LEMMA DescendWalks ==
  ASSUME MachineInv, NumberInv, ResourceTypes, WalkFrames, ~wrapped => WalkInv, phase \in Spaces, Descend
  PROVE  ResourceTypes' /\ WalkFrames' /\ (~wrapped' => WalkInv')
<1>1. PICK b \in Top.rest : /\ base' = [base EXCEPT ![b][phase] = Top.used]
                            /\ stack' = Calls(Frame(b, phase, Top.used))
  BY DEF Descend
<1>2. PICK t \in Buses, d \in Nat, u \in 0 .. Space - 1, p \in Spaces :
        t = Top.bus /\ d = Depth /\ u = Top.used /\ p = phase
 <2>1. Top \in WalkFrame /\ Top.bus \in Buses /\ Depth \in Nat BY WalkTop
 <2>2. Top.used \in 0 .. Space - 1 BY <2>1 DEF WalkFrame
 <2> QED BY <2>1, <2>2
<1>3. /\ d >= 1 /\ d \in 1 .. d /\ Top = stack[d] /\ t = BusAt(d) /\ Top \in WalkFrame
      /\ Top.rest \subseteq children[t] /\ Top.todo \subseteq Needs(t, p)
      /\ \A i \in 1 .. d : BusAt(i) \in Buses
  BY <1>2, WalkTop
<1>4. UNCHANGED <<machine, hardware, tree, phase, limit, address, command>> BY DEF Descend
<1>5. /\ UNCHANGED <<on, kind, bars, path, number, subordinate, children, devices, numbers, windows, bar, cmd>>
      /\ Registers' = Registers /\ Scanned' = Scanned /\ WalkFrame' = WalkFrame
      /\ \A x, q : Needs(x, q)' = Needs(x, q)
  BY <1>4, Rigid
<1>6. b \in Fns /\ b \in Buses /\ on[b] = t /\ b \in Scanned BY <1>3, ChildFacts
<1>7. ResourceTypes'
 <2>1. base' \in [Buses -> [Spaces -> 0 .. Space - 1]] BY <1>1, <1>2, <1>6 DEF ResourceTypes
 <2>2. wrapped' \in BOOLEAN BY DEF Descend, ResourceTypes
 <2> QED BY <1>4, <1>5, <2>1, <2>2 DEF ResourceTypes
<1>8. PICK e \in WalkFrame : /\ e = [Top EXCEPT !.rest = @ \ {b}]
                             /\ e.bus = t /\ e.used = u /\ e.rest = Top.rest \ {b} /\ e.todo = Top.todo
 <2> DEFINE x == [Top EXCEPT !.rest = @ \ {b}]
 <2>1. /\ x \in WalkFrame /\ x.bus = t /\ x.used = u /\ x.rest = Top.rest \ {b} /\ x.todo = Top.todo
   BY <1>2, <1>3 DEF WalkFrame
 <2> QED BY <2>1
<1>9. PICK f \in WalkFrame : /\ f = Frame(b, p, u)
                             /\ f.bus = b /\ f.used = u /\ f.rest = children[b] /\ f.todo = Needs(b, p)
 <2>1. children[b] \in SUBSET Fns BY <1>6, ChildFacts
 <2>2. Needs(b, p) \in SUBSET Registers BY DEF Needs
 <2> DEFINE x == Frame(b, p, u)
 <2>3. x \in WalkFrame /\ x.bus = b /\ x.used = u /\ x.rest = children[b] /\ x.todo = Needs(b, p)
   BY <1>6, <2>1, <2>2 DEF Frame, WalkFrame
 <2> QED BY <2>3
<1>10. stack' = Append([stack EXCEPT ![Len(stack)] = e], f) /\ stack \in Seq(WalkFrame) /\ Len(stack) = d
  BY <1>1, <1>2, <1>3, <1>8, <1>9 DEF Calls, Top, Depth, WalkFrames, Frame
<1>11. /\ stack' \in Seq(WalkFrame) /\ Depth' = d + 1 /\ stack'[d + 1] = f /\ stack'[d] = e
       /\ \A i \in 1 .. d - 1 : stack'[i] = stack[i]
 <2>1. Len(stack) >= 1 BY <1>3, <1>10
 <2> QED BY <1>8, <1>9, <1>10, <2>1, Pushed DEF Depth
<1>12. (\A i \in 1 .. d : BusAt(i)' = BusAt(i)) /\ BusAt(d + 1)' = b
 <2>1. \A i \in 1 .. d - 1 : BusAt(i)' = BusAt(i) BY <1>11 DEF BusAt
 <2>2. BusAt(d)' = BusAt(d) /\ BusAt(d + 1)' = b BY <1>3, <1>8, <1>9, <1>11 DEF BusAt
 <2>3. \A i \in 1 .. d : i \in 1 .. d - 1 \/ i = d OBVIOUS
 <2> QED BY <2>1, <2>2, <2>3
<1>13. Line'
 <2>1. Line BY DEF WalkFrames
 <2> QED BY <1>2, <1>3, <1>5, <1>6, <1>11, <1>12, <2>1, LinePushed
<1>14. ASSUME NEW i \in 1 .. d + 1
       PROVE  /\ stack'[i].rest \subseteq children[BusAt(i)'] /\ stack'[i].todo \subseteq Needs(BusAt(i)', p)
              /\ i < d + 1 \/ stack'[i].rest # {} => stack'[i].todo = Needs(BusAt(i)', p)
 <2>1. CASE i = d + 1 BY <1>9, <1>11, <1>12, <2>1
 <2>2. CASE i = d
  <3>1. Top.todo = Needs(t, p) BY <1>2, <1>3 DEF WalkFrames
  <3> QED BY <1>3, <1>8, <1>11, <1>12, <2>2, <3>1
 <2>3. CASE i < d
  <3>1. i \in 1 .. d - 1 /\ i \in 1 .. d /\ i < Depth BY <1>2, <2>3
  <3>2. stack'[i] = stack[i] /\ BusAt(i)' = BusAt(i) BY <1>11, <1>12, <3>1
  <3> QED BY <1>2, <3>1, <3>2 DEF WalkFrames
 <2> QED BY <2>1, <2>2, <2>3
<1>15. ASSUME NEW i \in 1 .. d PROVE BusAt(i + 1)' \notin stack'[i].rest
 <2>1. CASE i = d BY <1>8, <1>11, <1>12, <2>1
 <2>2. CASE i # d
  <3>1. i \in 1 .. d - 1 /\ i + 1 \in 1 .. d BY <2>2
  <3> QED BY <1>2, <1>11, <1>12, <3>1 DEF WalkFrames
 <2> QED BY <2>1, <2>2
<1>16. WalkFrames' BY <1>2, <1>4, <1>5, <1>11, <1>13, <1>14, <1>15 DEF WalkFrames
\* WalkInv
<1>17. ASSUME ~wrapped' PROVE WalkInv'
 <2>1. ~wrapped /\ WalkInv /\ (p = "io" => u < IoSpace)
  <3>1. wrapped' = (wrapped \/ (phase = "io" /\ Top.used >= IoSpace)) BY DEF Descend
  <3>2. ~wrapped /\ ~(phase = "io" /\ Top.used >= IoSpace) BY <1>17, <3>1
  <3>3. p = "io" => ~(u >= IoSpace) BY <1>2, <3>2
  <3>4. u \in Nat /\ IoSpace \in Nat BY Constants
  <3> QED BY <3>2, <3>3, <3>4
 <2>2. limit[b][p] = 0 BY <1>2, <2>1, NotYet
 <2>3. FrameLaid(p, t, Top, {})
  <3>1. Called(d) = {} BY <1>2 DEF Called
  <3> QED BY <1>2, <1>3, <2>1, <3>1 DEF WalkInv
 <2>4. base \in [Buses -> [Spaces -> 0 .. Space - 1]] /\ limit \in [Buses -> [Spaces -> 0 .. Space - 1]]
   BY DEF ResourceTypes
 <2>5. /\ base'[b][p] = u /\ \A x \in Buses : x # b => base'[x] = base[x]
       /\ \A q \in Spaces : q # p => base'[b][q] = base[b][q]
       /\ UNCHANGED <<limit, address, command, phase>>
   BY <1>1, <1>2, <1>4, <1>6, <2>4
 <2>6. Top.rest # {} /\ b \in Top.rest BY <1>1
 <2>7. u > 0 /\ u % Granularity(p) = 0 /\ base[t][p] <= u /\ (p = "io" => u % IoAlign = 0)
  <3>1. base[t][p] \in Nat BY <2>4, Constants
  <3> QED BY <1>2, <2>3, <2>6, <3>1 DEF FrameLaid
 <2>8. \A x \in Buses : children[x] \subseteq Buses BY ChildFacts
 <2>9. ASSUME NEW i \in 1 .. d - 1
       PROVE  FrameLaid(phase, BusAt(i), stack[i], Called(i))' /\ stack'[i].used <= base'[BusAt(i + 1)'][p]
  <3>1. i \in 1 .. d /\ i \in 1 .. Depth /\ i + 1 \in 1 .. d /\ i \in 1 .. Depth - 1 /\ i < d /\ i < d + 1
    BY <1>2
  <3>2. PICK x \in Buses, g \in {stack[i]}, k \in {Called(i)} : x = BusAt(i) BY <1>3, <3>1
  <3>3. FrameLaid(p, x, g, k) BY <1>2, <2>1, <3>1, <3>2 DEF WalkInv
  <3>4. x # t /\ BusAt(i + 1) # b /\ x # b /\ BusAt(i + 1) \in Buses
   <4>1. Line BY DEF WalkFrames
   <4>2. x # t BY <1>2, <1>3, <3>1, <3>2, <4>1, LineFacts
   <4>3. b # BusAt(i + 1) /\ x # b
    <5>1. BusAt(i + 1) \in children[x] /\ BusAt(i + 1) < b /\ x < b
     <6>1. \A j \in 1 .. d : BusAt(j) < b
      <7> SUFFICES ASSUME NEW j \in 1 .. d PROVE BusAt(j) < b OBVIOUS
      <7>1. j = d \/ BusAt(j) < BusAt(d) BY <1>2, <1>3, <4>1 DEF Line
      <7>2. t < b /\ t \in Nat /\ b \in Nat /\ BusAt(j) \in Nat
       <8>1. BusAt(j) \in Buses /\ t < b BY <1>3, <1>6, PathFacts
       <8> QED BY <1>6, <8>1, BusFacts
      <7> QED BY <1>3, <7>1, <7>2
     <6> QED BY <1>2, <3>1, <3>2, <4>1, <6>1 DEF Line
    <5>2. BusAt(i + 1) \in Nat /\ x \in Nat /\ b \in Nat BY <1>3, <1>6, <3>1, <3>2, BusFacts
    <5> QED BY <5>1, <5>2
   <4> QED BY <1>3, <3>1, <4>2, <4>3
  <3>5. b \notin children[x] BY <1>6, <3>2, <3>4, ChildFacts
  <3>6. FrameLaid(p, x, g, k)' BY <1>5, <2>5, <2>8, <3>3, <3>4, <3>5, FrameStays
  <3>7. x = BusAt(i)' /\ g = stack[i]' /\ k = Called(i)' /\ p = phase'
   <4>1. Called(i) = {BusAt(i + 1)} /\ Called(i)' = {BusAt(i + 1)'}
     BY <1>2, <1>11, <3>1 DEF Called
   <4> QED BY <1>2, <1>11, <1>12, <2>5, <3>1, <3>2, <4>1
  <3>8. stack[i].used <= base[BusAt(i + 1)][p] BY <1>2, <2>1, <3>1 DEF WalkInv
  <3> QED BY <1>11, <1>12, <2>5, <3>1, <3>4, <3>6, <3>7, <3>8
 <2>10. FrameLaid(phase, BusAt(d), stack[d], Called(d))' /\ stack'[d].used <= base'[BusAt(d + 1)'][p]
  <3>1. PICK C, R, lo : /\ C = children[t] \ Top.rest /\ R = Needs(t, p) \ Top.todo /\ lo = base[t][p]
                        /\ C = children[t] \ (Top.rest \cup {})
    OBVIOUS
  <3>2. Laid(p, C, R, lo, u) BY <1>2, <2>3, <3>1 DEF FrameLaid
  <3>3. b \notin C /\ C \subseteq Buses BY <2>6, <2>8, <3>1
  <3>4. Laid(p, C, R, lo, u)' BY <1>5, <2>5, <3>2, <3>3, LaidStays
  <3>5. Called(d)' = {b} BY <1>11, <1>12 DEF Called
  <3>6. t # b BY <1>6, PathFacts, BusFacts
  <3>7. /\ C = children'[t] \ (e.rest \cup {b}) /\ R = Needs(t, p)' \ e.todo /\ lo = base'[t][p]
    BY <1>3, <1>5, <1>8, <2>5, <2>6, <3>1, <3>6
  <3>8. /\ limit'[t][p] = 0 /\ base'[t][p] > 0 /\ base'[t][p] <= e.used /\ base'[t][p] % Granularity(p) = 0
        /\ p = "io" => (t # Root => base'[t][p] < IoSpace) /\ e.used % IoAlign = 0
        /\ e.rest # {} => e.used % Granularity(p) = 0
    BY <1>2, <1>8, <2>3, <2>5, <2>7, <3>6 DEF FrameLaid
  <3>9. FrameLaid(p, t, e, {b})'
   <4>1. e.used = u BY <1>8
   <4> QED BY <3>4, <3>7, <3>8, <4>1 DEF FrameLaid
  <3>10. p = phase' /\ t = BusAt(d)' /\ e = stack[d]' /\ {b} = Called(d)'
    BY <1>2, <1>3, <1>11, <1>12, <2>5, <3>5
  <3>11. u <= base'[b][p] BY <2>5
  <3> QED BY <1>8, <1>11, <1>12, <3>9, <3>10, <3>11
 <2>11. FrameLaid(phase, BusAt(d + 1), stack[d + 1], Called(d + 1))'
  <3>1. FrameLaid(p, b, f, {})'
   <4>1. children'[b] \ (f.rest \cup {}) = {} /\ Needs(b, p)' \ f.todo = {} BY <1>5, <1>9
   <4>2. Laid(p, {}, {}, u, u)' BY DEF Laid
   <4>3. u <= u OBVIOUS
   <4>4. f.used = u /\ base'[b][p] = u /\ limit'[b][p] = 0 BY <1>9, <2>2, <2>5
   <4> QED BY <2>1, <2>7, <4>1, <4>2, <4>3, <4>4 DEF FrameLaid
  <3>2. Called(d + 1)' = {} BY <1>11 DEF Called
  <3> QED BY <1>2, <1>11, <1>12, <2>5, <3>1, <3>2
 <2>12. ASSUME NEW x \in Scanned, limit[x][p] # 0 PROVE Complete(x, p)'
  <3>1. Complete(x, p) /\ x \in Buses /\ x # b
    BY <1>2, <2>1, <2>2, <2>12, BusFacts DEF WalkInv, Scanned
  <3>2. b \notin children[x] BY <2>2, <3>1 DEF Complete, Laid
  <3> QED BY <1>5, <2>5, <2>8, <3>1, <3>2, CompleteStays
 <2>13. ASSUME NEW c \in Fns, limit[c][p] # 0, limit[on[c]][p] = 0
        PROVE  \E i \in 1 .. d + 1 : BusAt(i)' = on[c] /\ c \notin stack'[i].rest \cup Called(i)'
  <3>1. PICK i \in 1 .. d : BusAt(i) = on[c] /\ c \notin stack[i].rest \cup Called(i)
    BY <1>2, <2>1, <2>13 DEF WalkInv
  <3>2. i \in 1 .. d + 1 /\ BusAt(i)' = on[c] BY <1>12, <3>1
  <3>3. CASE i = d
   <4>1. c # b /\ Called(d)' = {b} BY <1>11, <1>12, <2>2, <2>13 DEF Called
   <4>2. c \notin e.rest BY <1>3, <1>8, <3>1, <3>3
   <4> QED BY <1>11, <3>2, <3>3, <4>1, <4>2
  <3>4. CASE i # d
   <4>1. i \in 1 .. d - 1 /\ i + 1 \in 1 .. d /\ i < d /\ i < d + 1 BY <3>4
   <4>2. Called(i)' = Called(i) BY <1>2, <1>11, <1>12, <4>1 DEF Called
   <4> QED BY <1>11, <3>1, <3>2, <4>1, <4>2
  <3> QED BY <3>3, <3>4
 <2>14. \A q \in Spaces : q # p /\ Given(q) => Given(q)'
  <3> SUFFICES ASSUME NEW q \in Spaces, q # p, Given(q) PROVE Given(q)' OBVIOUS
  <3>1. \A x \in Buses : base'[x][q] = base[x][q] BY <2>5
  <3> QED BY <1>5, <2>5, <2>8, <3>1, GivenStays
 <2>15. /\ phase' # "io" => Given("io")'
        /\ phase' = "pref" => Given("mem")' /\ limit'[Root]["mem"] < base'[Root]["pref"]
        /\ phase' # "pref" => Ungiven("pref")'
        /\ phase' = "io" => Ungiven("mem")' /\ base'[Root]["mem"] = MemStart
  <3>1. b # Root /\ base'[Root] = base[Root] BY <1>6, <2>5, BusFacts
  <3>2. Ungiven("mem") = Ungiven("mem")' /\ Ungiven("pref") = Ungiven("pref")'
    BY <2>5 DEF Ungiven
  <3> QED BY <1>2, <2>1, <2>5, <2>14, <3>1, <3>2 DEF WalkInv, Spaces
 <2>16. \A i \in 1 .. d + 1 : FrameLaid(phase, BusAt(i), stack[i], Called(i))'
  <3>1. \A i \in 1 .. d + 1 : i \in 1 .. d - 1 \/ i = d \/ i = d + 1 OBVIOUS
  <3> QED BY <2>9, <2>10, <2>11, <3>1
 <2>17. \A i \in 1 .. d : stack'[i].used <= base'[BusAt(i + 1)'][p]
  <3>1. \A i \in 1 .. d : i \in 1 .. d - 1 \/ i = d OBVIOUS
  <3> QED BY <2>9, <2>10, <3>1
 <2> QED BY <1>2, <1>5, <1>11, <2>5, <2>12, <2>13, <2>15, <2>16, <2>17 DEF WalkInv
<1> QED BY <1>7, <1>16, <1>17
-----------------------------------------------------------------------------
\* Sizes divide what memory is aligned to, or are multiples of it.
LEMMA SizeAlignment ==
  ASSUME MachineInv, NEW r \in Registers
  PROVE  LET align == IF SpaceOf(r) = "io" THEN IoAlign ELSE MemAlign
         IN  align \in Nat \ {0} /\ (SizeOf(r) % align = 0 \/ align % SizeOf(r) = 0)
<1>1. PICK s \in Sizes : s.size = SizeOf(r) /\ s.space = SpaceOf(r) BY RegisterFacts
<1>2. LET align == IF s.space = "io" THEN IoAlign ELSE MemAlign
      IN  s.size % align = 0 \/ align % s.size = 0
  BY <1>1, PciAlignment
<1> QED BY <1>1, <1>2, Constants

\* I/O regions are as small as is asked for.
LEMMA SmallIoSize ==
  ASSUME MachineInv, SmallIo, NEW r \in Registers, SpaceOf(r) = "io"
  PROVE  SizeOf(r) <= IoAlign
BY RegisterFacts DEF SmallIo

\* Where an address register is placed, and how much is taken for it.
LEMMA PlacedIs ==
  ASSUME MachineInv, NEW r \in Registers, NEW p \in Spaces, SpaceOf(r) = p, NEW u \in Nat,
         p = "io" => u % IoAlign = 0
  PROVE  /\ Placed(u, p, SizeOf(r)) \in Nat /\ u <= Placed(u, p, SizeOf(r))
         /\ Taken(p, SizeOf(r)) \in Nat /\ SizeOf(r) <= Taken(p, SizeOf(r))
         /\ p = "io" => (Placed(u, p, SizeOf(r)) + Taken(p, SizeOf(r))) % IoAlign = 0
         /\ (p = "io" => SmallIo) => Placed(u, p, SizeOf(r)) % SizeOf(r) = 0
<1>1. PICK s \in Nat \ {0} : s = SizeOf(r) BY RegisterFacts
<1>2. CASE p = "io"
 <2>1. Placed(u, p, s) = u /\ Taken(p, s) = RoundUp(s, IoAlign) BY <1>2 DEF Placed, Taken
 <2>2. RoundUp(s, IoAlign) \in Nat /\ s <= RoundUp(s, IoAlign) /\ RoundUp(s, IoAlign) % IoAlign = 0
   BY Constants, RoundUpFacts
 <2>3. (u + RoundUp(s, IoAlign)) % IoAlign = 0 BY <1>2, <2>2, Constants, ModAdd
 <2>4. ASSUME SmallIo PROVE u % s = 0
  <3>1. s <= IoAlign /\ IoAlign \in Nat \ {0} BY <1>1, <1>2, <2>4, SmallIoSize, Constants
  <3>2. s % IoAlign = 0 \/ IoAlign % s = 0 BY <1>1, <1>2, SizeAlignment
  <3>3. IoAlign % s = 0
   <4> SUFFICES ASSUME s % IoAlign = 0 PROVE IoAlign % s = 0 BY <3>2
   <4>1. s < IoAlign => s % IoAlign = s BY <3>1, ModSmall
   <4>2. s = IoAlign BY <3>1, <4>1
   <4>3. (1 * s) % s = 0 BY MultipleMod
   <4> QED BY <4>2, <4>3
  <3> QED BY <1>2, <3>1, <3>3, ModChain
 <2> QED BY <1>1, <1>2, <2>1, <2>2, <2>3, <2>4
<1>3. CASE p # "io"
 <2> DEFINE a == RoundUp(s, MemAlign)
            at == RoundUp(u, a)
 <2>1. Placed(u, p, s) = at /\ Taken(p, s) = a BY <1>3 DEF Placed, Taken
 <2>2. a \in Nat /\ s <= a /\ a % MemAlign = 0 /\ MemAlign \in Nat \ {0}
   BY Constants, RoundUpFacts
 <2>3. a \in Nat \ {0} BY <2>2
 <2>4. at \in Nat /\ u <= at /\ at % a = 0 BY <2>3, RoundUpFacts
 <2>5. a % s = 0
  <3>1. s % MemAlign = 0 \/ MemAlign % s = 0 BY <1>1, <1>3, SizeAlignment
  <3>2. CASE s % MemAlign = 0
   <4>1. a = s BY <2>2, <3>2, RoundUpAligned
   <4>2. (1 * s) % s = 0 BY MultipleMod
   <4> QED BY <4>1, <4>2
  <3>3. CASE MemAlign % s = 0 BY <2>2, <3>3, ModChain
  <3> QED BY <3>1, <3>2, <3>3
 <2>6. at % s = 0 BY <2>3, <2>4, <2>5, ModChain
 <2> QED BY <1>1, <1>3, <2>1, <2>2, <2>4, <2>6
<1> QED BY <1>2, <1>3
-----------------------------------------------------------------------------

\* One more address register behind what has been laid out.
LEMMA LaidRegister ==
  ASSUME MachineInv, ResourceTypes, NEW p \in Spaces, NEW C \in SUBSET Buses, NEW R \in SUBSET Registers,
         NEW lo \in Nat, NEW hi \in Nat, Laid(p, C, R, lo, hi), NEW r \in Registers, r \notin R,
         NEW at \in Nat, NEW end \in Nat, lo <= hi, hi <= at, at + SizeOf(r) <= end,
         UNCHANGED <<bars, limit, base>>,
         \A s \in R : address'[s] = address[s] /\ (Bit(p) \in command[s.fn] => Bit(p) \in command'[s.fn]),
         address'[r] = at, Bit(p) \in command'[r.fn], (p = "io" => SmallIo) => at % SizeOf(r) = 0
  PROVE  Laid(p, C, R \cup {r}, lo, end)'
<1>1. Laid(p, C, R, lo, hi)' BY LaidStays
<1>2. \A c \in C : limit'[c][p] \in Nat /\ limit'[c][p] < hi /\ limit'[c][p] # 0 /\ lo <= base'[c][p]
  BY Constants DEF Laid, ResourceTypes
<1>3. \A s \in R \cup {r} : SizeOf(s)' = SizeOf(s) /\ SizeOf(s) \in Nat \ {0}
  BY RegisterFacts DEF SizeOf
<1>4. \A s \in R : address'[s] \in Nat /\ lo <= address'[s] /\ address'[s] + SizeOf(s) <= hi /\ Settled(s, p)'
 <2>1. \A s \in R : address[s] \in Nat BY Constants DEF ResourceTypes
 <2>2. \A s \in R : lo <= address'[s] /\ address'[s] + SizeOf(s)' <= hi /\ Settled(s, p)'
   BY <1>1 DEF Laid
 <2> QED BY <1>3, <2>1, <2>2
<1>5. Settled(r, p)' BY <1>3 DEF Settled, SmallIo, Sizes
<1>6. SizeOf(r) \in Nat \ {0} /\ hi <= at /\ at + SizeOf(r) <= end /\ hi <= end /\ at < end
  BY <1>3
<1>7. \A c \in C : limit'[c][p] # 0 /\ lo <= base'[c][p] /\ limit'[c][p] < end BY <1>2, <1>6
<1>8. \A c, d \in C : c # d => limit'[c][p] < base'[d][p] \/ limit'[d][p] < base'[c][p]
  BY <1>1 DEF Laid
<1>9. ASSUME NEW s \in R \cup {r}
      PROVE  lo <= address'[s] /\ address'[s] + SizeOf(s)' <= end /\ Settled(s, p)'
 <2>1. CASE s = r BY <1>3, <1>5, <1>6, <2>1
 <2>2. CASE s # r
  <3>1. s \in R BY <2>2
  <3>2. /\ address'[s] \in Nat /\ lo <= address'[s] /\ address'[s] + SizeOf(s) <= hi /\ Settled(s, p)'
        /\ SizeOf(s)' = SizeOf(s) /\ SizeOf(s) \in Nat
    BY <1>3, <1>4, <3>1
  <3> QED BY <1>6, <3>2
 <2> QED BY <2>1, <2>2
<1>10. ASSUME NEW s \in R \cup {r}, NEW x \in R \cup {r}, s # x
       PROVE  address'[s] + SizeOf(s)' <= address'[x] \/ address'[x] + SizeOf(x)' <= address'[s]
 <2>1. \A y \in R : address'[y] + SizeOf(y)' <= address'[r]
  <3> SUFFICES ASSUME NEW y \in R PROVE address'[y] + SizeOf(y)' <= address'[r] OBVIOUS
  <3>1. address'[y] \in Nat /\ address'[y] + SizeOf(y) <= hi /\ SizeOf(y)' = SizeOf(y) /\ SizeOf(y) \in Nat
    BY <1>3, <1>4
  <3> QED BY <1>6, <3>1
 <2>2. CASE s = r \/ x = r BY <1>10, <2>1, <2>2
 <2>3. CASE s # r /\ x # r BY <1>1, <1>10, <2>3 DEF Laid
 <2> QED BY <2>2, <2>3
<1>11. ASSUME NEW s \in R \cup {r}, NEW c \in C PROVE limit'[c][p] < address'[s]
 <2>1. CASE s = r BY <1>2, <1>6, <2>1
 <2>2. CASE s # r BY <1>1, <2>2 DEF Laid
 <2> QED BY <2>1, <2>2
<1> QED BY <1>7, <1>8, <1>9, <1>10, <1>11 DEF Laid
-----------------------------------------------------------------------------
\* Giving a register its address keeps them: it is behind everything that there is on
\* the bus, and behind it, and aligned to its size when that can be.
LEMMA PlaceWalks ==
  ASSUME MachineInv, NumberInv, ResourceTypes, WalkFrames, ~wrapped => WalkInv, phase \in Spaces, Place
  PROVE  ResourceTypes' /\ WalkFrames' /\ (~wrapped' => WalkInv')
<1>1. PICK t \in Buses, d \in Nat, u \in 0 .. Space - 1, p \in Spaces :
        t = Top.bus /\ d = Depth /\ u = Top.used /\ p = phase
 <2>1. Top \in WalkFrame /\ Top.bus \in Buses /\ Depth \in Nat BY WalkTop
 <2>2. Top.used \in 0 .. Space - 1 BY <2>1 DEF WalkFrame
 <2> QED BY <2>1, <2>2
<1>2. /\ d >= 1 /\ d \in 1 .. d /\ Top = stack[d] /\ t = BusAt(d) /\ Top \in WalkFrame
      /\ Top.todo \subseteq Needs(t, p) /\ t \in Scanned
      /\ \A i \in 1 .. d : BusAt(i) \in Buses
  BY <1>1, WalkTop
<1>3. PICK r \in Top.todo :
        LET at == Placed(u, p, SizeOf(r))
            end == at + Taken(p, SizeOf(r))
        IN  /\ address' = [address EXCEPT ![r] = Ulong(at)]
            /\ command' = [command EXCEPT ![r.fn] = @ \cup {Bit(p)}]
            /\ stack' = [stack EXCEPT ![Len(stack)].used = Ulong(end), ![Len(stack)].todo = @ \ {r}]
            /\ wrapped' = (wrapped \/ end >= Space)
  BY <1>1 DEF Place
<1>4. Top.rest = {} /\ UNCHANGED <<machine, hardware, tree, phase, base, limit>> BY DEF Place
<1>5. /\ UNCHANGED <<on, kind, bars, path, number, subordinate, children, devices, numbers, windows, bar, cmd>>
      /\ Registers' = Registers /\ Scanned' = Scanned /\ WalkFrame' = WalkFrame
      /\ \A x, q : Needs(x, q)' = Needs(x, q)
  BY <1>4, Rigid
<1>6. r \in Registers /\ r.fn \in Fns /\ on[r.fn] = t /\ SpaceOf(r) = p /\ SizeOf(r) \in Nat \ {0} /\ r \in Needs(t, p)
  BY <1>2, NeedsFacts, RegisterFacts
<1>7. PICK at, end : at = Placed(u, p, SizeOf(r)) /\ end = at + Taken(p, SizeOf(r)) OBVIOUS
<1>8. /\ at \in Int /\ end \in Int /\ u \in Nat
      /\ (p = "io" => u % IoAlign = 0) =>
           /\ at \in Nat /\ end \in Nat /\ u <= at /\ at + SizeOf(r) <= end
           /\ p = "io" => end % IoAlign = 0
           /\ (p = "io" => SmallIo) => at % SizeOf(r) = 0
 <2>1. u \in Nat BY Constants
 <2>2. ASSUME p = "io" => u % IoAlign = 0
       PROVE  /\ at \in Nat /\ end \in Nat /\ u <= at /\ at + SizeOf(r) <= end
              /\ p = "io" => end % IoAlign = 0
              /\ (p = "io" => SmallIo) => at % SizeOf(r) = 0
  <3>1. /\ at \in Nat /\ u <= at
        /\ Taken(p, SizeOf(r)) \in Nat /\ SizeOf(r) <= Taken(p, SizeOf(r))
        /\ p = "io" => end % IoAlign = 0
        /\ (p = "io" => SmallIo) => at % SizeOf(r) = 0
    BY <1>6, <1>7, <2>1, <2>2, PlacedIs
  <3> QED BY <1>6, <1>7, <3>1
 <2>3. at \in Int /\ end \in Int
  <3>1. CASE p = "io" => u % IoAlign = 0 BY <2>2, <3>1
  <3>2. CASE p = "io"
   <4>1. at = u /\ Taken(p, SizeOf(r)) = RoundUp(SizeOf(r), IoAlign)
     BY <1>7, <3>2 DEF Placed, Taken
   <4>2. RoundUp(SizeOf(r), IoAlign) \in Nat BY <1>6, Constants, RoundUpFacts
   <4> QED BY <1>7, <2>1, <4>1, <4>2
  <3> QED BY <3>1, <3>2
 <2> QED BY <2>1, <2>2, <2>3
<1>9. /\ address' = [address EXCEPT ![r] = Ulong(at)]
      /\ command' = [command EXCEPT ![r.fn] = @ \cup {Bit(p)}]
      /\ stack' = [stack EXCEPT ![Len(stack)].used = Ulong(end), ![Len(stack)].todo = @ \ {r}]
      /\ wrapped' = (wrapped \/ end >= Space)
  BY <1>3, <1>7
<1>10. ResourceTypes'
 <2>1. address' \in [Registers -> 0 .. Space - 1] BY <1>6, <1>8, <1>9, UlongIs DEF ResourceTypes
 <2>2. command' \in [Fns -> SUBSET Bits] BY <1>6, <1>9 DEF ResourceTypes, Bits, Bit
 <2>3. wrapped' \in BOOLEAN BY <1>9 DEF ResourceTypes
 <2> QED BY <1>4, <1>5, <2>1, <2>2, <2>3 DEF ResourceTypes
<1>11. PICK e \in WalkFrame : /\ e = [Top EXCEPT !.used = Ulong(end), !.todo = @ \ {r}]
                              /\ e.bus = t /\ e.used = Ulong(end) /\ e.rest = {} /\ e.todo = Top.todo \ {r}
 <2> DEFINE x == [Top EXCEPT !.used = Ulong(end), !.todo = @ \ {r}]
 <2>1. x \in WalkFrame /\ x.bus = t /\ x.used = Ulong(end) /\ x.rest = {} /\ x.todo = Top.todo \ {r}
   BY <1>1, <1>2, <1>4, <1>8, UlongIs DEF WalkFrame
 <2> QED BY <2>1
<1>12. stack' = [stack EXCEPT ![Len(stack)] = e] /\ stack \in Seq(WalkFrame) /\ Len(stack) = d /\ Len(stack) >= 1
 <2>1. stack \in Seq(WalkFrame) /\ Len(stack) = d /\ Len(stack) >= 1
   BY <1>1, <1>2 DEF WalkFrames, Depth
 <2> QED BY <1>2, <1>9, <1>11, <2>1
<1>13. /\ stack' \in Seq(WalkFrame) /\ Depth' = d /\ stack'[d] = e
       /\ \A i \in 1 .. d - 1 : stack'[i] = stack[i]
  BY <1>12, Replaced DEF Depth
<1>14. \A i \in 1 .. d : BusAt(i)' = BusAt(i)
 <2>1. \A i \in 1 .. d - 1 : BusAt(i)' = BusAt(i) BY <1>13 DEF BusAt
 <2>2. BusAt(d)' = BusAt(d) BY <1>2, <1>11, <1>13 DEF BusAt
 <2>3. \A i \in 1 .. d : i \in 1 .. d - 1 \/ i = d OBVIOUS
 <2> QED BY <2>1, <2>2, <2>3
<1>15. Line'
 <2>1. Line BY DEF WalkFrames
 <2> QED BY <1>1, <1>5, <1>13, <1>14, <2>1, LineStays
<1>16. ASSUME NEW i \in 1 .. d
       PROVE  /\ stack'[i].rest \subseteq children[BusAt(i)'] /\ stack'[i].todo \subseteq Needs(BusAt(i)', p)
              /\ i < d \/ stack'[i].rest # {} => stack'[i].todo = Needs(BusAt(i)', p)
 <2>1. CASE i = d
  <3>1. stack'[d].rest = {} /\ stack'[d].todo \subseteq Needs(t, p) /\ BusAt(d)' = t
    BY <1>2, <1>11, <1>13, <1>14
  <3> QED BY <2>1, <3>1
 <2>2. CASE i # d
  <3>1. i \in 1 .. d - 1 BY <2>2
  <3> QED BY <1>1, <1>13, <1>14, <3>1 DEF WalkFrames
 <2> QED BY <2>1, <2>2
<1>17. ASSUME NEW i \in 1 .. d - 1 PROVE BusAt(i + 1)' \notin stack'[i].rest
 <2>1. i + 1 \in 1 .. d OBVIOUS
 <2> QED BY <1>1, <1>13, <1>14, <2>1 DEF WalkFrames
<1>18. WalkFrames' BY <1>1, <1>4, <1>5, <1>13, <1>15, <1>16, <1>17 DEF WalkFrames
\* WalkInv
<1>19. ASSUME ~wrapped' PROVE WalkInv'
 <2>1. ~wrapped /\ WalkInv /\ end < Space
  <3>1. ~wrapped /\ ~(end >= Space) BY <1>9, <1>19
  <3> QED BY <1>8, <3>1, Constants
 <2>2. base \in [Buses -> [Spaces -> 0 .. Space - 1]] /\ limit \in [Buses -> [Spaces -> 0 .. Space - 1]]
   BY DEF ResourceTypes
 <2>3. FrameLaid(p, t, Top, {})
  <3>1. Called(d) = {} BY <1>1 DEF Called
  <3> QED BY <1>1, <1>2, <2>1, <3>1 DEF WalkInv
 <2>4. /\ at \in Nat /\ end \in Nat /\ u <= at /\ at + SizeOf(r) <= end
       /\ p = "io" => end % IoAlign = 0
       /\ (p = "io" => SmallIo) => at % SizeOf(r) = 0
   BY <1>1, <1>8, <2>3 DEF FrameLaid
 <2>5. Ulong(at) = at /\ Ulong(end) = end
  <3>1. at < Space /\ end < Space BY <1>6, <2>1, <2>4, Constants
  <3> QED BY <2>4, <3>1, UlongIs
 <2>6. /\ address'[r] = at /\ \A s \in Registers : s # r => address'[s] = address[s]
       /\ Bit(p) \in command'[r.fn] /\ \A f \in Fns : command[f] \subseteq command'[f]
   BY <1>6, <1>9, <2>5 DEF ResourceTypes
 <2>7. UNCHANGED <<limit, base, phase>> BY <1>4
 <2>8. \A i \in 1 .. d : Called(i)' = Called(i)
  <3> SUFFICES ASSUME NEW i \in 1 .. d PROVE Called(i)' = Called(i) OBVIOUS
  <3>1. i < d => i + 1 \in 1 .. d OBVIOUS
  <3> QED BY <1>1, <1>13, <1>14, <3>1 DEF Called
 <2>9. \A x \in Buses, q \in Spaces : \A s \in Needs(x, q) : s \in Registers /\ s.fn \in Fns /\ on[s.fn] = x /\ SpaceOf(s) = q
   BY NeedsFacts
 <2>10. ASSUME NEW i \in 1 .. d - 1 PROVE FrameLaid(phase, BusAt(i), stack[i], Called(i))'
  <3>1. i \in 1 .. d /\ i < Depth /\ i \in 1 .. Depth BY <1>1
  <3>2. PICK x \in Buses, g \in {stack[i]}, k \in {Called(i)} : x = BusAt(i) BY <1>2, <3>1
  <3>3. FrameLaid(p, x, g, k) BY <1>1, <2>1, <3>1, <3>2 DEF WalkInv
  <3>4. g.todo = Needs(x, p) BY <1>1, <3>1, <3>2 DEF WalkFrames
  <3>5. FrameLaid(p, x, g, k)' BY <1>5, <2>7, <3>3, <3>4, FrameStays
  <3>6. x = BusAt(i)' /\ g = stack[i]' /\ k = Called(i)' /\ p = phase'
    BY <1>1, <1>13, <1>14, <2>7, <2>8, <3>1, <3>2
  <3> QED BY <3>5, <3>6
 <2>11. FrameLaid(phase, BusAt(d), stack[d], Called(d))'
  <3>1. PICK C, R, lo : C = children[t] \ (Top.rest \cup {}) /\ R = Needs(t, p) \ Top.todo /\ lo = base[t][p]
    OBVIOUS
  <3>2. Laid(p, C, R, lo, u) BY <1>1, <2>3, <3>1 DEF FrameLaid
  <3>3. C \in SUBSET Buses /\ R \in SUBSET Registers /\ r \notin R /\ lo \in Nat /\ lo <= u /\ u \in Nat
   <4>1. C \in SUBSET Buses BY <3>1, ChildFacts
   <4>2. R \in SUBSET Registers /\ r \notin R BY <3>1, <2>9
   <4>3. lo \in Nat /\ lo <= u BY <1>1, <2>2, <2>3, <3>1, Constants DEF FrameLaid
   <4> QED BY <1>8, <4>1, <4>2, <4>3
  <3>4. \A s \in R : address'[s] = address[s] /\ (Bit(p) \in command[s.fn] => Bit(p) \in command'[s.fn])
    BY <2>6, <2>9, <3>1, <3>3
  <3>5. Laid(p, C, R \cup {r}, lo, end)'
    BY <1>5, <1>6, <2>4, <2>6, <2>7, <3>2, <3>3, <3>4, LaidRegister
  <3>6. /\ C = children'[t] \ (e.rest \cup {}) /\ R \cup {r} = Needs(t, p)' \ e.todo /\ lo = base'[t][p]
    BY <1>4, <1>5, <1>6, <1>11, <2>7, <3>1
  <3>7. e.used = end /\ e.rest = {} /\ lo <= end BY <1>6, <1>11, <2>4, <2>5, <3>3
  <3>8. /\ limit'[t][p] = 0 /\ base'[t][p] > 0 /\ base'[t][p] % Granularity(p) = 0
        /\ p = "io" => (t # Root => base'[t][p] < IoSpace)
    BY <2>3, <2>7 DEF FrameLaid
  <3>9. FrameLaid(p, t, e, {})' BY <2>4, <3>5, <3>6, <3>7, <3>8 DEF FrameLaid
  <3>10. p = phase' /\ t = BusAt(d)' /\ e = stack[d]' /\ {} = Called(d)'
    BY <1>1, <1>2, <1>13, <1>14, <2>7 DEF Called
  <3> QED BY <3>9, <3>10
 <2>12. ASSUME NEW i \in 1 .. d - 1 PROVE stack'[i].used <= base'[BusAt(i + 1)'][p]
  <3>1. i + 1 \in 1 .. d /\ i \in 1 .. Depth - 1 BY <1>1
  <3> QED BY <1>1, <1>13, <1>14, <2>1, <2>7, <3>1 DEF WalkInv
 <2>13. ASSUME NEW x \in Scanned, limit[x][p] # 0 PROVE Complete(x, p)'
  <3>1. Complete(x, p) /\ x \in Buses /\ x # t
    BY <1>1, <2>1, <2>3, <2>13, BusFacts DEF WalkInv, Scanned, FrameLaid
  <3>2. \A s \in Needs(x, p) : s # r BY <1>6, <2>9, <3>1
  <3> QED BY <1>5, <2>6, <2>7, <2>9, <3>1, <3>2, CompleteStays
 <2>14. \A q \in Spaces : q # p /\ Given(q) => Given(q)'
  <3> SUFFICES ASSUME NEW q \in Spaces, q # p, Given(q) PROVE Given(q)' OBVIOUS
  <3>1. \A x \in Buses : \A s \in Needs(x, q) : s # r /\ s \in Registers /\ s.fn \in Fns
    BY <1>6, <2>9
  <3>2. \A x \in Buses : children[x] \subseteq Buses BY ChildFacts
  <3>3. \A x \in Buses : \A s \in Needs(x, q) :
          address'[s] = address[s] /\ (Bit(q) \in command[s.fn] => Bit(q) \in command'[s.fn])
    BY <2>6, <3>1
  <3> QED BY <1>5, <2>7, <3>2, <3>3, GivenStays
 <2>15. ASSUME NEW c \in Fns, limit[c][p] # 0, limit[on[c]][p] = 0
        PROVE  \E i \in 1 .. d : BusAt(i)' = on[c] /\ c \notin stack'[i].rest \cup Called(i)'
  <3>1. PICK i \in 1 .. d : BusAt(i) = on[c] /\ c \notin stack[i].rest \cup Called(i)
    BY <1>1, <2>1, <2>15 DEF WalkInv
  <3>2. stack'[i].rest = stack[i].rest
   <4>1. i \in 1 .. d - 1 \/ i = d OBVIOUS
   <4> QED BY <1>2, <1>4, <1>11, <1>13, <4>1
  <3> QED BY <1>14, <2>8, <3>1, <3>2
 <2>16. /\ phase' # "io" => Given("io")'
        /\ phase' = "pref" => Given("mem")' /\ limit'[Root]["mem"] < base'[Root]["pref"]
        /\ phase' # "pref" => Ungiven("pref")'
        /\ phase' = "io" => Ungiven("mem")' /\ base'[Root]["mem"] = MemStart
  <3>1. Ungiven("mem") = Ungiven("mem")' /\ Ungiven("pref") = Ungiven("pref")'
    BY <2>7 DEF Ungiven
  <3> QED BY <1>1, <2>1, <2>7, <2>14, <3>1 DEF WalkInv, Spaces
 <2>17. \A i \in 1 .. d : FrameLaid(phase, BusAt(i), stack[i], Called(i))'
  <3>1. \A i \in 1 .. d : i \in 1 .. d - 1 \/ i = d OBVIOUS
  <3> QED BY <2>10, <2>11, <3>1
 <2> QED BY <1>1, <1>5, <1>13, <2>7, <2>12, <2>13, <2>15, <2>16, <2>17 DEF WalkInv
<1> QED BY <1>10, <1>18, <1>19
-----------------------------------------------------------------------------
\* The last address of a window, and the next one behind it.
LEMMA LimitIs ==
  ASSUME NEW p \in Spaces, NEW u \in Nat
  PROVE  /\ Limit(p, u) \in Int /\ u <= Limit(p, u) + 1
         /\ u > 0 => /\ Limit(p, u) \in Nat \ {0} /\ (Limit(p, u) + 1) % Granularity(p) = 0
                     /\ RoundUp(Limit(p, u), Granularity(p)) = Limit(p, u) + 1
<1>1. PICK g \in Nat \ {0, 1} : g = Granularity(p) BY GranularityIs
<1>2. RoundUp(u, g) \in Nat /\ u <= RoundUp(u, g) /\ RoundUp(u, g) % g = 0 BY RoundUpFacts
<1>3. Limit(p, u) = RoundUp(u, g) - 1 BY <1>1 DEF Limit
<1>4. ASSUME u > 0
      PROVE  /\ Limit(p, u) \in Nat \ {0} /\ (Limit(p, u) + 1) % g = 0
             /\ RoundUp(Limit(p, u), g) = Limit(p, u) + 1
 <2>1. RoundUp(u, g) >= 2
  <3>1. RoundUp(u, g) # 1
   <4>1. 1 % g = 1 BY ModSmall
   <4> QED BY <1>2, <4>1
  <3> QED BY <1>2, <1>4, <3>1
 <2>2. Limit(p, u) \in Nat \ {0} /\ (Limit(p, u) + 1) % g = 0 BY <1>2, <1>3, <2>1
 <2> QED BY <2>2, RoundUpLast
<1> QED BY <1>1, <1>2, <1>3, <1>4

\* A bus has been gone through, and all that was laid out on it and behind it is within.
LEMMA BusEnds ==
  ASSUME MachineInv, NumberInv, ResourceTypes, WalkFrames, WalkInv,
         NEW t \in Buses, NEW u \in Nat, NEW p \in Spaces, t = Top.bus, u = Top.used, p = phase,
         NEW last, last = Limit(p, u), Top.rest = {}, Top.todo = {},
         last < Space - 1, p = "io" => last < IoSpace,
         limit'[t][p] = last, \A b \in Buses, q \in Spaces : b # t \/ q # p => limit'[b][q] = limit[b][q],
         UNCHANGED <<bars, number, children, devices, address, command>>,
         \A b \in Buses : base'[b][p] = base[b][p]
  PROVE  /\ last \in Nat \ {0} /\ (last + 1) % Granularity(p) = 0 /\ last + 1 < Space
         /\ RoundUp(last, Granularity(p)) = last + 1
         /\ limit[t][p] = 0 /\ base[t][p] \in Nat /\ base[t][p] <= u /\ u <= last + 1
         /\ Complete(t, p)' /\ \A x \in Scanned : limit[x][p] # 0 => Complete(x, p)'
<1>1. /\ Depth \in Nat /\ Depth >= 1 /\ Depth \in 1 .. Depth /\ Top = stack[Depth] /\ t = BusAt(Depth)
  BY WalkTop
<1>2. FrameLaid(p, t, Top, {})
 <2>1. Called(Depth) = {} BY <1>1 DEF Called
 <2> QED BY <1>1, <2>1 DEF WalkInv
<1>3. /\ base \in [Buses -> [Spaces -> 0 .. Space - 1]] /\ limit \in [Buses -> [Spaces -> 0 .. Space - 1]]
      /\ Space \in Nat
  BY Constants DEF ResourceTypes
<1>4. base[t][p] \in Nat BY <1>3
<1>5. /\ limit[t][p] = 0 /\ base[t][p] > 0 /\ base[t][p] <= u /\ base[t][p] % Granularity(p) = 0
      /\ p = "io" => (t # Root => base[t][p] < IoSpace)
  BY <1>2 DEF FrameLaid
<1>6. u > 0 BY <1>4, <1>5
<1>7. /\ last \in Nat \ {0} /\ (last + 1) % Granularity(p) = 0
      /\ RoundUp(last, Granularity(p)) = last + 1 /\ u <= last + 1
  BY <1>6, LimitIs
<1>8. limit'[t][p] = last /\ \A b \in Buses, q \in Spaces : b # t \/ q # p => limit'[b][q] = limit[b][q]
  OBVIOUS
<1>9. last + 1 < Space BY <1>3, <1>7
<1>10. Complete(t, p)'
 <2>1. PICK C, R, lo : C = children[t] /\ R = Needs(t, p) /\ lo = base[t][p] OBVIOUS
 <2>2. C \in SUBSET Buses /\ R \in SUBSET Registers BY <2>1, ChildFacts, NeedsFacts
 <2>3. Laid(p, C, R, lo, u)
  <3>1. C = children[t] \ (Top.rest \cup {}) /\ R = Needs(t, p) \ Top.todo BY <2>1
  <3> QED BY <1>2, <2>1, <3>1 DEF FrameLaid
 <2>4. Laid(p, C, R, lo, last + 1) BY <1>7, <2>2, <2>3, LaidUpTo
 <2>5. t \notin C BY <1>5, <2>1, <2>3 DEF Laid
 <2>6. PICK hi : hi = last + 1 OBVIOUS
 <2>7. Laid(p, C, R, lo, hi)'
  <3>1. Laid(p, C, R, lo, hi) BY <2>4, <2>6
  <3> QED BY <1>8, <2>2, <2>5, <3>1, LaidStays
 <2>8. Needs(t, p)' = Needs(t, p) BY DEF Needs, SpaceOf, Registers
 <2>9. C = children'[t] /\ R = Needs(t, p)' /\ lo = base'[t][p] /\ hi = limit'[t][p] + 1
   BY <1>8, <2>1, <2>6, <2>8
 <2>10. /\ base'[t][p] > 0 /\ base'[t][p] <= limit'[t][p] + 1 /\ limit'[t][p] + 1 < Space
        /\ base'[t][p] % Granularity(p) = 0 /\ (limit'[t][p] + 1) % Granularity(p) = 0
        /\ p = "io" => limit'[t][p] < IoSpace /\ (t # Root => base'[t][p] < IoSpace)
  <3>1. base[t][p] <= last + 1 BY <1>4, <1>5, <1>7
  <3> QED BY <1>5, <1>7, <1>8, <1>9, <3>1
 <2> QED BY <2>7, <2>9, <2>10 DEF Complete
<1>11. ASSUME NEW x \in Scanned, limit[x][p] # 0 PROVE Complete(x, p)'
 <2>1. x \in Buses /\ Complete(x, p) /\ x # t BY <1>5, <1>11, BusFacts DEF WalkInv, Scanned
 <2>2. t \notin children[x] /\ children[x] \subseteq Buses
   BY <1>5, <2>1, ChildFacts DEF Complete, Laid
 <2>3. limit'[x][p] = limit[x][p] /\ \A c \in children[x] : limit'[c][p] = limit[c][p] /\ base'[c][p] = base[c][p]
   BY <1>8, <2>1, <2>2
 <2> QED BY <2>1, <2>3, CompleteStays
<1> QED BY <1>4, <1>5, <1>7, <1>9, <1>10, <1>11
-----------------------------------------------------------------------------
\* One more bus behind those that have been laid out.
LEMMA LaidBus ==
  ASSUME ResourceTypes', NEW p \in Spaces, NEW C \in SUBSET Buses, NEW lo \in Nat, NEW hi \in Nat,
         Laid(p, C, {}, lo, hi)', NEW t \in Buses, NEW last \in Nat \ {0}, lo <= hi, hi <= base'[t][p],
         base'[t][p] <= last + 1, limit'[t][p] = last
  PROVE  Laid(p, C \cup {t}, {}, lo, last + 1)'
<1>1. \A c \in C \cup {t} : limit'[c][p] \in Nat /\ base'[c][p] \in Nat
  BY Constants DEF ResourceTypes
<1>2. /\ \A c \in C : limit'[c][p] # 0 /\ lo <= base'[c][p] /\ limit'[c][p] < hi
      /\ \A c, d \in C : c # d => limit'[c][p] < base'[d][p] \/ limit'[d][p] < base'[c][p]
  BY DEF Laid
<1>3. ASSUME NEW c \in C \cup {t} PROVE limit'[c][p] # 0 /\ lo <= base'[c][p] /\ limit'[c][p] < last + 1
 <2>1. limit'[c][p] \in Nat /\ base'[c][p] \in Nat /\ base'[t][p] \in Nat BY <1>1
 <2>2. CASE c = t BY <2>1, <2>2
 <2>3. CASE c # t BY <1>2, <2>1, <2>3
 <2> QED BY <2>2, <2>3
<1>4. ASSUME NEW c \in C \cup {t}, NEW d \in C \cup {t}, c # d
      PROVE  limit'[c][p] < base'[d][p] \/ limit'[d][p] < base'[c][p]
 <2>1. \A x \in C : limit'[x][p] < base'[t][p] BY <1>1, <1>2
 <2> QED BY <1>2, <1>4, <2>1
<1> QED BY <1>3, <1>4 DEF Laid

\* Coming back to the bus in front keeps them: the window is complete, the next one
\* starts behind it, and no other call's has changed.
LEMMA AscendWalks ==
  ASSUME MachineInv, NumberInv, ResourceTypes, WalkFrames, ~wrapped => WalkInv, phase \in Spaces, Ascend
  PROVE  ResourceTypes' /\ WalkFrames' /\ (~wrapped' => WalkInv')
<1>1. PICK t \in Buses, d \in Nat, u \in 0 .. Space - 1, p \in Spaces :
        t = Top.bus /\ d = Depth /\ u = Top.used /\ p = phase
 <2>1. Top \in WalkFrame /\ Top.bus \in Buses /\ Depth \in Nat BY WalkTop
 <2>2. Top.used \in 0 .. Space - 1 BY <2>1 DEF WalkFrame
 <2> QED BY <2>1, <2>2
<1>2. /\ d >= 1 /\ d \in 1 .. d /\ Top = stack[d] /\ t = BusAt(d) /\ Top \in WalkFrame /\ t \in Scanned
      /\ \A i \in 1 .. d : BusAt(i) \in Buses /\ BusAt(i) \in Scanned
  BY <1>1, WalkTop
<1>3. PICK last : last = Limit(p, u) OBVIOUS
<1>4. /\ Top.rest = {} /\ Top.todo = {} /\ t # Root
      /\ limit' = [limit EXCEPT ![t][p] = Ulong(last)]
      /\ wrapped' = (wrapped \/ last >= Space - 1 \/ (p = "io" /\ last >= IoSpace))
      /\ stack' = [Front(stack) EXCEPT ![Len(stack) - 1].used = After(p, limit'[t][p])]
      /\ UNCHANGED <<machine, hardware, tree, phase, base, address, command>>
  BY <1>1, <1>3 DEF Ascend, WalkEnds
<1>5. /\ UNCHANGED <<on, kind, bars, path, number, subordinate, children, devices, numbers, windows, bar, cmd>>
      /\ Registers' = Registers /\ Scanned' = Scanned /\ WalkFrame' = WalkFrame
      /\ \A x, q : Needs(x, q)' = Needs(x, q)
  BY <1>4, Rigid
<1>6. Line /\ d >= 2
 <2>1. Line BY DEF WalkFrames
 <2>2. d # 1 BY <1>1, <1>2, <1>4, <2>1 DEF Line
 <2> QED BY <1>2, <2>1, <2>2
<1>7. u \in Nat /\ last \in Int /\ Ulong(last) \in 0 .. Space - 1
  BY <1>3, Constants, LimitIs, UlongIs
<1>8. limit' \in [Buses -> [Spaces -> 0 .. Space - 1]] /\ limit'[t][p] = Ulong(last)
  BY <1>4, <1>7 DEF ResourceTypes
<1>9. ResourceTypes'
 <2>1. wrapped' \in BOOLEAN BY <1>4 DEF ResourceTypes
 <2> QED BY <1>4, <1>5, <1>8, <2>1 DEF ResourceTypes
<1>10. PICK next \in 0 .. Space - 1 : next = After(p, limit'[t][p])
 <2>1. limit'[t][p] \in Nat BY <1>7, <1>8, Constants
 <2>2. RoundUp(limit'[t][p], Granularity(p)) \in Nat BY <2>1, GranularityIs, RoundUpFacts
 <2> QED BY <2>2, UlongIs DEF After
<1>11. d - 1 \in 1 .. d /\ d - 1 \in 1 .. d - 1 /\ stack[d - 1] \in WalkFrame /\ stack \in Seq(WalkFrame) /\ Len(stack) = d
 <2>1. stack \in Seq(WalkFrame) /\ Len(stack) = d BY <1>1 DEF WalkFrames, Depth
 <2> QED BY <1>6, <2>1
<1>12. PICK e \in WalkFrame : /\ e = [stack[d - 1] EXCEPT !.used = next]
                              /\ e.bus = BusAt(d - 1) /\ e.used = next
                              /\ e.rest = stack[d - 1].rest /\ e.todo = stack[d - 1].todo
 <2> DEFINE x == [stack[d - 1] EXCEPT !.used = next]
 <2>1. /\ x \in WalkFrame /\ x.bus = BusAt(d - 1) /\ x.used = next
       /\ x.rest = stack[d - 1].rest /\ x.todo = stack[d - 1].todo
   BY <1>11 DEF WalkFrame, BusAt
 <2> QED BY <2>1
<1>13. /\ stack' \in Seq(WalkFrame) /\ Depth' = d - 1 /\ stack'[d - 1] = e
       /\ \A i \in 1 .. d - 2 : stack'[i] = stack[i]
 <2>1. /\ Front(stack) \in Seq(WalkFrame) /\ Len(Front(stack)) = d - 1
       /\ \A i \in 1 .. d - 1 : Front(stack)[i] = stack[i]
   BY <1>6, <1>11, FrontFacts
 <2>2. PICK r \in Seq(WalkFrame) : r = Front(stack) BY <2>1
 <2>3. stack' = [r EXCEPT ![Len(r)] = e] /\ Len(r) = d - 1
   BY <1>4, <1>10, <1>11, <1>12, <2>1, <2>2
 <2>4. /\ stack' \in Seq(WalkFrame) /\ Len(stack') = Len(r) /\ stack'[Len(r)] = e
       /\ \A i \in 1 .. Len(r) - 1 : stack'[i] = r[i]
   BY <1>6, <2>3, Replaced
 <2> QED BY <2>1, <2>2, <2>3, <2>4 DEF Depth
<1>14. \A i \in 1 .. d - 1 : BusAt(i)' = BusAt(i) /\ i \in 1 .. d /\ stack'[i].rest = stack[i].rest /\ stack'[i].todo = stack[i].todo
 <2>1. \A i \in 1 .. d - 2 : stack'[i] = stack[i] /\ BusAt(i)' = BusAt(i) BY <1>13 DEF BusAt
 <2>2. BusAt(d - 1)' = BusAt(d - 1) /\ stack'[d - 1].rest = stack[d - 1].rest /\ stack'[d - 1].todo = stack[d - 1].todo
   BY <1>12, <1>13 DEF BusAt
 <2>3. \A i \in 1 .. d - 1 : i \in 1 .. d /\ (i \in 1 .. d - 2 \/ i = d - 1) OBVIOUS
 <2> QED BY <2>1, <2>2, <2>3
<1>15. WalkFrames'
 <2>1. Line' BY <1>1, <1>5, <1>6, <1>13, <1>14, LinePopped
 <2>2. ASSUME NEW i \in 1 .. d - 1
       PROVE  /\ stack'[i].rest \subseteq children[BusAt(i)'] /\ stack'[i].todo \subseteq Needs(BusAt(i)', p)
              /\ stack'[i].todo = Needs(BusAt(i)', p)
  <3>1. i \in 1 .. Depth /\ i < Depth BY <1>1, <1>6
  <3>2. /\ stack[i].rest \subseteq children[BusAt(i)] /\ stack[i].todo \subseteq Needs(BusAt(i), p)
        /\ stack[i].todo = Needs(BusAt(i), p)
    BY <1>1, <3>1 DEF WalkFrames
  <3> QED BY <1>14, <3>2
 <2>3. ASSUME NEW i \in 1 .. (d - 1) - 1 PROVE BusAt(i + 1)' \notin stack'[i].rest
  <3>1. i \in 1 .. d - 1 /\ i + 1 \in 1 .. d - 1 OBVIOUS
  <3> QED BY <1>1, <1>14, <3>1 DEF WalkFrames
 <2> QED BY <1>1, <1>4, <1>5, <1>13, <2>1, <2>2, <2>3 DEF WalkFrames
\* WalkInv
<1>16. ASSUME ~wrapped' PROVE WalkInv'
 <2>1. ~wrapped /\ WalkInv /\ last < Space - 1 /\ (p = "io" => last < IoSpace)
  <3>1. ~wrapped /\ ~(last >= Space - 1) /\ (p = "io" => ~(last >= IoSpace)) BY <1>4, <1>16
  <3> QED BY <1>7, <3>1, Constants
 <2>2. Ulong(last) = last
  <3>1. last \in Nat
   <4>1. base[t][p] \in Nat /\ base[t][p] > 0 /\ base[t][p] <= u
    <5>1. FrameLaid(p, t, Top, Called(d)) BY <1>1, <1>2, <2>1 DEF WalkInv
    <5>2. base[t][p] \in Nat BY Constants DEF ResourceTypes
    <5> QED BY <1>1, <5>1, <5>2 DEF FrameLaid
   <4>2. u > 0 BY <1>7, <4>1
   <4> QED BY <1>3, <1>7, <4>2, LimitIs
  <3> QED BY <2>1, <3>1, Constants, UlongIs
 <2>3. limit'[t][p] = last /\ \A b \in Buses, q \in Spaces : b # t \/ q # p => limit'[b][q] = limit[b][q]
   BY <1>4, <1>8, <2>2 DEF ResourceTypes
 <2>4. /\ last \in Nat \ {0} /\ (last + 1) % Granularity(p) = 0 /\ last + 1 < Space
       /\ RoundUp(last, Granularity(p)) = last + 1
       /\ limit[t][p] = 0 /\ base[t][p] \in Nat /\ base[t][p] <= u /\ u <= last + 1
       /\ limit'[t][p] = last /\ \A b \in Buses, q \in Spaces : b # t \/ q # p => limit'[b][q] = limit[b][q]
       /\ Complete(t, p)' /\ \A x \in Scanned : limit[x][p] # 0 => Complete(x, p)'
  <3>1. /\ t = Top.bus /\ u = Top.used /\ p = phase /\ u \in Nat /\ Top.rest = {} /\ Top.todo = {}
    BY <1>1, <1>4, <1>7
  <3>2. UNCHANGED <<bars, number, children, devices, address, command>> BY <1>4, <1>5
  <3>3. \A b \in Buses : base'[b][p] = base[b][p] BY <1>4
  <3> QED BY <1>3, <2>1, <2>3, <3>1, <3>2, <3>3, BusEnds
 <2>5. next = last + 1 BY <1>10, <2>4, UlongIs DEF After
 <2>6. \A i \in 1 .. d - 1 : BusAt(i) # t /\ BusAt(i) \in Buses
  <3>1. \A i \in 1 .. d - 1 : i \in 1 .. d /\ i # d OBVIOUS
  <3> QED BY <1>1, <1>2, <1>6, <3>1, LineFacts
 <2>7. \A x \in Buses : children[x] \subseteq Buses BY ChildFacts
 <2>8. t \in children[BusAt(d - 1)] /\ on[t] = BusAt(d - 1) /\ t \in Fns /\ t \notin stack[d - 1].rest
  <3>1. t \in children[BusAt(d - 1)] /\ t \notin stack[d - 1].rest
   <4>1. d - 1 \in 1 .. Depth - 1 /\ (d - 1) + 1 = d BY <1>1, <1>11
   <4> QED BY <1>2, <1>6, <4>1 DEF Line, WalkFrames
  <3> QED BY <1>2, <1>11, <3>1, ChildFacts
 <2>9. ASSUME NEW i \in 1 .. d - 2
       PROVE  FrameLaid(phase, BusAt(i), stack[i], Called(i))' /\ stack'[i].used <= base'[BusAt(i + 1)'][p]
  <3>1. i \in 1 .. d - 1 /\ i + 1 \in 1 .. d - 1 /\ i \in 1 .. Depth /\ i \in 1 .. Depth - 1 /\ i < d - 1 /\ i < d
    BY <1>1
  <3>2. PICK x \in Buses, g \in {stack[i]}, k \in {Called(i)} : x = BusAt(i) BY <2>6, <3>1
  <3>3. FrameLaid(p, x, g, k) BY <1>1, <2>1, <3>1, <3>2 DEF WalkInv
  <3>4. x # t /\ x # BusAt(d - 1)
   <4>1. d - 1 \in 1 .. Depth /\ i # d - 1 BY <1>1, <1>11, <3>1
   <4> QED BY <1>1, <1>2, <1>6, <2>6, <3>1, <3>2, <4>1, LineFacts
  <3>5. t \notin children[x] BY <2>8, <3>4, ChildFacts
  <3>6. /\ limit'[x][p] = limit[x][p]
        /\ \A c \in children[x] \ (g.rest \cup k) : limit'[c][p] = limit[c][p]
    BY <2>4, <2>7, <3>4, <3>5
  <3>7. FrameLaid(p, x, g, k)' BY <1>4, <1>5, <3>3, <3>6, FrameStays
  <3>8. x = BusAt(i)' /\ g = stack[i]' /\ k = Called(i)' /\ p = phase'
   <4>1. Called(i) = {BusAt(i + 1)} /\ Called(i)' = {BusAt(i + 1)'}
     BY <1>1, <1>13, <3>1 DEF Called
   <4> QED BY <1>1, <1>4, <1>13, <1>14, <3>1, <3>2, <4>1
  <3>9. stack[i].used <= base[BusAt(i + 1)][p] BY <1>1, <2>1, <3>1 DEF WalkInv
  <3> QED BY <1>4, <1>13, <1>14, <3>1, <3>7, <3>8, <3>9
 <2>10. FrameLaid(phase, BusAt(d - 1), stack[d - 1], Called(d - 1))'
  <3>1. PICK x \in Buses, g \in WalkFrame : x = BusAt(d - 1) /\ g = stack[d - 1] BY <1>11, <2>6
  <3>2. d - 1 \in 1 .. Depth /\ d - 1 \in 1 .. Depth - 1 /\ d - 1 < Depth /\ (d - 1) + 1 = d
    BY <1>1, <1>11
  <3>3. Called(d - 1) = {t} /\ Called(d - 1)' = {} BY <1>2, <1>13, <3>2 DEF Called
  <3>4. FrameLaid(p, x, g, {t}) BY <1>1, <2>1, <3>1, <3>2, <3>3 DEF WalkInv
  <3>5. g.used <= base[t][p] BY <1>1, <1>2, <2>1, <3>1, <3>2 DEF WalkInv
  <3>6. PICK C, lo, hi : C = children[x] \ (g.rest \cup {t}) /\ lo = base[x][p] /\ hi = g.used
    OBVIOUS
  <3>7. g.todo = Needs(x, p) BY <1>1, <3>1, <3>2 DEF WalkFrames
  <3>8. Laid(p, C, {}, lo, hi)
   <4>1. Needs(x, p) \ g.todo = {} BY <3>7
   <4> QED BY <3>4, <3>6, <4>1 DEF FrameLaid
  <3>9. C \in SUBSET Buses /\ lo \in Nat /\ hi \in Nat /\ t \notin C /\ lo > 0 /\ lo <= hi /\ x # t
   <4>1. C \in SUBSET Buses /\ t \notin C BY <2>7, <3>6
   <4>2. lo \in Nat /\ hi \in Nat BY <3>1, <3>6, Constants DEF ResourceTypes, WalkFrame
   <4>3. lo > 0 /\ lo <= hi BY <3>4, <3>6 DEF FrameLaid
   <4> QED BY <1>11, <2>6, <3>1, <4>1, <4>2, <4>3
  <3>10. Laid(p, C, {}, lo, hi)'
   <4>1. \A c \in C : limit'[c][p] = limit[c][p] BY <2>4, <3>9
   <4> QED BY <1>4, <1>5, <3>8, <4>1, LaidStays
  <3>11. Laid(p, C \cup {t}, {}, lo, last + 1)'
   <4>1. hi <= base'[t][p] /\ base'[t][p] <= last + 1 BY <1>4, <1>7, <2>4, <3>5, <3>6
   <4> QED BY <1>9, <2>4, <3>9, <3>10, <4>1, LaidBus
  <3>12. /\ C \cup {t} = children'[x] \ (e.rest \cup {}) /\ {} = Needs(x, p)' \ e.todo /\ lo = base'[x][p]
         /\ e.used = last + 1
    BY <1>4, <1>5, <1>12, <2>5, <2>8, <3>1, <3>6, <3>7
  <3>13. lo <= last + 1
   <4>1. base[t][p] <= last + 1 BY <1>7, <2>4
   <4> QED BY <2>4, <3>5, <3>6, <3>9, <4>1
  <3>14. limit'[x][p] = 0 /\ lo % Granularity(p) = 0 /\ (p = "io" => (x # Root => lo < IoSpace))
    BY <2>4, <3>4, <3>6, <3>9 DEF FrameLaid
  <3>15. p = "io" => (last + 1) % IoAlign = 0
   <4>1. ASSUME p = "io" PROVE (last + 1) % IoAlign = 0
    <5>1. Granularity(p) = IoBridgeAlign /\ IoBridgeAlign % IoAlign = 0 /\ last + 1 \in Nat
      BY <2>4, <4>1, PciAlignment, GranularityIs
    <5> QED BY <2>4, <5>1, Constants, ModChain
   <4> QED BY <4>1
  <3>16. FrameLaid(p, x, e, {})'
   <4>1. /\ base'[x][p] > 0 /\ base'[x][p] <= e.used /\ base'[x][p] % Granularity(p) = 0
         /\ p = "io" => (x # Root => base'[x][p] < IoSpace) /\ e.used % IoAlign = 0
         /\ e.rest # {} => e.used % Granularity(p) = 0
    <5>1. lo = base'[x][p] /\ e.used = last + 1 /\ lo > 0 /\ lo <= last + 1
      BY <3>9, <3>12, <3>13
    <5>2. (last + 1) % Granularity(p) = 0 BY <2>4
    <5> QED BY <3>14, <3>15, <5>1, <5>2
   <4>2. Laid(p, children[x] \ (e.rest \cup {}), Needs(x, p) \ e.todo, base[x][p], e.used)'
     BY <3>11, <3>12
   <4> QED BY <3>14, <4>1, <4>2 DEF FrameLaid
  <3>17. p = phase' /\ x = BusAt(d - 1)' /\ e = stack[d - 1]' /\ {} = Called(d - 1)'
    BY <1>1, <1>4, <1>11, <1>13, <1>14, <3>1, <3>3
  <3> QED BY <3>16, <3>17
 <2>11. ASSUME NEW x \in Scanned, limit'[x][p] # 0 PROVE Complete(x, p)'
  <3>1. x \in Buses BY BusFacts DEF Scanned
  <3> QED BY <2>4, <2>11, <3>1
 <2>12. ASSUME NEW c \in Fns, limit'[c][p] # 0, limit'[on[c]][p] = 0
        PROVE  \E i \in 1 .. d - 1 : BusAt(i)' = on[c] /\ c \notin stack'[i].rest \cup Called(i)'
  <3>1. CASE c = t
   <4>1. Called(d - 1)' = {} BY <1>13 DEF Called
   <4> QED BY <1>11, <1>14, <2>8, <3>1, <4>1
  <3>2. CASE c # t
   <4>1. limit[c][p] # 0 /\ on[c] # t /\ limit[on[c]][p] = 0
    <5>1. c \in Buses /\ on[c] \in Buses BY PathFacts, BusFacts
    <5>2. limit[c][p] # 0 BY <2>4, <2>12, <3>2, <5>1
    <5>3. on[c] # t BY <2>4, <2>12
    <5> QED BY <2>4, <2>12, <5>1, <5>2, <5>3
   <4>2. PICK i \in 1 .. d : BusAt(i) = on[c] /\ c \notin stack[i].rest \cup Called(i)
     BY <1>1, <2>1, <4>1 DEF WalkInv
   <4>3. i \in 1 .. d - 1 BY <1>2, <4>1, <4>2
   <4>4. Called(i)' \subseteq Called(i)
    <5>1. CASE i = d - 1 BY <1>13, <5>1 DEF Called
    <5>2. CASE i # d - 1
     <6>1. i + 1 \in 1 .. d - 1 /\ i < d BY <4>3, <5>2
     <6> QED BY <1>1, <1>13, <1>14, <6>1 DEF Called
    <5> QED BY <5>1, <5>2
   <4> QED BY <1>14, <4>2, <4>3, <4>4
  <3> QED BY <3>1, <3>2
 <2>13. \A q \in Spaces : q # p /\ Given(q) => Given(q)'
  <3> SUFFICES ASSUME NEW q \in Spaces, q # p, Given(q) PROVE Given(q)' OBVIOUS
  <3>1. \A x \in Buses : limit'[x][q] = limit[x][q] /\ base'[x][q] = base[x][q] BY <1>4, <2>4
  <3> QED BY <1>4, <1>5, <2>7, <3>1, GivenStays
 <2>14. /\ phase' # "io" => Given("io")'
        /\ phase' = "pref" => Given("mem")' /\ limit'[Root]["mem"] < base'[Root]["pref"]
        /\ phase' # "pref" => Ungiven("pref")'
        /\ phase' = "io" => Ungiven("mem")' /\ base'[Root]["mem"] = MemStart
  <3>1. \A q \in Spaces : q # p /\ Ungiven(q) => Ungiven(q)' BY <2>4 DEF Ungiven
  <3>2. limit'[Root]["mem"] = limit[Root]["mem"] BY <1>4, <2>4, BusFacts DEF Spaces
  <3> QED BY <1>1, <1>4, <2>1, <2>13, <3>1, <3>2 DEF WalkInv, Spaces
 <2>15. \A i \in 1 .. d - 1 : FrameLaid(phase, BusAt(i), stack[i], Called(i))'
  <3>1. \A i \in 1 .. d - 1 : i \in 1 .. d - 2 \/ i = d - 1 OBVIOUS
  <3> QED BY <2>9, <2>10, <3>1
 <2>16. \A i \in 1 .. (d - 1) - 1 : stack'[i].used <= base'[BusAt(i + 1)'][p] BY <2>9
 <2> QED BY <1>1, <1>4, <1>5, <1>13, <2>11, <2>12, <2>14, <2>15, <2>16 DEF WalkInv
<1> QED BY <1>9, <1>15, <1>16
-----------------------------------------------------------------------------
\* A walk starts with a frame for the first bus and all that is to be gone through,
LEMMA WalkStarts ==
  ASSUME MachineInv, NumberInv, NEW q \in Spaces, NEW start \in 0 .. Space - 1,
         stack' = <<Frame(Root, q, start)>>, phase' = q, UNCHANGED <<path, number, bars, children, devices>>
  PROVE  /\ WalkFrames' /\ Depth' = 1 /\ BusAt(1)' = Root /\ Called(1)' = {}
         /\ stack'[1].rest = children[Root] /\ stack'[1].todo = Needs(Root, q) /\ stack'[1].used = start
<1>1. PICK f \in WalkFrame : /\ f = Frame(Root, q, start)
                             /\ f.bus = Root /\ f.used = start /\ f.rest = children[Root] /\ f.todo = Needs(Root, q)
 <2> DEFINE x == Frame(Root, q, start)
 <2>1. children[Root] \in SUBSET Fns BY BusFacts, ChildFacts
 <2>2. Needs(Root, q) \in SUBSET Registers BY DEF Needs
 <2>3. x \in WalkFrame /\ x.bus = Root /\ x.used = start /\ x.rest = children[Root] /\ x.todo = Needs(Root, q)
   BY <2>1, <2>2, BusFacts DEF Frame, WalkFrame
 <2> QED BY <2>3
<1>2. stack' = <<f>> /\ WalkFrame' = WalkFrame /\ (\A b, p : Needs(b, p)' = Needs(b, p)) /\ Scanned' = Scanned
  BY <1>1 DEF WalkFrame, Registers, Needs, SpaceOf, Scanned
<1>3. stack' \in Seq(WalkFrame) /\ Depth' = 1 /\ stack'[1] = f BY <1>2 DEF Depth
<1>4. BusAt(1)' = Root /\ Called(1)' = {} BY <1>1, <1>3 DEF BusAt, Called
<1>5. Line'
 <2>1. Root \in Scanned /\ path[Root] = {} /\ Root = 0 BY BusFacts DEF Scanned, MachineInv
 <2>2. \A i \in 1 .. 1 : i = 1 OBVIOUS
 <2>3. \A i \in 1 .. 1 - 1 : FALSE OBVIOUS
 <2>4. Depth' >= 1 /\ BusAt(1)' = Root BY <1>3, <1>4
 <2>5. \A i \in 1 .. 1 : BusAt(i)' \in Scanned' /\ BusAt(i)' >= i - 1 BY <1>2, <1>4, <2>1, <2>2
 <2>6. \A i \in 1 .. 1 : \A j \in 1 .. i : BusAt(j)' \in path'[BusAt(i)'] \cup {Root} /\ (j < i => BusAt(j)' < BusAt(i)')
  <3> SUFFICES ASSUME NEW i \in 1 .. 1, NEW j \in 1 .. i
               PROVE  BusAt(j)' \in path'[BusAt(i)'] \cup {Root} /\ (j < i => BusAt(j)' < BusAt(i)')
    OBVIOUS
  <3>1. i = 1 /\ j = 1 OBVIOUS
  <3> QED BY <1>4, <3>1
 <2>7. \A i \in 1 .. 1 : \A a \in path'[BusAt(i)'] : FALSE BY <1>4, <2>1, <2>2
 <2> QED BY <1>3, <2>3, <2>4, <2>5, <2>6, <2>7 DEF Line
<1>6. WalkFrames'
 <2>1. \A i \in 1 .. 1 : i = 1 OBVIOUS
 <2>2. \A i \in 1 .. 1 - 1 : FALSE OBVIOUS
 <2>3. /\ f.rest \subseteq children'[Root] /\ f.todo \subseteq Needs(Root, q)' /\ f.todo = Needs(Root, q)'
   BY <1>1, <1>2
 <2>4. \A i \in 1 .. 1 : /\ stack'[i].rest \subseteq children'[BusAt(i)'] /\ stack'[i].todo \subseteq Needs(BusAt(i)', phase')
                         /\ stack'[i].todo = Needs(BusAt(i)', phase')
   BY <1>2, <1>3, <1>4, <2>1, <2>3
 <2> QED BY <1>2, <1>3, <1>5, <2>2, <2>4 DEF WalkFrames
<1> QED BY <1>1, <1>3, <1>4, <1>6

\* and nothing that has been laid out.
LEMMA WalkStartsLaid ==
  ASSUME MachineInv, NumberInv, NEW q \in Spaces, NEW start \in 0 .. Space - 1,
         stack' = <<Frame(Root, q, start)>>, phase' = q, UNCHANGED <<path, number, bars, children, devices>>,
         start > 0, start % Granularity(q) = 0, \A b \in Buses : limit'[b][q] = 0, base'[Root][q] = start
  PROVE  /\ \A i \in 1 .. Depth' : FrameLaid(phase, BusAt(i), stack[i], Called(i))'
         /\ \A i \in 1 .. Depth' - 1 : stack'[i].used <= base'[BusAt(i + 1)'][phase']
         /\ \A b \in Scanned : limit'[b][q] # 0 => Complete(b, q)'
         /\ \A c \in Fns : limit'[c][q] = 0
<1>1. /\ WalkFrames' /\ Depth' = 1 /\ BusAt(1)' = Root /\ Called(1)' = {}
      /\ stack'[1].rest = children[Root] /\ stack'[1].todo = Needs(Root, q) /\ stack'[1].used = start
  BY WalkStarts
<1>2. PICK f : f = stack'[1] OBVIOUS
<1>3. q = "io" => start % IoAlign = 0
 <2>1. ASSUME q = "io" PROVE start % IoAlign = 0
  <3>1. Granularity(q) = IoBridgeAlign /\ IoBridgeAlign % IoAlign = 0 /\ start \in Nat
    BY <2>1, Constants, PciAlignment, GranularityIs
  <3> QED BY <3>1, Constants, ModChain
 <2> QED BY <2>1
<1>4. FrameLaid(q, Root, f, {})'
 <2>1. children'[Root] \ (f.rest \cup {}) = {} /\ Needs(Root, q)' \ f.todo = {}
   BY <1>1, <1>2 DEF Needs, Registers, SpaceOf
 <2>2. Laid(q, {}, {}, start, start)' BY DEF Laid
 <2>3. limit'[Root][q] = 0 /\ start <= start /\ f.used = start BY <1>1, <1>2, BusFacts
 <2> QED BY <1>3, <2>1, <2>2, <2>3 DEF FrameLaid
<1>5. \A i \in 1 .. Depth' : FrameLaid(phase, BusAt(i), stack[i], Called(i))'
 <2> SUFFICES ASSUME NEW i \in 1 .. Depth' PROVE FrameLaid(phase, BusAt(i), stack[i], Called(i))'
   OBVIOUS
 <2>1. i = 1 BY <1>1
 <2>2. q = phase' /\ Root = BusAt(i)' /\ f = stack[i]' /\ {} = Called(i)' BY <1>1, <1>2, <2>1
 <2> QED BY <1>4, <2>2
<1>6. \A b \in Scanned : limit'[b][q] = 0 BY BusFacts DEF Scanned
<1>7. \A i \in 1 .. Depth' - 1 : FALSE BY <1>1
<1> QED BY <1>5, <1>6, <1>7, BusFacts
-----------------------------------------------------------------------------

\* The first space.
LEMMA DoneWalks ==
  ASSUME MachineInv, NumberInv, ResourceTypes, ScanDone, limit = [b \in Buses |-> [p \in Spaces |-> 0]]
  PROVE  ResourceTypes' /\ WalkFrames' /\ WalkInv'
<1>1. /\ base' = [base EXCEPT ![Root] = [p \in Spaces |-> IF p = "io" THEN IoStart ELSE MemStart]]
      /\ phase' = "io" /\ stack' = <<Frame(Root, "io", IoStart)>>
      /\ UNCHANGED <<machine, hardware, number, children, devices, limit, address, command, wrapped>>
  BY DEF ScanDone
<1>2. /\ UNCHANGED <<on, kind, bars, path, numbers, windows, bar, cmd>>
      /\ Registers' = Registers /\ Scanned' = Scanned
  BY <1>1 DEF machine, hardware, Registers, Scanned
<1>3. "io" \in Spaces /\ "mem" \in Spaces /\ "pref" \in Spaces BY DEF Spaces
<1>4. /\ base' \in [Buses -> [Spaces -> 0 .. Space - 1]]
      /\ base'[Root]["io"] = IoStart /\ base'[Root]["mem"] = MemStart
  BY <1>1, <1>3, Constants, BusFacts DEF ResourceTypes
<1>5. ResourceTypes' BY <1>1, <1>2, <1>4 DEF ResourceTypes
<1>6. IoStart \in 0 .. Space - 1 /\ IoStart > 0 /\ IoStart % Granularity("io") = 0
  BY Constants, PciAlignment DEF Granularity
<1>7. WalkFrames' BY <1>1, <1>2, <1>3, <1>6, WalkStarts
<1>8. \A b \in Buses, p \in Spaces : limit'[b][p] = 0 BY <1>1
<1>9. /\ \A i \in 1 .. Depth' : FrameLaid(phase, BusAt(i), stack[i], Called(i))'
      /\ \A i \in 1 .. Depth' - 1 : stack'[i].used <= base'[BusAt(i + 1)'][phase']
      /\ \A b \in Scanned : limit'[b]["io"] # 0 => Complete(b, "io")'
      /\ \A c \in Fns : limit'[c]["io"] = 0
  BY <1>1, <1>2, <1>3, <1>4, <1>6, <1>8, WalkStartsLaid
<1>10. Ungiven("mem")' /\ Ungiven("pref")' BY <1>3, <1>8 DEF Ungiven
<1> QED BY <1>1, <1>2, <1>4, <1>5, <1>7, <1>9, <1>10 DEF WalkInv
-----------------------------------------------------------------------------

\* A space has been given out.
LEMMA SpaceDone ==
  ASSUME MachineInv, NumberInv, ResourceTypes, WalkFrames, ~wrapped => WalkInv, NEW p \in Spaces, p = phase,
         WalkEnds, Top.bus = Root, UNCHANGED <<machine, hardware, tree, address, command>>,
         \A b \in Buses : base'[b][p] = base[b][p]
  PROVE  /\ limit' \in [Buses -> [Spaces -> 0 .. Space - 1]] /\ wrapped' \in BOOLEAN
         /\ limit'[Root][p] \in Nat /\ RoundUp(limit'[Root][p], Granularity(p)) \in Nat
         /\ ~wrapped' => /\ ~wrapped /\ Given(p)'
                         /\ \A b \in Buses, q \in Spaces : q # p => limit'[b][q] = limit[b][q]
                         /\ After(p, limit'[Root][p]) = limit'[Root][p] + 1
                         /\ (limit'[Root][p] + 1) % Granularity(p) = 0
<1>1. PICK t \in Buses, u \in Nat : t = Root /\ t = Top.bus /\ u = Top.used BY WalkTop, BusFacts
<1>2. PICK last : last = Limit(p, u) OBVIOUS
<1>3. /\ Top.rest = {} /\ Top.todo = {} /\ limit' = [limit EXCEPT ![t][p] = Ulong(last)]
      /\ wrapped' = (wrapped \/ last >= Space - 1 \/ (p = "io" /\ last >= IoSpace))
  BY <1>1, <1>2 DEF WalkEnds
<1>4. /\ UNCHANGED <<on, kind, bars, path, number, subordinate, children, devices, numbers, windows, bar, cmd>>
      /\ Registers' = Registers /\ Scanned' = Scanned
  BY Rigid
<1>5. last \in Int /\ Ulong(last) \in 0 .. Space - 1 BY <1>2, LimitIs, UlongIs
<1>6. /\ limit' \in [Buses -> [Spaces -> 0 .. Space - 1]] /\ limit'[t][p] = Ulong(last)
      /\ \A b \in Buses, q \in Spaces : b # t \/ q # p => limit'[b][q] = limit[b][q]
  BY <1>3, <1>5 DEF ResourceTypes
<1>7. limit'[t][p] \in Nat /\ RoundUp(limit'[t][p], Granularity(p)) \in Nat
 <2>1. limit'[t][p] \in Nat BY <1>5, <1>6, Constants
 <2> QED BY <2>1, GranularityIs, RoundUpFacts
<1>8. ASSUME ~wrapped'
      PROVE  /\ ~wrapped /\ Given(p)'
             /\ \A b \in Buses, q \in Spaces : q # p => limit'[b][q] = limit[b][q]
             /\ After(p, limit'[t][p]) = limit'[t][p] + 1 /\ (limit'[t][p] + 1) % Granularity(p) = 0
 <2>1. ~wrapped /\ WalkInv /\ last < Space - 1 /\ (p = "io" => last < IoSpace)
  <3>1. ~wrapped /\ ~(last >= Space - 1) /\ (p = "io" => ~(last >= IoSpace)) BY <1>3, <1>8
  <3> QED BY <1>5, <3>1, Constants
 <2>2. last \in Nat
  <3>1. /\ Depth \in 1 .. Depth /\ Top = stack[Depth] /\ t = BusAt(Depth) BY <1>1, WalkTop
  <3>2. FrameLaid(p, t, Top, Called(Depth)) BY <2>1, <3>1 DEF WalkInv
  <3>3. base[t][p] \in Nat BY Constants DEF ResourceTypes
  <3>4. u > 0 BY <1>1, <3>2, <3>3 DEF FrameLaid
  <3> QED BY <1>2, <3>4, LimitIs
 <2>3. Ulong(last) = last BY <2>1, <2>2, Constants, UlongIs
 <2>4. /\ last \in Nat \ {0} /\ (last + 1) % Granularity(p) = 0 /\ last + 1 < Space
       /\ RoundUp(last, Granularity(p)) = last + 1
       /\ Complete(t, p)' /\ \A x \in Scanned : limit[x][p] # 0 => Complete(x, p)'
  <3>1. limit'[t][p] = last BY <1>6, <2>3
  <3>2. UNCHANGED <<bars, number, children, devices, address, command>> BY <1>4
  <3> QED BY <1>1, <1>2, <1>3, <1>6, <2>1, <3>1, <3>2, BusEnds
 <2>5. Given(p)'
  <3>1. \A x \in Scanned : limit'[x][p] # 0 => Complete(x, p)'
   <4> SUFFICES ASSUME NEW x \in Scanned, limit'[x][p] # 0 PROVE Complete(x, p)' OBVIOUS
   <4>1. x \in Buses BY BusFacts DEF Scanned
   <4> QED BY <1>6, <2>4, <4>1
  <3>2. ASSUME NEW m \in Scanned PROVE limit'[m][p] # 0
   <4> DEFINE S == {x \in Scanned : limit'[x][p] = 0}
   <4>1. S = {}
    <5> SUFFICES ASSUME S # {} PROVE FALSE OBVIOUS
    <5>1. S \subseteq Nat BY BusFacts DEF Scanned
    <5>2. PICK x \in S : \A k \in S : x <= k BY <5>1, Least
    <5>3. x # Root BY <1>1, <1>6, <2>3, <2>4
    <5>4. x \in Fns /\ number[x] # 0 /\ limit'[x][p] = 0 BY <5>3 DEF Scanned
    <5>5. PICK y \in Scanned : y = on[x] BY <5>4, NumberedFacts
    <5>6. y \in Buses /\ y < x /\ y \notin S
     <6>1. y \in Buses /\ y < x BY <5>4, <5>5, PathFacts
     <6>2. y \in Nat /\ x \in Nat BY <5>4, <6>1, BusFacts
     <6> QED BY <5>2, <6>1, <6>2
    <5>7. Complete(y, p)' BY <3>1, <5>6
    <5>8. x \in children'[y] BY <1>4, <5>4, <5>5, <5>6 DEF NumberInv, On
    <5> QED BY <5>4, <5>7, <5>8 DEF Complete, Laid
   <4> QED BY <4>1
  <3> QED BY <1>4, <3>1, <3>2 DEF Given
 <2>6. \A b \in Buses, q \in Spaces : q # p => limit'[b][q] = limit[b][q] BY <1>6
 <2>7. After(p, limit'[t][p]) = last + 1 /\ limit'[t][p] = last
   BY <1>6, <2>3, <2>4, UlongIs DEF After
 <2> QED BY <2>1, <2>4, <2>5, <2>6, <2>7
<1>9. wrapped' \in BOOLEAN BY <1>3 DEF ResourceTypes
<1> QED BY <1>1, <1>6, <1>7, <1>8, <1>9
-----------------------------------------------------------------------------
\* I/O has been given out, and memory is next.
LEMMA IoDoneWalks ==
  ASSUME MachineInv, NumberInv, ResourceTypes, WalkFrames, ~wrapped => WalkInv, IoDone
  PROVE  ResourceTypes' /\ WalkFrames' /\ (~wrapped' => WalkInv')
<1>1. /\ phase = "io" /\ WalkEnds /\ Top.bus = Root
      /\ phase' = "mem" /\ stack' = <<Frame(Root, "mem", MemStart)>>
      /\ UNCHANGED <<machine, hardware, tree, base, address, command>>
  BY DEF IoDone
<1>2. /\ UNCHANGED <<on, kind, bars, path, number, subordinate, children, devices, numbers, windows, bar, cmd>>
      /\ Registers' = Registers /\ Scanned' = Scanned
  BY <1>1, Rigid
<1>3. "io" \in Spaces /\ "mem" \in Spaces /\ "pref" \in Spaces BY DEF Spaces
<1>4. /\ limit' \in [Buses -> [Spaces -> 0 .. Space - 1]] /\ wrapped' \in BOOLEAN
      /\ ~wrapped' => /\ ~wrapped /\ Given("io")'
                      /\ \A b \in Buses, q \in Spaces : q # "io" => limit'[b][q] = limit[b][q]
  BY <1>1, <1>3, SpaceDone
<1>5. ResourceTypes' BY <1>1, <1>2, <1>4 DEF ResourceTypes
<1>6. MemStart \in 0 .. Space - 1 /\ MemStart > 0 /\ MemStart % Granularity("mem") = 0
  BY Constants, PciAlignment DEF Granularity
<1>7. WalkFrames' BY <1>1, <1>2, <1>3, <1>6, WalkStarts
<1>8. ASSUME ~wrapped' PROVE WalkInv'
 <2>1. WalkInv /\ Given("io")' /\ \A b \in Buses, q \in Spaces : q # "io" => limit'[b][q] = limit[b][q]
   BY <1>4, <1>8
 <2>2. Ungiven("mem") /\ Ungiven("pref") /\ base[Root]["mem"] = MemStart
   BY <1>1, <2>1 DEF WalkInv
 <2>3. (\A b \in Buses : limit'[b]["mem"] = 0) /\ Ungiven("pref")'
   BY <1>3, <2>1, <2>2 DEF Ungiven
 <2>4. /\ \A i \in 1 .. Depth' : FrameLaid(phase, BusAt(i), stack[i], Called(i))'
       /\ \A i \in 1 .. Depth' - 1 : stack'[i].used <= base'[BusAt(i + 1)'][phase']
       /\ \A b \in Scanned : limit'[b]["mem"] # 0 => Complete(b, "mem")'
       /\ \A c \in Fns : limit'[c]["mem"] = 0
   BY <1>1, <1>2, <1>3, <1>6, <2>2, <2>3, WalkStartsLaid
 <2> QED BY <1>1, <1>2, <2>1, <2>3, <2>4 DEF WalkInv
<1> QED BY <1>5, <1>7, <1>8

\* Memory has, and prefetchable memory starts behind it.
LEMMA MemDoneWalks ==
  ASSUME MachineInv, NumberInv, ResourceTypes, WalkFrames, ~wrapped => WalkInv, MemDone
  PROVE  ResourceTypes' /\ WalkFrames' /\ (~wrapped' => WalkInv')
<1>1. PICK start : start = After("mem", limit'[Root]["mem"]) OBVIOUS
<1>2. /\ phase = "mem" /\ WalkEnds /\ Top.bus = Root
      /\ phase' = "pref" /\ stack' = <<Frame(Root, "pref", start)>>
      /\ base' = [base EXCEPT ![Root]["pref"] = start]
      /\ UNCHANGED <<machine, hardware, tree, address, command>>
  BY <1>1 DEF MemDone
<1>3. /\ UNCHANGED <<on, kind, bars, path, number, subordinate, children, devices, numbers, windows, bar, cmd>>
      /\ Registers' = Registers /\ Scanned' = Scanned
  BY <1>2, Rigid
<1>4. "io" \in Spaces /\ "mem" \in Spaces /\ "pref" \in Spaces BY DEF Spaces
<1>5. \A b \in Buses, q \in Spaces : q # "pref" => base'[b][q] = base[b][q]
  BY <1>2 DEF ResourceTypes
<1>6. /\ limit' \in [Buses -> [Spaces -> 0 .. Space - 1]] /\ wrapped' \in BOOLEAN
      /\ limit'[Root]["mem"] \in Nat /\ RoundUp(limit'[Root]["mem"], Granularity("mem")) \in Nat
      /\ ~wrapped' => /\ ~wrapped /\ Given("mem")'
                      /\ \A b \in Buses, q \in Spaces : q # "mem" => limit'[b][q] = limit[b][q]
                      /\ start = limit'[Root]["mem"] + 1 /\ start % Granularity("mem") = 0
 <2>1. \A b \in Buses : base'[b]["mem"] = base[b]["mem"] BY <1>4, <1>5
 <2> QED BY <1>1, <1>2, <1>4, <2>1, SpaceDone
<1>7. start \in 0 .. Space - 1 BY <1>1, <1>6, UlongIs DEF After
<1>8. base' \in [Buses -> [Spaces -> 0 .. Space - 1]] /\ base'[Root]["pref"] = start
  BY <1>2, <1>4, <1>7, BusFacts DEF ResourceTypes
<1>9. ResourceTypes' BY <1>2, <1>3, <1>6, <1>8 DEF ResourceTypes
<1>10. WalkFrames' BY <1>2, <1>3, <1>4, <1>7, WalkStarts
<1>11. ASSUME ~wrapped' PROVE WalkInv'
 <2>1. /\ WalkInv /\ Given("mem")' /\ \A b \in Buses, q \in Spaces : q # "mem" => limit'[b][q] = limit[b][q]
       /\ start = limit'[Root]["mem"] + 1 /\ start % Granularity("mem") = 0
   BY <1>6, <1>11
 <2>2. Ungiven("pref") /\ Given("io") BY <1>2, <2>1 DEF WalkInv
 <2>3. \A b \in Buses : limit'[b]["pref"] = 0 BY <1>4, <2>1, <2>2 DEF Ungiven
 <2>4. Given("io")'
  <3>1. \A b \in Buses : limit'[b]["io"] = limit[b]["io"] /\ base'[b]["io"] = base[b]["io"]
    BY <1>4, <1>5, <2>1
  <3>2. \A b \in Buses : children[b] \subseteq Buses BY ChildFacts
  <3>3. UNCHANGED <<address, command>> BY <1>2
  <3> QED BY <1>3, <1>4, <2>2, <3>1, <3>2, <3>3, GivenStays
 <2>5. start > 0 /\ limit'[Root]["mem"] < start /\ start % Granularity("pref") = 0
   BY <1>6, <2>1 DEF Granularity
 <2>6. /\ \A i \in 1 .. Depth' : FrameLaid(phase, BusAt(i), stack[i], Called(i))'
       /\ \A i \in 1 .. Depth' - 1 : stack'[i].used <= base'[BusAt(i + 1)'][phase']
       /\ \A b \in Scanned : limit'[b]["pref"] # 0 => Complete(b, "pref")'
       /\ \A c \in Fns : limit'[c]["pref"] = 0
   BY <1>2, <1>3, <1>4, <1>7, <1>8, <2>3, <2>5, WalkStartsLaid
 <2> QED BY <1>2, <1>3, <1>8, <2>1, <2>4, <2>5, <2>6 DEF WalkInv
<1> QED BY <1>9, <1>10, <1>11

\* All has been given out.
LEMMA PrefDoneLays ==
  ASSUME MachineInv, NumberInv, ResourceTypes, WalkFrames, ~wrapped => WalkInv, PrefDone
  PROVE  ResourceTypes' /\ (~wrapped' => LaidInv')
<1>1. /\ phase = "pref" /\ WalkEnds /\ Top.bus = Root
      /\ UNCHANGED <<machine, hardware, tree, base, address, command>>
  BY DEF PrefDone
<1>2. /\ UNCHANGED <<on, kind, bars, path, number, subordinate, children, devices, numbers, windows, bar, cmd>>
      /\ Registers' = Registers /\ Scanned' = Scanned
  BY <1>1, Rigid
<1>3. "io" \in Spaces /\ "mem" \in Spaces /\ "pref" \in Spaces BY DEF Spaces
<1>4. /\ limit' \in [Buses -> [Spaces -> 0 .. Space - 1]] /\ wrapped' \in BOOLEAN
      /\ ~wrapped' => /\ ~wrapped /\ Given("pref")'
                      /\ \A b \in Buses, q \in Spaces : q # "pref" => limit'[b][q] = limit[b][q]
  BY <1>1, <1>3, SpaceDone
<1>5. ResourceTypes' BY <1>1, <1>2, <1>4 DEF ResourceTypes
<1>6. ASSUME ~wrapped' PROVE LaidInv'
 <2>1. WalkInv /\ Given("pref")' /\ \A b \in Buses, q \in Spaces : q # "pref" => limit'[b][q] = limit[b][q]
   BY <1>4, <1>6
 <2>2. Given("io") /\ Given("mem") /\ limit[Root]["mem"] < base[Root]["pref"]
   BY <1>1, <2>1 DEF WalkInv
 <2>3. \A b \in Buses : children[b] \subseteq Buses BY ChildFacts
 <2>4. ASSUME NEW q \in Spaces, q # "pref", Given(q) PROVE Given(q)'
  <3>1. \A b \in Buses : limit'[b][q] = limit[b][q] /\ base'[b][q] = base[b][q]
    BY <1>1, <2>1, <2>4
  <3>2. UNCHANGED <<number, bars, children, devices, address, command>> BY <1>1, <1>2
  <3> QED BY <2>3, <2>4, <3>1, <3>2, GivenStays
 <2>5. Given("io")' /\ Given("mem")' BY <1>3, <2>2, <2>4
 <2>6. limit'[Root]["mem"] < base'[Root]["pref"] BY <1>1, <1>3, <2>1, <2>2, BusFacts
 <2> QED BY <2>1, <2>5, <2>6 DEF LaidInv
<1> QED BY <1>5, <1>6
-----------------------------------------------------------------------------
\* A base register holds a number.
LEMMA KeptIs ==
  ASSUME NEW p \in Spaces, NEW v \in Nat PROVE Kept(p, v) \in Int
<1>1. PICK g \in Nat \ {0, 1} : g = Granularity(p) BY GranularityIs
<1>2. PICK k \in Nat : k = v \div g BY DivMod
<1>3. PICK w \in Nat : w = (v \div g) * g BY <1>2, MultipleMod
<1> QED BY <1>1, <1>3, Constants DEF Kept

\* What is in the registers of a bridge is what has been computed for it.
LEMMA WindowIs ==
  ASSUME NEW p \in Spaces, NEW b \in Buses, NEW lo \in Nat, NEW hi \in Nat, lo = base[b][p], hi = limit[b][p],
         lo % Granularity(p) = 0, (hi + 1) % Granularity(p) = 0, p = "io" => lo < IoSpace /\ hi < IoSpace
  PROVE  WindowOf(b, p) = <<base[b][p], limit[b][p]>>
<1>1. PICK g \in Nat \ {0, 1} : g = Granularity(p) BY GranularityIs
<1>2. (lo \div g) * g = lo /\ (hi \div g) * g = hi + 1 - g /\ (hi \div g) * g \in Nat
 <2>1. (lo \div g) * g = lo BY <1>1, KeptAligned
 <2>2. (hi \div g) * g = hi + 1 - g BY <1>1, KeptLast
 <2>3. PICK k \in Nat : k = hi \div g BY DivMod
 <2> QED BY <2>1, <2>2, <2>3, MultipleMod
<1>3. Kept(p, lo) = lo BY <1>1, <1>2, Constants, ModSmall DEF Kept
<1>4. Kept(p, hi) = hi + 1 - g
 <2>1. PICK w \in Nat : w = hi + 1 - g /\ w = (hi \div g) * g BY <1>2
 <2>2. p = "io" => w < IoSpace BY <1>1, <2>1, Constants
 <2> QED BY <1>1, <2>1, <2>2, Constants, ModSmall DEF Kept
<1>5. Kept(p, hi) + g - 1 = hi BY <1>1, <1>4
<1> QED BY <1>1, <1>3, <1>5 DEF WindowOf

\* What of it concerns one bus.
LEMMA LaidFacts ==
  ASSUME ResourceTypes, LaidInv, NEW b \in Scanned, NEW p \in Spaces
  PROVE  /\ limit[b][p] # 0 /\ Complete(b, p) /\ base[b][p] \in Nat \ {0} /\ limit[b][p] \in Nat /\ b \in Buses
         /\ base[b][p] % Granularity(p) = 0 /\ (limit[b][p] + 1) % Granularity(p) = 0
         /\ p = "io" => limit[b][p] < IoSpace /\ (b # Root => base[b][p] < IoSpace)
         /\ base[b][p] <= limit[b][p] + 1
         /\ Laid(p, children[b], Needs(b, p), base[b][p], limit[b][p] + 1)
<1>1. limit[b][p] # 0 /\ Complete(b, p) BY DEF LaidInv, Given, Spaces
<1>2. b \in Buses BY BusFacts DEF Scanned
<1>3. base[b][p] \in Nat /\ limit[b][p] \in Nat BY <1>2, Constants DEF ResourceTypes
<1> QED BY <1>1, <1>2, <1>3 DEF Complete

\* A function that has been found is on a bus that is scanned.
LEMMA ChainFacts ==
  ASSUME MachineInv, NumberInv, FoundInv, NEW f \in Chain
  PROVE  f \in Fns /\ on[f] \in Scanned /\ on[f] \in Buses /\ f \in devices[on[f]]
<1>1. PICK b \in Buses : f \in devices[b] BY DEF Chain
<1>2. f \in On(b) /\ b \in Scanned BY <1>1 DEF NumberInv, FoundInv
<1> QED BY <1>1, <1>2 DEF On

\* Writing the registers: windows and addresses are in the hardware as they have been
\* computed, since what a register cannot hold of them is 0.
LEMMA AssignSets ==
  ASSUME MachineInv, NumberInv, FoundInv, ResourceTypes, Assign, ~wrapped => LaidInv,
         windows = [f \in Fns |-> [p \in Spaces |-> Shut]], bar = [r \in Registers |-> Off]
  PROVE  ResourceTypes' /\ (~wrapped' => LaidInv' /\ SetInv')
<1>1. /\ phase = "assign" /\ phase' = "enable"
      /\ windows' = [f \in Fns |-> [p \in Spaces |->
                       IF f \in Programmed /\ base[f][p] # 0 THEN WindowOf(f, p) ELSE windows[f][p]]]
      /\ command' = [f \in Fns |-> IF f \in Programmed THEN BridgeCommand(f) ELSE command[f]]
      /\ bar' = [r \in Registers |->
                   IF r.fn \in Chain /\ address[r] # 0 THEN (address[r] \div SizeOf(r)) * SizeOf(r) ELSE bar[r]]
      /\ UNCHANGED <<machine, numbers, cmd, stack, tree, base, limit, address, wrapped>>
  BY DEF Assign
<1>2. /\ UNCHANGED <<on, kind, bars, path, number, subordinate, children, devices>>
      /\ Registers' = Registers /\ Scanned' = Scanned /\ Programmed' = Programmed /\ Chain' = Chain
      /\ \A b, p : Needs(b, p)' = Needs(b, p)
      /\ \A r \in Registers : SizeOf(r)' = SizeOf(r) /\ SpaceOf(r)' = SpaceOf(r)
  BY <1>1 DEF machine, tree, Registers, Scanned, Programmed, Chain, Needs, SizeOf, SpaceOf
<1>3. \A r \in Registers : /\ address[r] \in Nat /\ address[r] < Space /\ SizeOf(r) \in Nat \ {0}
                           /\ (address[r] \div SizeOf(r)) * SizeOf(r) \in Nat
                           /\ (address[r] \div SizeOf(r)) * SizeOf(r) <= address[r]
                           /\ address[r] % SizeOf(r) = 0 => (address[r] \div SizeOf(r)) * SizeOf(r) = address[r]
 <2> SUFFICES ASSUME NEW r \in Registers
              PROVE  /\ address[r] \in Nat /\ address[r] < Space /\ SizeOf(r) \in Nat \ {0}
                     /\ (address[r] \div SizeOf(r)) * SizeOf(r) \in Nat
                     /\ (address[r] \div SizeOf(r)) * SizeOf(r) <= address[r]
                     /\ address[r] % SizeOf(r) = 0 => (address[r] \div SizeOf(r)) * SizeOf(r) = address[r]
   OBVIOUS
 <2>1. PICK a \in Nat, s \in Nat \ {0} : a = address[r] /\ s = SizeOf(r) /\ a < Space
   BY RegisterFacts, Constants DEF ResourceTypes
 <2>2. /\ (a \div s) * s \in Nat /\ (a \div s) * s <= a
       /\ a % s = 0 => (a \div s) * s = a
   BY DivMod, KeptAligned
 <2> QED BY <2>1, <2>2
<1>4. ResourceTypes'
 <2>1. windows' \in [Fns -> [Spaces -> Int \X Int]]
  <3>1. ASSUME NEW f \in Fns, NEW p \in Spaces PROVE WindowOf(f, p) \in Int \X Int
   <4>1. base[f][p] \in Nat /\ limit[f][p] \in Nat BY BusFacts, Constants DEF ResourceTypes
   <4>2. Kept(p, base[f][p]) \in Int /\ Kept(p, limit[f][p]) \in Int /\ Granularity(p) \in Int
     BY <4>1, KeptIs, GranularityIs
   <4> QED BY <4>2 DEF WindowOf
  <3>2. Shut \in Int \X Int BY DEF Shut
  <3>3. \A f \in Fns, p \in Spaces :
          (IF f \in Programmed /\ base[f][p] # 0 THEN WindowOf(f, p) ELSE windows[f][p]) \in Int \X Int
    BY <3>1, <3>2
  <3> QED BY <1>1, <3>3
 <2>2. command' \in [Fns -> SUBSET Bits] BY <1>1 DEF ResourceTypes, BridgeCommand, Bits
 <2>3. bar' \in [Registers -> Off .. Space - 1]
  <3>1. \A r \in Registers : (IF r.fn \in Chain /\ address[r] # 0 THEN (address[r] \div SizeOf(r)) * SizeOf(r)
                              ELSE bar[r]) \in Off .. Space - 1
    BY <1>3, Constants DEF Off
  <3> QED BY <1>1, <3>1
 <2> QED BY <1>1, <1>2, <2>1, <2>2, <2>3 DEF ResourceTypes
<1>5. Programmed \subseteq Fns /\ Programmed \subseteq Scanned
  BY BusFacts, ChildFacts DEF Programmed
<1>6. ASSUME ~wrapped' PROVE LaidInv' /\ SetInv'
 <2>1. LaidInv BY <1>1, <1>6
 <2>2. \A f \in Programmed, p \in Spaces : base[f][p] # 0 BY <1>5, <2>1, LaidFacts
 <2>3. \A f \in Programmed : {"io", "mem"} \subseteq command'[f]
  <3> SUFFICES ASSUME NEW f \in Programmed PROVE {"io", "mem"} \subseteq command'[f] OBVIOUS
  <3>1. f \in Fns /\ base[f]["io"] # 0 /\ base[f]["mem"] # 0 BY <1>5, <2>2 DEF Spaces
  <3> QED BY <1>1, <3>1 DEF BridgeCommand
 <2>4. \A f \in Fns, p \in Spaces : Bit(p) \in command[f] => Bit(p) \in command'[f]
   BY <1>1, <2>3 DEF Bit
 <2>5. \A p \in Spaces : Given(p) => Given(p)'
  <3> SUFFICES ASSUME NEW p \in Spaces, Given(p) PROVE Given(p)' OBVIOUS
  <3>1. \A b \in Buses : children[b] \subseteq Buses BY ChildFacts
  <3>2. \A b \in Buses : \A r \in Needs(b, p) :
          address'[r] = address[r] /\ (Bit(p) \in command[r.fn] => Bit(p) \in command'[r.fn])
    BY <1>1, <2>4, NeedsFacts
  <3> QED BY <1>1, <1>2, <3>1, <3>2, GivenStays
 <2>6. LaidInv' BY <1>1, <2>1, <2>5 DEF LaidInv, Spaces
 <2>7. ASSUME NEW f \in Fns, NEW p \in Spaces
       PROVE  windows'[f][p] = IF f \in Programmed THEN <<base[f][p], limit[f][p]>> ELSE Shut
  <3>1. CASE f \in Programmed
   <4>1. f \in Scanned /\ f # Root /\ base[f][p] # 0 BY <1>5, <2>2, <3>1, BusFacts
   <4>2. WindowOf(f, p) = <<base[f][p], limit[f][p]>> BY <2>1, <4>1, LaidFacts, WindowIs
   <4> QED BY <1>1, <3>1, <4>1, <4>2
  <3>2. CASE f \notin Programmed BY <1>1, <3>2
  <3> QED BY <3>1, <3>2
 <2>8. ASSUME NEW r \in Registers, r.fn \in Chain
       PROVE  bar'[r] # Off /\ ((SpaceOf(r) = "io" => SmallIo) => bar'[r] = address[r])
  <3>1. on[r.fn] \in Scanned /\ on[r.fn] \in Buses /\ r \in Needs(on[r.fn], SpaceOf(r)) /\ SpaceOf(r) \in Spaces
    BY <2>8, ChainFacts, RegisterFacts DEF Needs
  <3>2. base[on[r.fn]][SpaceOf(r)] <= address[r] /\ Settled(r, SpaceOf(r)) /\ base[on[r.fn]][SpaceOf(r)] \in Nat \ {0}
    BY <2>1, <3>1, LaidFacts DEF Laid
  <3>3. address[r] # 0 BY <1>3, <3>2
  <3>4. bar'[r] = (address[r] \div SizeOf(r)) * SizeOf(r) BY <1>1, <2>8, <3>3
  <3> QED BY <1>3, <3>2, <3>4 DEF Off, Settled
 <2>9. \A r \in Registers : r.fn \notin Chain => bar'[r] = Off BY <1>1
 <2>10. SetInv'
  <3>1. SmallIo' = SmallIo BY DEF SmallIo
  <3> QED BY <1>1, <1>2, <2>3, <2>7, <2>8, <2>9, <3>1 DEF SetInv
 <2> QED BY <2>6, <2>10
<1> QED BY <1>4, <1>6

\* Writing the command registers: they have the bits that have been collected.
LEMMA EnableSets ==
  ASSUME MachineInv, NumberInv, FoundInv, ResourceTypes, Enable, ~wrapped => LaidInv /\ SetInv
  PROVE  ResourceTypes' /\ (~wrapped' => LaidInv' /\ SetInv')
<1>1. /\ phase = "enable" /\ phase' = "done"
      /\ cmd' = [f \in Fns |-> IF f \in Chain THEN cmd[f] \cup command[f] ELSE cmd[f]]
      /\ UNCHANGED <<machine, numbers, windows, bar, stack, tree, base, limit, address, command, wrapped>>
  BY DEF Enable, resources
<1>2. /\ UNCHANGED <<on, kind, bars, path, number, subordinate, children, devices>>
      /\ Registers' = Registers /\ Scanned' = Scanned /\ Programmed' = Programmed /\ Chain' = Chain
      /\ \A b, p : Needs(b, p)' = Needs(b, p)
      /\ \A r \in Registers : SizeOf(r)' = SizeOf(r) /\ SpaceOf(r)' = SpaceOf(r)
  BY <1>1 DEF machine, tree, Registers, Scanned, Programmed, Chain, Needs, SizeOf, SpaceOf
<1>3. ResourceTypes'
 <2>1. cmd' \in [Fns -> SUBSET Bits] BY <1>1 DEF ResourceTypes
 <2> QED BY <1>1, <1>2, <2>1 DEF ResourceTypes
<1>4. ASSUME ~wrapped' PROVE LaidInv' /\ SetInv'
 <2>1. LaidInv /\ SetInv BY <1>1, <1>4
 <2>2. LaidInv'
  <3>1. \A p \in Spaces : Given(p) => Given(p)'
   <4>1. \A b \in Buses : children[b] \subseteq Buses BY ChildFacts
   <4> QED BY <1>1, <1>2, <4>1, GivenStays
  <3> QED BY <1>1, <2>1, <3>1 DEF LaidInv, Spaces
 <2>3. \A f \in Chain : command'[f] \subseteq cmd'[f] BY <1>1, ChainFacts
 <2>4. SmallIo' = SmallIo BY DEF SmallIo
 <2>5. /\ \A f \in Fns, p \in Spaces :
            windows[f][p] = IF f \in Programmed THEN <<base[f][p], limit[f][p]>> ELSE Shut
       /\ \A r \in Registers : r.fn \in Chain => bar[r] # Off /\ ((SpaceOf(r) = "io" => SmallIo) => bar[r] = address[r])
       /\ \A r \in Registers : r.fn \notin Chain => bar[r] = Off
       /\ \A f \in Programmed : {"io", "mem"} \subseteq command[f]
   BY <1>1, <2>1 DEF SetInv
 <2>6. SetInv' BY <1>1, <1>2, <2>3, <2>4, <2>5 DEF SetInv
 <2> QED BY <2>2, <2>6
<1> QED BY <1>3, <1>4
-----------------------------------------------------------------------------
\* The invariant holds before the first bus has been looked at,
LEMMA InvAtFirst == PciInit => PciIInv
<1> SUFFICES ASSUME PciInit PROVE PciIInv OBVIOUS
<1>1. /\ windows = [f \in Fns |-> [p \in Spaces |-> Shut]] /\ bar = [r \in Registers |-> Off]
      /\ cmd = [f \in Fns |-> {}] /\ phase = "scan"
      /\ stack = <<[bus |-> Root, probed |-> FALSE, max |-> 0, rest |-> {}]>>
      /\ number = [b \in Buses |-> 0] /\ subordinate = [b \in Buses |-> 0]
      /\ children = [b \in Buses |-> {}] /\ devices = [b \in Buses |-> {}]
      /\ base = [b \in Buses |-> [p \in Spaces |-> 0]] /\ limit = [b \in Buses |-> [p \in Spaces |-> 0]]
      /\ address = [r \in Registers |-> 0] /\ command = [f \in Fns |-> {}] /\ wrapped = FALSE
  BY DEF PciInit
<1>2. PICK odd \in PowerUp : numbers = [f \in Fns |-> IF FirstBridge(f) THEN odd ELSE Unnumbered]
  BY DEF PciInit
<1>3. MachineInv BY MachineAtFirst
<1>4. Root \in Buses /\ Fns \subseteq Buses /\ Root \notin Fns /\ Root = 0 /\ Scanned = {Root}
  BY <1>1, BusFacts DEF Scanned
<1>5. NumberInv
 <2>1. odd \in [secondary : 0 .. LastBus, subordinate : 0 .. LastBus] BY PciAssumption
 <2>2. Unnumbered \in [secondary : 0 .. LastBus, subordinate : 0 .. LastBus]
   BY Constants DEF Unnumbered
 <2>3. numbers \in [Fns -> [secondary : 0 .. LastBus, subordinate : 0 .. LastBus]]
   BY <1>2, <2>1, <2>2
 <2>4. \A b \in Fns : numbers[b] = Unnumbered \/ FirstBridge(b) BY <1>2
 <2>5. \A b \in Buses : number[b] = 0 /\ subordinate[b] = 0 /\ devices[b] = {} /\ {c \in On(b) : number[c] # 0} = {}
   BY <1>1, <1>4 DEF On
 <2>6. number \in [Buses -> 0 .. N] /\ subordinate \in [Buses -> 0 .. LastBus] BY <1>1, Constants
 <2>7. children = [b \in Buses |-> {c \in On(b) : number[c] # 0}] BY <1>1, <2>5
 <2> QED BY <1>1, <1>4, <2>3, <2>4, <2>5, <2>6, <2>7 DEF NumberInv
<1>6. ResourceTypes
 <2>1. 0 \in 0 .. Space - 1 /\ Off \in Off .. Space - 1 /\ Shut \in Int \X Int
   BY Constants DEF Off, Shut
 <2> QED BY <1>1, <2>1 DEF ResourceTypes
<1>7. PICK g : g = [bus |-> Root, probed |-> FALSE, max |-> 0, rest |-> {}] OBVIOUS
<1>8. g \in ScanFrame /\ stack = <<g>> /\ g.bus = Root /\ g.probed = FALSE
  BY <1>1, <1>4, <1>7, Constants DEF ScanFrame
<1>9. Depth = 1 /\ stack[1] = g /\ Top = g /\ BusAt(1) = Root /\ stack \in Seq(ScanFrame)
  BY <1>8 DEF Depth, Top, BusAt
<1>10. Line BY <1>3, <1>4, <1>9 DEF Line, MachineInv
<1>11. Unsearched(Root) BY <1>1, <1>4 DEF Unsearched, On
<1>12. ScanFrames BY <1>8, <1>9, <1>10, <1>11 DEF ScanFrames
<1>13. Highest = 0 BY <1>1, <1>4, <1>8, <1>9 DEF Highest
<1>14. Cardinality({b \in Fns : number[b] # 0}) = 0
 <2>1. {b \in Fns : number[b] # 0} = {} BY <1>1, <1>4
 <2> QED BY <2>1, FS_EmptySet
<1>15. ScanInv
 <2>1. OnStack(Root) /\ \A b \in Fns : ~ OnStack(b) BY <1>4, <1>9 DEF OnStack
 <2> QED BY <1>1, <1>4, <1>12, <1>13, <1>14, <2>1 DEF ScanInv
<1> QED BY <1>1, <1>3, <1>5, <1>6, <1>15 DEF PciIInv, Spaces

\* and every step keeps it.
LEMMA InvStays == PciIInv /\ [PciNext]_pciVars => PciIInv'
<1> SUFFICES ASSUME PciIInv, [PciNext]_pciVars PROVE PciIInv' OBVIOUS
<1>0. MachineInv /\ NumberInv /\ ResourceTypes BY DEF PciIInv
<1>1. ASSUME PciIInv, phase = "scan" PROVE ScanInv /\ limit = [b \in Buses |-> [p \in Spaces |-> 0]] /\ ~wrapped
  BY <1>1 DEF PciIInv
<1>2. ASSUME phase \in Spaces PROVE FoundInv /\ WalkFrames /\ (~wrapped => WalkInv)
  BY <1>2 DEF PciIInv, Spaces
<1>3. ASSUME phase \in {"scan", "assign"} \cup Spaces
      PROVE  windows = [f \in Fns |-> [p \in Spaces |-> Shut]] /\ bar = [r \in Registers |-> Off]
  BY <1>3 DEF PciIInv
\* While the buses are scanned.
<1>4. ASSUME NumberInv', ScanInv', phase = "scan", phase' = "scan", UNCHANGED <<machine, windows, bar, cmd, resources>>
      PROVE  PciIInv'
 <2>1. MachineInv' /\ UNCHANGED <<on, kind, bars, path, base, limit, address, command, wrapped>>
   BY <1>0, <1>4, MachineStays DEF machine, resources
 <2>2. Registers' = Registers BY <2>1 DEF Registers
 <2>3. ResourceTypes' BY <1>0, <1>4, <2>1, <2>2 DEF ResourceTypes
 <2> QED BY <1>1, <1>3, <1>4, <2>1, <2>2, <2>3 DEF PciIInv, Spaces
<1>5. CASE Probe BY <1>0, <1>1, <1>4, <1>5, ProbeScans DEF Probe, hardware
<1>6. CASE SkipBridge BY <1>0, <1>1, <1>4, <1>6, SkipScans DEF SkipBridge, hardware
<1>7. CASE ScanBehind BY <1>0, <1>1, <1>4, <1>7, ScanBehindScans DEF ScanBehind
<1>8. CASE ReturnFromBus BY <1>0, <1>1, <1>4, <1>8, ReturnScans DEF ReturnFromBus
\* While addresses are given out.
<1>9. ASSUME MachineInv', NumberInv', FoundInv', ResourceTypes', WalkFrames', ~wrapped' => WalkInv',
             phase \in {"scan"} \cup Spaces, phase' \in Spaces, UNCHANGED <<machine, windows, bar>>
      PROVE  PciIInv'
 <2>1. Registers' = Registers BY <1>9 DEF machine, Registers
 <2> QED BY <1>3, <1>9, <2>1 DEF PciIInv, Spaces
<1>10. CASE ScanDone
 <2>1. phase = "scan" /\ phase' = "io" /\ UNCHANGED <<machine, hardware>> BY <1>10 DEF ScanDone
 <2>2. NumberInv' /\ FoundInv' /\ MachineInv' BY <1>0, <1>1, <1>10, <2>1, DoneFound, MachineStays
 <2>3. ResourceTypes' /\ WalkFrames' /\ WalkInv' BY <1>0, <1>1, <1>10, <2>1, DoneWalks
 <2> QED BY <1>9, <2>1, <2>2, <2>3 DEF hardware, Spaces
<1>11. ASSUME phase \in Spaces, phase' \in Spaces, UNCHANGED <<machine, hardware, tree>>,
              ResourceTypes', WalkFrames', ~wrapped' => WalkInv'
       PROVE  PciIInv'
 <2>1. UNCHANGED <<on, kind, bars, path, numbers, tree, windows, bar>>
   BY <1>11 DEF machine, hardware
 <2>2. MachineInv' /\ NumberInv' /\ FoundInv' BY <1>0, <1>2, <1>11, <2>1, FoundStays
 <2> QED BY <1>9, <1>11, <2>1, <2>2
<1>12. CASE Descend
 <2>1. phase \in Spaces /\ phase' = phase /\ UNCHANGED <<machine, hardware, tree>>
   BY <1>12 DEF Descend
 <2> QED BY <1>0, <1>2, <1>11, <1>12, <2>1, DescendWalks
<1>13. CASE Place
 <2>1. phase \in Spaces /\ phase' = phase /\ UNCHANGED <<machine, hardware, tree>>
   BY <1>13 DEF Place
 <2> QED BY <1>0, <1>2, <1>11, <1>13, <2>1, PlaceWalks
<1>14. CASE Ascend
 <2>1. phase \in Spaces /\ phase' = phase /\ UNCHANGED <<machine, hardware, tree>>
   BY <1>14 DEF Ascend, WalkEnds
 <2> QED BY <1>0, <1>2, <1>11, <1>14, <2>1, AscendWalks
<1>15. CASE IoDone
 <2>1. phase \in Spaces /\ phase' \in Spaces /\ UNCHANGED <<machine, hardware, tree>>
   BY <1>15 DEF IoDone, Spaces
 <2> QED BY <1>0, <1>2, <1>11, <1>15, <2>1, IoDoneWalks
<1>16. CASE MemDone
 <2>1. phase \in Spaces /\ phase' \in Spaces /\ UNCHANGED <<machine, hardware, tree>>
   BY <1>16 DEF MemDone, Spaces
 <2> QED BY <1>0, <1>2, <1>11, <1>16, <2>1, MemDoneWalks
\* And once they have been.
<1>17. CASE PrefDone
 <2>1. phase \in Spaces /\ phase' = "assign" /\ stack' = <<>> /\ UNCHANGED <<machine, hardware, tree>>
   BY <1>17 DEF PrefDone, Spaces
 <2>2. UNCHANGED <<on, kind, bars, path, numbers, tree, windows, bar>> /\ Registers' = Registers
   BY <2>1, Rigid DEF machine, hardware
 <2>3. MachineInv' /\ NumberInv' /\ FoundInv' BY <1>0, <1>2, <2>1, <2>2, FoundStays
 <2>4. ResourceTypes' /\ (~wrapped' => LaidInv') BY <1>0, <1>2, <1>17, <2>1, PrefDoneLays
 <2>5. SetInv' BY <2>1 DEF SetInv
 <2> QED BY <1>3, <2>1, <2>2, <2>3, <2>4, <2>5 DEF PciIInv, Spaces
<1>18. ASSUME phase \in {"assign", "enable", "done"}, phase' \in {"enable", "done"}, stack' = stack,
              UNCHANGED <<on, kind, bars, path, numbers, tree>>, ResourceTypes', ~wrapped' => LaidInv' /\ SetInv'
       PROVE  PciIInv'
 <2>1. MachineInv' /\ NumberInv' /\ FoundInv'
  <3>1. FoundInv BY <1>18 DEF PciIInv
  <3> QED BY <1>0, <1>18, <3>1, FoundStays
 <2>2. Len(stack') = 0 BY <1>18 DEF PciIInv
 <2> QED BY <1>18, <2>1, <2>2 DEF PciIInv, Spaces
<1>19. ASSUME phase \in {"assign", "enable", "done"} PROVE FoundInv /\ (~wrapped => LaidInv /\ SetInv)
  BY <1>19 DEF PciIInv
<1>20. CASE Assign
 <2>1. phase = "assign" /\ phase' = "enable" /\ stack' = stack /\ UNCHANGED <<on, kind, bars, path, numbers, tree>>
   BY <1>20 DEF Assign, machine
 <2> QED BY <1>0, <1>3, <1>18, <1>19, <1>20, <2>1, AssignSets
<1>21. CASE Enable
 <2>1. phase = "enable" /\ phase' = "done" /\ stack' = stack /\ UNCHANGED <<on, kind, bars, path, numbers, tree>>
   BY <1>21 DEF Enable, machine
 <2> QED BY <1>0, <1>18, <1>19, <1>21, <2>1, EnableSets
<1>22. CASE UNCHANGED pciVars
 <2>1. UNCHANGED <<on, kind, bars, path, numbers, windows, bar, cmd, phase, stack, tree, number, subordinate, children,
                   devices, base, limit, address, command, wrapped>>
   BY <1>22 DEF pciVars, machine, hardware, tree, resources
 <2>2. MachineInv' /\ NumberInv' /\ (FoundInv => FoundInv')
   BY <1>0, <2>1 DEF MachineInv, NumberInv, FoundInv, Explored, Behind, On, Scanned, FirstBridge
 <2>3. ResourceTypes' BY <1>0, <2>1 DEF ResourceTypes, Registers
 <2>4. ScanInv => ScanInv'
  <3>1. /\ Depth' = Depth /\ Top' = Top /\ \A i : BusAt(i)' = BusAt(i)
        /\ Scanned' = Scanned /\ \A b : On(b)' = On(b) /\ Behind(b)' = Behind(b)
    BY <2>1 DEF Depth, Top, BusAt, Scanned, On, Behind
  <3>2. Line => Line' BY <2>1, <3>1 DEF Line
  <3>3. \A b, f : Searched(b, f)' = Searched(b, f) /\ Unsearched(b)' = Unsearched(b)
    BY <2>1, <3>1 DEF Searched, Unsearched
  <3>4. ScanFrames => ScanFrames' BY <2>1, <3>1, <3>2, <3>3 DEF ScanFrames
  <3>5. \A b : OnStack(b)' = OnStack(b) /\ Explored(b)' = Explored(b)
    BY <2>1, <3>1 DEF OnStack, Explored
  <3>6. Highest' = Highest BY <2>1, <3>1 DEF Highest
  <3> QED BY <2>1, <3>1, <3>4, <3>5, <3>6 DEF ScanInv
 <2>5. WalkFrames => WalkFrames'
   BY <2>1 DEF WalkFrames, WalkFrame, Line, Scanned, Depth, BusAt, Needs, SpaceOf, Registers
 <2>6. \A p \in Spaces : Given(p) => Given(p)'
   BY <2>1 DEF Given, Complete, Laid, Settled, Needs, SpaceOf, SizeOf, Registers, Scanned
 <2>7. WalkInv => WalkInv'
  <3>1. /\ Depth' = Depth /\ Scanned' = Scanned /\ \A i : BusAt(i)' = BusAt(i) /\ Called(i)' = Called(i)
        /\ \A b, p : Needs(b, p)' = Needs(b, p)
    BY <2>1 DEF Depth, BusAt, Scanned, Called, Needs, Registers, SpaceOf
  <3>2. \A p, C, R, lo, hi : Laid(p, C, R, lo, hi)' = Laid(p, C, R, lo, hi)
    BY <2>1 DEF Laid, Settled, SizeOf
  <3>3. \A b, p : Complete(b, p)' = Complete(b, p) BY <2>1, <3>1, <3>2 DEF Complete
  <3>4. \A p, b, f, k : FrameLaid(p, b, f, k)' = FrameLaid(p, b, f, k)
    BY <2>1, <3>1, <3>2 DEF FrameLaid
  <3>5. \A p : Given(p)' = Given(p) /\ Ungiven(p)' = Ungiven(p)
    BY <2>1, <3>1, <3>3 DEF Given, Ungiven
  <3> QED BY <2>1, <3>1, <3>3, <3>4, <3>5 DEF WalkInv
 <2>8. LaidInv => LaidInv' BY <2>1, <2>6 DEF LaidInv, Spaces
 <2>9. SetInv => SetInv' BY <2>1 DEF SetInv, Programmed, Chain, SpaceOf, Registers
 <2> QED BY <1>0, <2>1, <2>2, <2>3, <2>4, <2>5, <2>7, <2>8, <2>9 DEF PciIInv, Registers
<1> QED
  BY <1>5, <1>6, <1>7, <1>8, <1>10, <1>12, <1>13, <1>14, <1>15, <1>16, <1>17, <1>20, <1>21, <1>22
     DEF PciNext, Boots
-----------------------------------------------------------------------------
\* No call is deeper than the machine.
LEMMA DepthIs ==
  ASSUME Line, Depth \in Nat, \A i \in 1 .. Depth : BusAt(i) \in Buses PROVE Depth <= N + 1
<1>1. Depth \in 1 .. Depth /\ BusAt(Depth) >= Depth - 1 BY DEF Line
<1>2. BusAt(Depth) \in Nat /\ BusAt(Depth) <= N BY <1>1, BusFacts
<1> QED BY <1>1, <1>2, Constants

\* PciTypeOK follows from it,
LEMMA TypesFollow == PciIInv => PciTypeOK
<1> SUFFICES ASSUME PciIInv PROVE PciTypeOK OBVIOUS
<1>1. MachineInv /\ NumberInv /\ ResourceTypes BY DEF PciIInv
<1>2. phase \in {"scan", "assign", "enable", "done"} \cup Spaces BY DEF PciIInv
<1>3. \A f \in Fns : /\ numbers[f].secondary \in 0 .. LastBus /\ numbers[f].subordinate \in 0 .. LastBus
                     /\ cmd[f] \subseteq Bits /\ command[f] \subseteq Bits
  BY <1>1 DEF NumberInv, ResourceTypes
<1>4. ASSUME NEW b \in Buses
      PROVE  /\ number[b] \in 0 .. N /\ subordinate[b] \in 0 .. LastBus
             /\ devices[b] \subseteq Fns
             /\ \A p \in Spaces : base[b][p] \in 0 .. Space - 1 /\ limit[b][p] \in 0 .. Space - 1
  BY <1>1 DEF NumberInv, ResourceTypes
<1>5. ASSUME NEW b \in Buses PROVE children[b] \subseteq devices[b]
 <2> SUFFICES ASSUME NEW c \in children[b] PROVE c \in devices[b] OBVIOUS
 <2>1. c \in Fns /\ on[c] = b /\ number[c] # 0 /\ b \in Scanned /\ c \in On(b)
   BY <1>1, ChildFacts DEF NumberInv, On
 <2>2. CASE Explored(b) BY <2>1, <2>2 DEF Explored
 <2>3. CASE ~ Explored(b)
  <3>1. phase = "scan" /\ ScanInv BY <1>2, <2>1, <2>3 DEF PciIInv, FoundInv
  <3>2. PICK i \in 1 .. Depth : BusAt(i) = b BY <2>1, <2>3, <3>1 DEF ScanInv, OnStack
  <3>3. IF stack[i].probed THEN Searched(b, stack[i]) ELSE Unsearched(b)
    BY <3>1, <3>2 DEF ScanInv, ScanFrames
  <3> QED BY <2>1, <3>3 DEF Searched, Unsearched
 <2> QED BY <2>2, <2>3
<1>6. \A r \in Registers : address[r] \in 0 .. Space - 1 /\ bar[r] \in Off .. Space - 1
  BY <1>1 DEF ResourceTypes
<1>7. Len(stack) <= N + 1
 <2>1. CASE phase = "scan"
  <3>1. ScanFrames BY <2>1 DEF PciIInv, ScanInv
  <3>2. Line /\ Depth \in Nat /\ \A i \in 1 .. Depth : BusAt(i) \in Buses
    BY <3>1, ScanTop DEF ScanFrames
  <3> QED BY <3>2, DepthIs DEF Depth
 <2>2. CASE phase \in Spaces
  <3>1. WalkFrames BY <2>2 DEF PciIInv
  <3>2. Line /\ Depth \in Nat /\ \A i \in 1 .. Depth : BusAt(i) \in Buses
    BY <3>1, WalkTop DEF WalkFrames
  <3> QED BY <3>2, DepthIs DEF Depth
 <2>3. CASE phase \in {"assign", "enable", "done"}
  <3>1. Len(stack) = 0 BY <2>3 DEF PciIInv
  <3> QED BY <3>1, Constants
 <2> QED BY <1>2, <2>1, <2>2, <2>3
<1>8. wrapped \in BOOLEAN BY <1>1 DEF ResourceTypes
<1> QED BY <1>2, <1>3, <1>4, <1>5, <1>6, <1>7, <1>8 DEF PciTypeOK

\* and TreeLaidOut does.
LEMMA TreeFollows == PciIInv => TreeLaidOut
<1> SUFFICES ASSUME PciIInv PROVE TreeLaidOut OBVIOUS
<1>1. MachineInv /\ NumberInv /\ ResourceTypes BY DEF PciIInv
<1>2. Numbered BY <1>1, NumberedHolds DEF PciIInv
<1>3. ASSUME phase \in {"assign", "enable", "done"}, ~wrapped, NEW b \in Scanned, NEW p \in Spaces
      PROVE  /\ \A r \in Needs(b, p) : Within(address[r], address[r] + SizeOf(r) - 1, b, p)
             /\ \A c \in children[b] :
                  ~Empty(c, p) => /\ Within(base[c][p], limit[c][p], b, p)
                                  /\ \A d \in children[b] \ {c} :
                                       limit[c][p] < base[d][p] \/ limit[d][p] < base[c][p] \/ Empty(d, p)
 <2>1. LaidInv BY <1>3 DEF PciIInv
 <2>2. base[b][p] \in Nat /\ limit[b][p] \in Nat /\ b \in Buses /\ Laid(p, children[b], Needs(b, p), base[b][p], limit[b][p] + 1)
   BY <1>1, <2>1, LaidFacts
 <2>3. ASSUME NEW r \in Needs(b, p) PROVE Within(address[r], address[r] + SizeOf(r) - 1, b, p)
  <3>1. r \in Registers BY DEF Needs
  <3>2. address[r] \in Nat /\ SizeOf(r) \in Nat
    BY <1>1, <3>1, RegisterFacts, Constants DEF ResourceTypes
  <3> QED BY <2>2, <3>2 DEF Laid, Within
 <2>4. ASSUME NEW c \in children[b]
       PROVE  /\ Within(base[c][p], limit[c][p], b, p)
              /\ \A d \in children[b] \ {c} : limit[c][p] < base[d][p] \/ limit[d][p] < base[c][p]
  <3>1. c \in Buses BY <1>1, <2>2, ChildFacts
  <3>2. base[c][p] \in Nat /\ limit[c][p] \in Nat BY <1>1, <3>1, Constants DEF ResourceTypes
  <3> QED BY <2>2, <3>2 DEF Laid, Within
 <2> QED BY <2>3, <2>4
<1> QED BY <1>2, <1>3 DEF TreeLaidOut, WindowsNest
-----------------------------------------------------------------------------
\* Prefetchable memory lies behind the other, whatever the bus.
LEMMA SpacesApart ==
  ASSUME MachineInv, NumberInv, ResourceTypes, LaidInv, NEW b \in Scanned
  PROVE  limit[b]["mem"] <= limit[Root]["mem"] /\ base[Root]["pref"] <= base[b]["pref"]
<1> DEFINE Bad == {c \in Scanned : ~ (limit[c]["mem"] <= limit[Root]["mem"] /\ base[Root]["pref"] <= base[c]["pref"])}
<1> SUFFICES ASSUME Bad # {} PROVE FALSE OBVIOUS
<1>1. "mem" \in Spaces /\ "pref" \in Spaces /\ Root \in Scanned BY DEF Spaces, Scanned
<1>2. \A c \in Scanned : c \in Nat /\ c \in Buses /\ limit[c]["mem"] \in Nat /\ base[c]["pref"] \in Nat
  BY <1>1, LaidFacts, BusFacts
<1>3. Bad \subseteq Nat BY <1>2
<1>4. PICK m \in Bad : \A k \in Bad : m <= k BY <1>3, Least
<1>5. m \in Fns /\ number[m] # 0 BY <1>1, <1>2, <1>4 DEF Scanned
<1>6. on[m] \in Scanned /\ m \in children[on[m]] /\ on[m] < m /\ on[m] \in Buses
  BY <1>5, PathFacts DEF NumberInv, On
<1>7. on[m] \notin Bad BY <1>2, <1>4, <1>5, <1>6
<1>8. limit[m]["mem"] < limit[on[m]]["mem"] + 1 /\ base[on[m]]["pref"] <= base[m]["pref"]
  BY <1>1, <1>6, LaidFacts DEF Laid
<1> QED BY <1>1, <1>2, <1>4, <1>6, <1>7, <1>8
-----------------------------------------------------------------------------
\* What lies in two spaces that the same command bit lets answer keeps apart.
LEMMA RangesApart ==
  ASSUME MachineInv, NumberInv, ResourceTypes, LaidInv, NEW b \in Scanned,
         NEW p \in Spaces, NEW q \in Spaces, p # q, Bit(p) = Bit(q)
  PROVE  limit[b][p] < base[b][q] \/ limit[b][q] < base[b][p]
<1>1. (p = "mem" /\ q = "pref") \/ (p = "pref" /\ q = "mem") BY DEF Spaces, Bit
<1>2. limit[b]["mem"] <= limit[Root]["mem"] /\ base[Root]["pref"] <= base[b]["pref"] /\ limit[Root]["mem"] < base[Root]["pref"]
  BY SpacesApart DEF LaidInv
<1>3. /\ limit[b]["mem"] \in Nat /\ base[b]["pref"] \in Nat
      /\ limit[Root]["mem"] \in Nat /\ base[Root]["pref"] \in Nat
  BY LaidFacts DEF Scanned, Spaces
<1>4. limit[b]["mem"] < base[b]["pref"] BY <1>2, <1>3
<1> QED BY <1>1, <1>4

\* What answers on a bus is what has been given out for it.
LEMMA RegisteredIs ==
  ASSUME MachineInv, NumberInv, FoundInv, ResourceTypes, LaidInv, SetInv, SmallIo, phase = "done",
         NEW b \in Scanned, NEW p \in Spaces, NEW r \in Needs(b, p)
  PROVE  /\ r \in Registers /\ SizeOf(r) \in Nat \ {0} /\ bar[r] = address[r] /\ bar[r] \in Nat /\ Bit(p) \in cmd[r.fn]
         /\ base[b][p] <= bar[r] /\ bar[r] + SizeOf(r) <= limit[b][p] + 1
<1>1. b \in Buses /\ base[b][p] \in Nat /\ limit[b][p] \in Nat /\ Laid(p, children[b], Needs(b, p), base[b][p], limit[b][p] + 1)
  BY LaidFacts
<1>2. r \in Registers /\ r.fn \in devices[b] /\ r.fn \in Fns BY <1>1, NeedsFacts
<1>3. r.fn \in Chain BY <1>1, <1>2 DEF Chain
<1>4. bar[r] = address[r] /\ command[r.fn] \subseteq cmd[r.fn] BY <1>2, <1>3 DEF SetInv
<1>5. base[b][p] <= address[r] /\ address[r] + SizeOf(r) <= limit[b][p] + 1 /\ Bit(p) \in command[r.fn]
  BY <1>1 DEF Laid, Settled
<1>6. SizeOf(r) \in Nat \ {0} /\ address[r] \in Nat
  BY <1>2, RegisterFacts, Constants DEF ResourceTypes
<1> QED BY <1>2, <1>4, <1>5, <1>6

\* Only bridges of the first bus pass something on.
LEMMA BridgedIs ==
  ASSUME MachineInv, NumberInv, ResourceTypes, LaidInv, SetInv, phase = "done",
         NEW b \in Scanned, NEW bit, NEW w \in Bridged(b, bit)
  PROVE  /\ b = Root /\ w[1] \in children[Root] /\ w[2] \in Spaces /\ Bit(w[2]) = bit /\ w = <<w[1], w[2]>>
         /\ w[1] \in Scanned /\ Passed(w) = <<base[w[1]][w[2]], limit[w[1]][w[2]]>>
         /\ base[w[1]][w[2]] \in Nat /\ limit[w[1]][w[2]] \in Nat
         /\ base[Root][w[2]] <= base[w[1]][w[2]] /\ limit[w[1]][w[2]] <= limit[Root][w[2]]
<1>1. PICK c, p : w = <<c, p>> /\ c \in children[b] /\ p \in Spaces /\ Bit(p) = bit /\ windows[c][p][1] <= windows[c][p][2]
  BY DEF Bridged, Ranges
<1>2. b \in Buses /\ c \in Fns /\ on[c] = b /\ c \in Scanned
  BY <1>1, BusFacts, ChildFacts DEF Scanned
<1>3. windows[c][p] = IF c \in Programmed THEN <<base[c][p], limit[c][p]>> ELSE Shut
  BY <1>1, <1>2 DEF SetInv
<1>4. c \in Programmed BY <1>1, <1>3 DEF Shut
<1>5. b = Root BY <1>2, <1>4, BusFacts, ChildFacts DEF Programmed
<1>6. /\ base[c][p] \in Nat /\ limit[c][p] \in Nat /\ base[Root][p] \in Nat /\ limit[Root][p] \in Nat
      /\ Laid(p, children[Root], Needs(Root, p), base[Root][p], limit[Root][p] + 1)
  BY <1>1, <1>2, <1>5, LaidFacts
<1>7. base[Root][p] <= base[c][p] /\ limit[c][p] < limit[Root][p] + 1 BY <1>1, <1>5, <1>6 DEF Laid
<1> QED BY <1>1, <1>2, <1>3, <1>4, <1>5, <1>6, <1>7 DEF Passed

\* On one bus, no two registers or windows that are let answer overlap.
LEMMA OneClaims ==
  ASSUME MachineInv, NumberInv, FoundInv, ResourceTypes, LaidInv, SetInv, SmallIo, phase = "done",
         NEW b \in Scanned, NEW bit
  PROVE  /\ \A r, s \in Registered(b, bit) : r # s => Apart(Decoded(r), Decoded(s))
         /\ \A v, w \in Bridged(b, bit) : v # w => Apart(Passed(v), Passed(w))
         /\ \A r \in Registered(b, bit), w \in Bridged(b, bit) : Apart(Decoded(r), Passed(w))
<1>1. \A p \in Spaces : /\ base[b][p] \in Nat /\ limit[b][p] \in Nat
                        /\ Laid(p, children[b], Needs(b, p), base[b][p], limit[b][p] + 1)
  BY LaidFacts
<1>2. ASSUME NEW r \in Registered(b, bit)
      PROVE  \E p \in Spaces : r \in Needs(b, p) /\ Bit(p) = bit
  BY DEF Registered, Ranges
<1>3. ASSUME NEW r \in Registered(b, bit), NEW s \in Registered(b, bit), r # s PROVE Apart(Decoded(r), Decoded(s))
 <2>1. PICK p \in Spaces : r \in Needs(b, p) /\ Bit(p) = bit BY <1>2
 <2>2. PICK q \in Spaces : s \in Needs(b, q) /\ Bit(q) = bit BY <1>2
 <2>3. /\ SizeOf(r) \in Nat \ {0} /\ bar[r] = address[r] /\ bar[r] \in Nat
       /\ base[b][p] <= bar[r] /\ bar[r] + SizeOf(r) <= limit[b][p] + 1
   BY <2>1, RegisteredIs
 <2>4. /\ SizeOf(s) \in Nat \ {0} /\ bar[s] = address[s] /\ bar[s] \in Nat
       /\ base[b][q] <= bar[s] /\ bar[s] + SizeOf(s) <= limit[b][q] + 1
   BY <2>2, RegisteredIs
 <2>5. bar[r] + SizeOf(r) <= bar[s] \/ bar[s] + SizeOf(s) <= bar[r]
  <3>1. CASE p = q
   <4>1. address[r] + SizeOf(r) <= address[s] \/ address[s] + SizeOf(s) <= address[r]
     BY <1>1, <1>3, <2>1, <2>2, <3>1 DEF Laid
   <4> QED BY <2>3, <2>4, <4>1
  <3>2. CASE p # q
   <4>1. limit[b][p] < base[b][q] \/ limit[b][q] < base[b][p] BY <2>1, <2>2, <3>2, RangesApart
   <4> QED BY <1>1, <2>3, <2>4, <4>1
  <3> QED BY <3>1, <3>2
 <2> QED BY <2>3, <2>4, <2>5 DEF Apart, Decoded
<1>4. ASSUME NEW v \in Bridged(b, bit), NEW w \in Bridged(b, bit), v # w PROVE Apart(Passed(v), Passed(w))
 <2>1. PICK c, p : v = <<c, p>> BY BridgedIs
 <2>2. PICK d, q : w = <<d, q>> BY BridgedIs
 <2>3. /\ b = Root /\ c \in children[b] /\ p \in Spaces /\ Bit(p) = bit /\ Passed(v) = <<base[c][p], limit[c][p]>>
       /\ base[c][p] \in Nat /\ limit[c][p] \in Nat /\ base[b][p] <= base[c][p] /\ limit[c][p] <= limit[b][p]
   BY <2>1, BridgedIs
 <2>4. /\ d \in children[b] /\ q \in Spaces /\ Bit(q) = bit /\ Passed(w) = <<base[d][q], limit[d][q]>>
       /\ base[d][q] \in Nat /\ limit[d][q] \in Nat /\ base[b][q] <= base[d][q] /\ limit[d][q] <= limit[b][q]
   BY <2>2, BridgedIs
 <2>5. limit[c][p] < base[d][q] \/ limit[d][q] < base[c][p]
  <3>1. CASE p = q BY <1>1, <1>4, <2>1, <2>2, <2>3, <2>4, <3>1 DEF Laid
  <3>2. CASE p # q
   <4>1. limit[b][p] < base[b][q] \/ limit[b][q] < base[b][p] BY <2>3, <2>4, <3>2, RangesApart
   <4> QED BY <1>1, <2>3, <2>4, <4>1
  <3> QED BY <3>1, <3>2
 <2> QED BY <2>3, <2>4, <2>5 DEF Apart
<1>5. ASSUME NEW r \in Registered(b, bit), NEW w \in Bridged(b, bit) PROVE Apart(Decoded(r), Passed(w))
 <2>1. PICK p \in Spaces : r \in Needs(b, p) /\ Bit(p) = bit BY <1>2
 <2>2. PICK d, q : w = <<d, q>> BY BridgedIs
 <2>3. /\ SizeOf(r) \in Nat \ {0} /\ bar[r] = address[r] /\ bar[r] \in Nat
       /\ base[b][p] <= bar[r] /\ bar[r] + SizeOf(r) <= limit[b][p] + 1
   BY <2>1, RegisteredIs
 <2>4. /\ b = Root /\ d \in children[b] /\ q \in Spaces /\ Bit(q) = bit /\ Passed(w) = <<base[d][q], limit[d][q]>>
       /\ base[d][q] \in Nat /\ limit[d][q] \in Nat /\ base[b][q] <= base[d][q] /\ limit[d][q] <= limit[b][q]
   BY <2>2, BridgedIs
 <2>5. bar[r] + SizeOf(r) <= base[d][q] \/ limit[d][q] < bar[r]
  <3>1. CASE p = q
   <4>1. limit[d][q] < address[r] BY <1>1, <2>1, <2>4, <3>1 DEF Laid
   <4> QED BY <2>3, <4>1
  <3>2. CASE p # q
   <4>1. limit[b][p] < base[b][q] \/ limit[b][q] < base[b][p] BY <2>1, <2>4, <3>2, RangesApart
   <4> QED BY <1>1, <2>3, <2>4, <4>1
  <3> QED BY <3>1, <3>2
 <2> QED BY <2>3, <2>4, <2>5 DEF Apart, Decoded
<1> QED BY <1>3, <1>4, <1>5

\* On the first two levels, all bridges on the way pass on to a register what it
\* answers.
LEMMA PassesOn ==
  ASSUME MachineInv, NumberInv, FoundInv, ResourceTypes, LaidInv, SetInv, SmallIo, phase = "done",
         NEW r \in Registers, on[r.fn] \in children[Root] \cup {Root}
  PROVE  PassedOn(r, on[r.fn])
<1>1. PICK p \in Spaces, b \in Buses : p = SpaceOf(r) /\ b = on[r.fn] /\ r.fn \in Fns
 <2>1. r.fn \in Fns /\ SpaceOf(r) \in Spaces BY RegisterFacts
 <2> QED BY <2>1, PathFacts
<1>2. b \in Scanned /\ Root \in Scanned /\ Root \in Buses
  BY <1>1, BusFacts, ChildFacts DEF Scanned
<1>3. r \in Needs(b, p) BY <1>1, <1>2 DEF FoundInv, Explored, On, Needs
<1>4. /\ SizeOf(r) \in Nat \ {0} /\ bar[r] \in Nat /\ Bit(p) \in cmd[r.fn]
      /\ base[b][p] <= bar[r] /\ bar[r] + SizeOf(r) <= limit[b][p] + 1
  BY <1>2, <1>3, RegisteredIs
<1>5. ASSUME NEW a \in path[b]
      PROVE  Bit(p) \in cmd[a] /\ windows[a][p][1] <= bar[r] /\ bar[r] + SizeOf(r) - 1 <= windows[a][p][2]
 <2>1. b \in children[Root] /\ a = b
  <3>1. path[Root] = {} BY DEF MachineInv
  <3>2. b \in children[Root] BY <1>1, <3>1
  <3>3. b \in Fns /\ on[b] = Root BY <1>2, <3>2, ChildFacts
  <3>4. path[b] = {b} \cup path[on[b]] BY <3>3, PathFacts
  <3> QED BY <3>1, <3>2, <3>3, <3>4
 <2>2. b \in Fns /\ on[b] = Root /\ b \in Programmed BY <1>2, <2>1, ChildFacts DEF Programmed
 <2>3. b \in Chain BY <1>2, <2>2 DEF FoundInv, Explored, On, Chain
 <2>4. Bit(p) \in cmd[b] BY <2>2, <2>3 DEF SetInv, Bit
 <2>5. windows[b][p] = <<base[b][p], limit[b][p]>> BY <2>2 DEF SetInv
 <2>6. base[b][p] \in Nat /\ limit[b][p] \in Nat BY <1>2, LaidFacts
 <2> QED BY <1>4, <2>1, <2>4, <2>5, <2>6
<1>6. bar[r] # Off BY <1>4 DEF Off
<1> QED BY <1>1, <1>4, <1>5, <1>6 DEF PassedOn, Decoded

\* AddressesAnswer follows from the invariant.
LEMMA AnswersFollow == PciIInv => AddressesAnswer
<1> SUFFICES ASSUME PciIInv, SmallIo, phase = "done", ~wrapped
             PROVE  /\ \A b \in Scanned, bit \in {"io", "mem"} :
                         /\ \A r, s \in Registered(b, bit) : r # s => Apart(Decoded(r), Decoded(s))
                         /\ \A v, w \in Bridged(b, bit) : v # w => Apart(Passed(v), Passed(w))
                         /\ \A r \in Registered(b, bit), w \in Bridged(b, bit) : Apart(Decoded(r), Passed(w))
                    /\ \A r \in Registers : on[r.fn] \in children[Root] \cup {Root} => PassedOn(r, on[r.fn])
  BY DEF AddressesAnswer, OneClaimant, Answers
<1>1. MachineInv /\ NumberInv /\ FoundInv /\ ResourceTypes /\ LaidInv /\ SetInv BY DEF PciIInv
<1> QED BY <1>1, OneClaims, PassesOn

\* The invariant of enumeration: pci_scan_bus, the compute_allocate functions,
\* assign_resources and enable_resources keep it, on every machine.
THEOREM PciInvariant == PciSpec => []PciIInv
<1>1. PciInit => PciIInv BY InvAtFirst
<1>2. PciIInv /\ [PciNext]_pciVars => PciIInv' BY InvStays
<1> QED BY <1>1, <1>2, PTL DEF PciSpec

\* Bus numbers and addresses stay in their ranges, and the recursion of pci_scan_bus
\* and of compute_allocate_resources is no deeper than there are bridges.
THEOREM PciAlwaysTyped == PciSpec => []PciTypeOK
<1>1. PciIInv => PciTypeOK BY TypesFollow
<1> QED BY <1>1, PciInvariant, PTL

\* A configuration access comes out on the one bus whose number it has, during the
\* whole of pci_scan_bus; everything is found, once; and what the compute_allocate
\* functions give a bridge contains all that is behind it, apart from the others:
\* for every machine, with addresses of every size and alignment.
THEOREM TreeAlwaysLaidOut == PciSpec => []TreeLaidOut
<1>1. PciIInv => TreeLaidOut BY TreeFollows
<1> QED BY <1>1, PciInvariant, PTL

\* After enable_resources no two functions or bridges answer to the same address on a
\* bus, and all on the first two levels can be reached at the address they have been
\* given: for every machine whose I/O regions are small.
THEOREM AddressesAlwaysAnswer == PciSpec => []AddressesAnswer
<1>1. PciIInv => AddressesAnswer BY AnswersFollow
<1> QED BY <1>1, PciInvariant, PTL
=============================================================================
