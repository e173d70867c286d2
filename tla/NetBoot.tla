------------------------------- MODULE NetBoot -------------------------------
(***************************************************************************)
(* LinuxBIOS boots from the network (etherboot/rarp.c, netboot.c): rarp    *)
(* asks for an address, then tftp_init and tftp_fetchone bring the kernel, *)
(* the initial ramdisk and the command line, for fill_inbuf and for the    *)
(* loader (lib/linuxbiosmain.c).                                           *)
(*                                                                         *)
(* A file is a number of units.  The servers are what RFC 903, 1350 and    *)
(* 2347 make of them.  Any packet may be lost, and the server may send the *)
(* packet it waits an answer for again.  A wait may time out at any time:  *)
(* await_reply looks at the clock when the receive ring is empty and also  *)
(* after a damaged packet, which sis900_poll reports in the same way.      *)
(***************************************************************************)
EXTENDS Integers, Sequences, SequencesExt

CONSTANTS Loads,      \* what may be loaded: sequences of files with reader and size
          Default,    \* TFTP_DEFAULTSIZE_PACKET
          MaxPacket,        \* TFTP_MAX_PACKET
          MaxRetries, \* MAX_ARP_RETRIES, MAX_TFTP_RETRIES
          NumRxDesc,  \* packets the receive ring holds
          Blocks,     \* block numbers are unsigned, modulo this
          Replies,    \* how a TFTP server may answer a request
          MaxNoise,   \* ARP requests of other machines
          MaxUp       \* packets on the way to the servers

ASSUME NetBootAssumption ==
  /\ Default \in Nat \ {0} /\ MaxPacket \in Nat /\ MaxPacket > Default
  /\ MaxUp \in Nat
  /\ MaxRetries \in Nat /\ NumRxDesc \in Nat \ {0} /\ Blocks \in Nat \ {0, 1}
  /\ Replies \subseteq {"DATA", "OACK", "OddOACK", "ERROR"}
  /\ Loads \subseteq Seq([reader : {"fill_inbuf", "initrd", "cmdline"}, size : Nat])

\* No file has a block whose number comes round to 0, which is never out of order
\* (Unordered): with more blocks than that a repeated one is taken twice.
FewerThanBlocks ==
  \A load \in Loads : \A i \in DOMAIN load : load[i].size \div Default + 1 < Blocks

VARIABLES files,      \* what is loaded, one after the other
          pc,         \* where the client is
          known,      \* rarp has filled in the addresses
          transfer,   \* index in files
          retry, iport, block, prevblock, packetsize,
          ack,        \* tp.u.ack.block, which a request and an error overwrite
          packet,     \* nic.packet, the last packet polled; tr points into it
          got,        \* blocks of this transfer that went to the reader
          taken,      \* units the reader has had of it: bufptr, what gunzip has read
          up,         \* on the way to the servers
          rx,         \* the receive ring
          reply,      \* how this server answers a request
          sessions,   \* transfers at the server; a tid is an index
          noise

client == <<pc, known, transfer, retry, iport, block, prevblock, packetsize, ack, packet, got,
            taken>>
server == <<files, reply, sessions, noise>>
vars == <<client, up, rx, server>>

Junk == -1
Nothing == [op |-> "none", port |-> Junk, src |-> Junk, file |-> 0, n |-> 0, len |-> 0]
Waiting == {"await_rarp", "await_init", "await_fetch"}

Init ==
  /\ files \in Loads
  /\ pc = "rarp" /\ known = FALSE /\ transfer = 0
  /\ retry = 0 /\ iport = 0 /\ block = 0 /\ prevblock = 0
  /\ packetsize = Default /\ ack = Junk /\ packet = Nothing /\ got = <<>> /\ taken = 0
  /\ up = <<>> /\ rx = <<>> /\ reply \in Replies /\ sessions = <<>> /\ noise = 0

-----------------------------------------------------------------------------
(* sis900_transmit and sis900_poll: packets get lost on the way, when the   *)
(* ring is full, and when they arrive damaged.                              *)

Transmits(m) ==
  \/ up' = up
  \/ Len(up) < MaxUp /\ up' = Append(up, m)
Arrives(p) ==
  \/ rx' = rx
  \/ Len(rx) < NumRxDesc /\ rx' = Append(rx, p)

\* await_reply(AWAIT_QDRAIN): nic.packet is left with the last packet.
Drained == IF rx = <<>> THEN packet ELSE Last(rx)

-----------------------------------------------------------------------------
(* rarp *)

RarpRequest ==
  /\ pc = "rarp" /\ retry < MaxRetries
  /\ Transmits([op |-> "RARP"])
  /\ pc' = "await_rarp"
  /\ UNCHANGED <<known, transfer, retry, iport, block, prevblock, packetsize, ack, packet, got,
                 taken, rx, server>>

\* netboot_init does not look at what rarp returns.
RarpGivesUp ==
  /\ pc = "rarp" /\ retry >= MaxRetries
  /\ pc' = "next"
  /\ UNCHANGED <<known, transfer, retry, iport, block, prevblock, packetsize, ack, packet, got,
                 taken, up, rx, server>>

RarpReply ==
  /\ pc = "await_rarp" /\ rx # <<>> /\ Head(rx).op = "RARP"
  /\ packet' = Head(rx) /\ rx' = Tail(rx)
  /\ known' = TRUE /\ pc' = "next"
  /\ UNCHANGED <<transfer, retry, iport, block, prevblock, packetsize, ack, got, taken,
                 up, server>>

RarpTimeout ==
  /\ pc = "await_rarp"
  /\ retry' = retry + 1 /\ pc' = "rarp"
  /\ UNCHANGED <<known, transfer, iport, block, prevblock, packetsize, ack, packet, got,
                 taken, up, rx, server>>

\* The ESC key ends the wait with a result that rarp takes for an answer.
RarpEscape ==
  /\ pc = "await_rarp"
  /\ pc' = "next"
  /\ UNCHANGED <<known, transfer, retry, iport, block, prevblock, packetsize, ack, packet, got,
                 taken, up, rx, server>>

\* await_reply goes on when a packet is not what is awaited: of other type, or
\* to another port.
IsAnswer(p) == p.op \in {"OACK", "DATA", "ERROR"} /\ p.port = iport
PollOther ==
  /\ pc \in Waiting /\ rx # <<>>
  /\ IF pc = "await_rarp" THEN Head(rx).op # "RARP" ELSE ~IsAnswer(Head(rx))
  /\ packet' = Head(rx) /\ rx' = Tail(rx)
  /\ UNCHANGED <<pc, known, transfer, retry, iport, block, prevblock, packetsize, ack, got, taken,
                 up, server>>

-----------------------------------------------------------------------------
(* tftp_init *)

\* udp_transmit to the TFTP port; without addresses it goes to the client itself.
Request(file, port) ==
  IF known THEN Transmits([op |-> "RRQ", file |-> file, port |-> port]) ELSE up' = up

\* tftp_init sets iport back, so that all transfers use the same ports.
FirstPort == 1
TftpInit ==
  /\ pc = "next" /\ transfer < Len(files)
  /\ transfer' = transfer + 1 /\ got' = <<>> /\ taken' = 0
  /\ retry' = 0 /\ iport' = FirstPort /\ block' = 0 /\ prevblock' = 0
  /\ packetsize' = Default /\ ack' = Junk
  /\ packet' = Drained /\ rx' = <<>>
  /\ Request(transfer + 1, FirstPort)
  /\ pc' = "await_init"
  /\ UNCHANGED <<known, server>>

\* Mutant: one retry too many.
MayRetry_Once == retry <= MaxRetries
MayRetry == retry < MaxRetries

InitRetry ==
  /\ pc = "await_init" /\ MayRetry
  /\ retry' = retry + 1 /\ iport' = iport + 1
  /\ Request(transfer, iport + 1)
  /\ UNCHANGED <<pc, known, transfer, block, prevblock, packetsize, ack, packet, got, taken,
                 rx, server>>

\* Only the loader looks, and only for the command line.
InitFailed == IF files[transfer].reader = "cmdline" THEN "next" ELSE "fetch"

\* An option other than blksize, or a block size below the default, is refused.
Refuse(p) ==
  /\ ack' = Junk
  /\ IF known THEN Transmits([op |-> "ERROR", tid |-> p.src]) ELSE up' = up
  /\ pc' = InitFailed
  /\ UNCHANGED <<block, packetsize>>

Agree(p) ==
  /\ packetsize' = p.len /\ block' = 0 /\ ack' = 0
  /\ pc' = "fetch"
  /\ UNCHANGED up

\* Mutant: data is acknowledged although nobody takes it.
InitReply_AcksData(p) ==
  \/ p.op = "ERROR" /\ pc' = InitFailed /\ UNCHANGED <<block, packetsize, ack, up>>
  \/ p.op = "OACK" /\ p.len >= Default /\ Agree(p)
  \/ p.op = "OACK" /\ p.len < Default /\ Refuse(p)
  \/ p.op = "DATA" /\ pc' = "fetch" /\ ack' = p.n % Blocks /\ UNCHANGED <<block, packetsize, up>>
\* The answer is not used otherwise: a server that sends data at once has to
\* send it again.
InitReply(p) ==
  \/ p.op = "ERROR" /\ pc' = InitFailed /\ UNCHANGED <<block, packetsize, ack, up>>
  \/ p.op = "OACK" /\ p.len >= Default /\ Agree(p)
  \/ p.op = "OACK" /\ p.len < Default /\ Refuse(p)
  \/ p.op \notin {"ERROR", "OACK"} /\ pc' = "fetch" /\ UNCHANGED <<block, packetsize, ack, up>>

InitAnswered ==
  /\ pc = "await_init" /\ rx # <<>> /\ IsAnswer(Head(rx))
  /\ packet' = Head(rx) /\ rx' = Tail(rx)
  /\ InitReply(Head(rx))
  /\ UNCHANGED <<known, transfer, retry, iport, prevblock, got, taken, server>>

\* After the last timeout, and after ESC, what happens to be in nic.packet is
\* taken for the answer.  The count goes on; here it stops at MaxRetries + 1.
Spent == IF retry > MaxRetries THEN retry ELSE retry + 1
InitUnanswered ==
  /\ pc = "await_init"
  /\ retry' \in (IF MayRetry THEN {retry} ELSE {retry, Spent})
  /\ InitReply(packet)
  /\ UNCHANGED <<known, transfer, iport, prevblock, packet, got, taken, rx, server>>

-----------------------------------------------------------------------------
(* tftp_fetchone *)

\* From label retry: the port the acknowledgement goes to is read from
\* nic.packet after the queue has been drained into it.
Fetch ==
  /\ pc = "fetch"
  /\ packet' = Drained /\ rx' = <<>>
  /\ IF known /\ Drained.src # Junk
     THEN Transmits([op |-> "ACK", tid |-> Drained.src, block |-> ack, port |-> iport])
     ELSE up' = up
  /\ pc' = "await_fetch"
  /\ UNCHANGED <<known, transfer, retry, iport, block, prevblock, packetsize, ack, got, taken,
                 server>>

\* Before the first block the acknowledgement goes to the TFTP port, from a new
\* port; nobody answers it.
FetchRetry ==
  /\ pc = "await_fetch" /\ block = 0 /\ MayRetry
  /\ retry' = retry + 1 /\ iport' = iport + 1
  /\ UNCHANGED <<pc, known, transfer, block, prevblock, packetsize, ack, packet, got,
                 taken, up, rx, server>>

\* Whether the reader goes on after a block of this length: gunzip until it has
\* all, the loader of the ramdisk while blocks are of 512, for the command line
\* there is one call.
Goes(len, units) ==
  CASE files[transfer].reader = "fill_inbuf" -> units < files[transfer].size
    [] files[transfer].reader = "initrd" -> len = Default
    [] OTHER -> FALSE

\* An error is a negative length.  gunzip then reads what is not there.
FetchError == IF files[transfer].reader = "fill_inbuf" THEN "lost" ELSE "next"

\* Mutant: a block that is sent again is taken again.
Unordered_Ahead(b) == b # 0 /\ b > prevblock + 1
\* bcounter stays 0 here, so that block 0 is never out of order.
Unordered(b) == b # 0 /\ b # prevblock + 1

\* Mutant: the client waits for the block without asking for it again.
Again_Waits(r) == pc' = "await_fetch" /\ retry' = r
Again(r) == pc' = "fetch" /\ retry' = r
Accept(p) ==
  /\ block' = p.n % Blocks /\ prevblock' = p.n % Blocks /\ ack' = p.n % Blocks
  /\ retry' = 0
  /\ got' = Append(got, [file |-> p.file, n |-> p.n, len |-> p.len])
  /\ taken' = taken + p.len
  /\ pc' = IF Goes(p.len, taken') THEN "fetch" ELSE "next"

FetchReply(p, r) ==
  \/ /\ p.op = "ERROR" /\ pc' = FetchError /\ retry' = r
     /\ UNCHANGED <<block, prevblock, ack, got, taken>>
  \/ /\ p.op \notin {"ERROR", "DATA"} \/ p.len > packetsize
     /\ Again(r) /\ UNCHANGED <<block, prevblock, ack, got, taken>>
  \/ /\ p.op = "DATA" /\ p.len <= packetsize /\ Unordered(p.n % Blocks)
     /\ Again(r) /\ block' = prevblock /\ ack' = prevblock
     /\ UNCHANGED <<prevblock, got, taken>>
  \/ p.op = "DATA" /\ p.len <= packetsize /\ ~Unordered(p.n % Blocks) /\ Accept(p)

FetchAnswered ==
  /\ pc = "await_fetch" /\ rx # <<>> /\ IsAnswer(Head(rx))
  /\ packet' = Head(rx) /\ rx' = Tail(rx)
  /\ FetchReply(Head(rx), retry)
  /\ UNCHANGED <<known, transfer, iport, packetsize, up, server>>

FetchUnanswered ==
  /\ pc = "await_fetch"
  /\ \E r \in (IF block # 0 \/ MayRetry THEN {retry} ELSE {retry, Spent}) :
       FetchReply(packet, r)
  /\ UNCHANGED <<known, transfer, iport, packetsize, packet, up, rx, server>>

-----------------------------------------------------------------------------
(* The servers, and the other machines. *)

\* The last block is shorter than the others, and may be empty.
LastBlock(s) == files[s.file].size \div s.size + 1
Smaller(a, b) == IF a < b THEN a ELSE b

\* What a session waits an answer for: the options it agreed to, then blocks.
Outstanding(tid, s) ==
  [op |-> IF s.n = 0 THEN "OACK" ELSE "DATA", port |-> s.port, src |-> tid, file |-> s.file, n |-> s.n,
   len |-> CASE s.n > 0 -> Smaller(s.size, files[s.file].size - (s.n - 1) * s.size)
             [] s.n = 0 /\ reply = "OACK" -> MaxPacket
             [] OTHER -> 0]

ServerRarp ==
  /\ Head(up).op = "RARP"
  /\ Arrives([Nothing EXCEPT !.op = "RARP"])
  /\ UNCHANGED sessions

ServerOpens ==
  /\ Head(up).op = "RRQ" /\ reply # "ERROR"
  /\ LET s == [file |-> Head(up).file, port |-> Head(up).port, open |-> TRUE,
               size |-> IF reply = "OACK" THEN MaxPacket ELSE Default,
               n |-> IF reply = "DATA" THEN 1 ELSE 0]
     IN  sessions' = Append(sessions, s) /\ Arrives(Outstanding(Len(sessions) + 1, s))

ServerRefuses ==
  /\ Head(up).op = "RRQ" /\ reply = "ERROR"
  /\ Arrives([op |-> "ERROR", port |-> Head(up).port, src |-> 0, file |-> 0, n |-> 0, len |-> 0])
  /\ UNCHANGED sessions

Acknowledges(m) ==
  /\ m.op = "ACK" /\ m.tid \in DOMAIN sessions
  /\ sessions[m.tid].open /\ sessions[m.tid].port = m.port
  /\ m.block = sessions[m.tid].n % Blocks

ServerAck ==
  /\ Acknowledges(Head(up))
  /\ LET tid == Head(up).tid
         s == [sessions[tid] EXCEPT !.n = @ + 1]
     IN  IF sessions[tid].n = LastBlock(s)
         THEN sessions' = [sessions EXCEPT ![tid].open = FALSE] /\ UNCHANGED rx
         ELSE sessions' = [sessions EXCEPT ![tid] = s] /\ Arrives(Outstanding(tid, s))

ServerIgnores ==
  /\ Head(up).op = "ACK" /\ ~Acknowledges(Head(up))
  /\ UNCHANGED <<rx, sessions>>

ServerError ==
  /\ Head(up).op = "ERROR"
  /\ sessions' = [t \in DOMAIN sessions |->
                    IF t = Head(up).tid THEN [sessions[t] EXCEPT !.open = FALSE] ELSE sessions[t]]
  /\ UNCHANGED rx

ServerReceives ==
  /\ up # <<>> /\ up' = Tail(up)
  /\ \/ ServerRarp \/ ServerOpens \/ ServerRefuses
     \/ ServerAck \/ ServerIgnores \/ ServerError
  /\ UNCHANGED <<client, files, reply, noise>>

ServerResends(tid) ==
  /\ tid \in DOMAIN sessions /\ sessions[tid].open
  /\ Len(rx) < NumRxDesc
  /\ rx' = Append(rx, Outstanding(tid, sessions[tid]))
  /\ UNCHANGED <<client, up, server>>

\* An ARP request for the client is answered, which nobody waits for.
Noise ==
  /\ noise < MaxNoise /\ Len(rx) < NumRxDesc
  /\ noise' = noise + 1
  /\ rx' = Append(rx, [Nothing EXCEPT !.op = "ARP"])
  /\ UNCHANGED <<client, up, files, reply, sessions>>

-----------------------------------------------------------------------------

ClientStep ==
  \/ RarpRequest \/ RarpGivesUp \/ RarpReply \/ RarpTimeout \/ RarpEscape \/ PollOther
  \/ TftpInit \/ InitRetry \/ InitAnswered \/ InitUnanswered
  \/ Fetch \/ FetchRetry \/ FetchAnswered \/ FetchUnanswered

Tids == 1 .. Max({Len(load) : load \in Loads}) * (MaxRetries + 1)
Next == ClientStep \/ ServerReceives \/ Noise \/ \E tid \in Tids : ServerResends(tid)

Safety == Init /\ [][Next]_vars

-----------------------------------------------------------------------------
(* The client goes on as long as it can; a packet that is sent over and over *)
(* arrives in the end.                                                       *)

FetchArrives == Fetch /\ up' # up
Fairness ==
  /\ WF_vars(RarpRequest \/ RarpGivesUp \/ RarpReply \/ PollOther \/ TftpInit
              \/ InitAnswered \/ Fetch \/ FetchAnswered)
  /\ SF_vars(FetchArrives)
  /\ WF_vars(ServerReceives)
  /\ SF_vars(\E tid \in Tids : ServerResends(tid))

Spec == Safety /\ Fairness

Packets ==
  [op : {"none", "ARP", "RARP", "OACK", "DATA", "ERROR"}, port : Int, src : Int,
   file : 0 .. Len(files), n : Nat, len : 0 .. MaxPacket]
Sessions == [file : 1 .. Len(files), port : 1 .. MaxRetries + 1, open : BOOLEAN,
             size : {Default, MaxPacket}, n : Nat]

\* Values stay in their ranges; in particular the ports a transfer uses up are
\* not more than its retries, which tftp_init and tftp_fetchone count together.
TypeOK ==
  /\ pc \in Waiting \cup {"rarp", "next", "fetch", "lost"}
  /\ known \in BOOLEAN /\ transfer \in 0 .. Len(files)
  /\ retry \in 0 .. MaxRetries + 1 /\ iport \in 0 .. MaxRetries + 1
  /\ block \in 0 .. Blocks - 1 /\ prevblock \in 0 .. Blocks - 1
  /\ packetsize \in {Default, MaxPacket} /\ ack \in {Junk} \cup (0 .. Blocks - 1)
  /\ packet \in Packets /\ rx \in Seq(Packets) /\ Len(rx) <= NumRxDesc
  /\ Len(up) <= MaxUp /\ sessions \in Seq(Sessions)

\* Blocks reach the reader one after the other, whatever is lost, repeated and
\* answered late, and what they hold follows on what came before: for the first
\* file always.  In a later one a block may be of an earlier file, whose transfer
\* the server has not finished and whose port tftp_init uses again.
ReceivedInOrder ==
  \A i \in DOMAIN got :
    /\ got[i].n = i
    /\ got[i].file # transfer =>
         \E s \in Range(sessions) : /\ s.file = got[i].file /\ s.file < transfer
                                   /\ s.n >= i

\* The server takes a block for received only when the reader has it: what it
\* holds ready is at most the block after those.
AckedIsReceived ==
  \A s \in Range(sessions) : s.file = transfer /\ pc # "next" => s.n <= Len(got) + 1

\* A transfer that came to its end without an error has brought the whole file,
\* when its blocks are its own, and for the ramdisk when the server keeps to the
\* block size its loader counts on, whatever block size has been agreed upon.
EndedIsWhole ==
  pc = "next" /\ got # <<>> /\ packet.op # "ERROR"
  /\ \/ files[transfer].reader = "fill_inbuf"
     \/ files[transfer].reader = "initrd" /\ packetsize = Default
  /\ (\A b \in Range(got) : b.file = transfer)
    => taken = files[transfer].size

\* Client and server count the same blocks and agree on the last one.
BlocksAgree == ReceivedInOrder /\ AckedIsReceived /\ EndedIsWhole

\* As long as the only session sends to the port the client listens on, the blocks
\* get through one after the other, so that this comes to an end: no loss,
\* repetition or timeout makes client and server wait for each other.  What an
\* abandoned session sends can do so: drained into nic.packet it leads the
\* acknowledgement astray.
Served ==
  /\ transfer = 1 /\ pc \in {"fetch", "await_fetch"} /\ packetsize = Default
  /\ \E s \in Range(sessions) : s.open /\ s.size = Default /\ s.n > 0
  /\ \A s \in Range(sessions) : s.open => s.port = iport
ImageProceeds == Served ~> ~Served
=============================================================================
