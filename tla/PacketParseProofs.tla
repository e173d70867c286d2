-------------------------- MODULE PacketParseProofs --------------------------
(***************************************************************************)
(* The stack of readers under the packets of ops_parse, for streams,       *)
(* packets and nesting of any size.                                        *)
(*                                                                         *)
(* Every step of a handler has a layout: how many readers of its own the   *)
(* handler has on the stack there, of which kinds, and whether it reads    *)
(* into a region of its own.  As long as nothing has failed the stack is   *)
(* the readers of the open packets, one packet after the other, each as    *)
(* its layout says (Stacked); what has been read of a packet is what the   *)
(* reader it is read through has accumulated (Counted); and where the      *)
(* innermost packet is says whether it is in a region of its own and       *)
(* whether anything is accumulated yet (Placed).  A failure may leave      *)
(* readers behind, after which there are only enough of them (Laid).       *)
(*                                                                         *)
(* None of these holds by itself: a packet is charged for what is read     *)
(* inside it only because its readers charge it, and they are popped in    *)
(* time only because every packet inside has popped its own.               *)
(***************************************************************************)
EXTENDS PacketParse, FiniteSetTheorems, SequenceTheorems, TLAPS

-----------------------------------------------------------------------------
(* The layouts. *)

ReaderKinds == {"base", "hash", "decrypt", "decompress", "seip"}
Pushes == {"push_hash", "push_decrypt", "push_decompress", "push_seip"}

\* The steps that read for the packet itself.
OwnReads ==
  {"read", "rest", "whole", "body", "subpackets", "numbers", "read_if_ret", "consume"}

\* Handlers that push readers: of the readers before each step how many there are
\* and of which kinds they are, and the steps at which a subregion is open.
Pushing ==
  {[script |-> <<"read", "push_decompress", "parse", "pop">>,
    kinds |-> <<"decompress", "hash">>, depth |-> <<0, 0, 1, 1, 0>>, sub |-> {}],
   [script |-> <<"push_decrypt", "repeat", "parse", "pop">>,
    kinds |-> <<"decrypt", "hash">>, depth |-> <<0, 1, 1, 1, 0>>, sub |-> {}],
   [script |-> <<"push_decrypt", "repeat", "pop", "fail">>,
    kinds |-> <<"decrypt", "hash">>, depth |-> <<0, 1, 1, 0, 0>>, sub |-> {}],
   [script |-> <<"read", "push_decrypt", "push_seip", "parse", "pop", "pop">>,
    kinds |-> <<"decrypt", "seip">>, depth |-> <<0, 0, 1, 2, 2, 1, 0>>, sub |-> {}],
   [script |-> <<"read", "push_hash", "numbers", "pop", "read_if_ret", "errp_if_ret",
                 "assert_length", "return_ret">>,
    kinds |-> <<"hash", "hash">>, depth |-> <<0, 0, 1, 1, 0, 0, 0, 0, 0>>, sub |-> {}],
   [script |-> <<"read", "push_decrypt", "enter_v3", "push_hash", "numbers", "pop", "pop",
                 "leave", "read_if_ret", "errp_if_ret", "assert_length", "return_ret">>,
    kinds |-> <<"decrypt", "hash">>, depth |-> <<0, 0, 1, 1, 2, 2, 1, 0, 0, 0, 0, 0, 0>>,
    sub |-> 4 .. 8],
   [script |-> <<"read", "push_decrypt", "enter", "push_hash", "numbers", "pop",
                 "read_if_ret", "errp_if_ret", "pop", "assert_length", "return_ret">>,
    kinds |-> <<"decrypt", "hash">>, depth |-> <<0, 0, 1, 1, 2, 2, 1, 1, 1, 0, 0, 0>>,
    sub |-> 4 .. 12]}

PlainScripts ==
  {<<"rest">>, <<"whole">>, <<"read">>, <<"read", "exact">>,
   <<"read", "errp", "read", "exact">>,
   <<"read", "subpackets", "accumulated", "subpackets", "read", "exact">>,
   <<"read", "fail">>, <<"read", "body">>, <<"read", "errp", "check", "key">>,
   <<"body">>, <<"read", "consume">>, <<"fail">>}
Scripts == PlainScripts \cup {l.script : l \in Pushing}

PlainLayout(script) ==
  [script |-> script, kinds |-> <<"hash", "hash">>,
   depth |-> [i \in 1 .. Len(script) + 1 |-> 0], sub |-> {}]
Layout(script) ==
  IF \E l \in Pushing : l.script = script THEN CHOOSE l \in Pushing : l.script = script
                                          ELSE PlainLayout(script)

\* Whether what the handler's readers take is charged to its packet.
Charges(l, i) == l.depth[i] > 0 /\ l.kinds[1] \in Charging

StepFits(step, l, i) ==
  /\ step \in Pushes => l.depth[i + 1] = l.depth[i] + 1 /\ step = Kinds[l.kinds[l.depth[i + 1]]]
  /\ step = "pop" => l.depth[i + 1] = l.depth[i] - 1
  /\ step \notin Pushes /\ step # "pop" => l.depth[i + 1] = l.depth[i]
  /\ step \in {"enter", "enter_v3"} => i + 1 \in l.sub
  /\ step = "leave" => i + 1 \notin l.sub
  /\ step \notin {"enter", "enter_v3", "leave"} => (i + 1 \in l.sub <=> i \in l.sub)
  /\ step \in {"repeat", "parse"} => Charges(l, i)
  /\ step = "parse" => l.kinds[l.depth[i]] # "hash"
  /\ step \in OwnReads => (i \in l.sub <=> Charges(l, i))

\* A handler that runs to its end leaves no reader of its own; a hashing reader is the
\* last of them, and only the first charges the packet.
Fits(script, l) ==
  /\ l.kinds \in [1 .. 2 -> ReaderKinds \ {"base"}] /\ l.kinds[1] # "seip"
  /\ l.kinds[2] \notin Charging
  /\ l.depth \in [1 .. Len(script) + 1 -> 0 .. 2]
  /\ l.depth[1] = 0 /\ l.depth[Len(script) + 1] = 0 /\ 1 \notin l.sub
  /\ \A i \in 1 .. Len(script) + 1 : l.depth[i] = 2 => l.kinds[1] # "hash"
  /\ \A i \in 1 .. Len(script) : StepFits(script[i], l, i)
  /\ \A i \in 2 .. Len(script) :
       script[i] = "parse" => script[i - 1] \in Pushes \/ l.kinds[l.depth[i]] = "decrypt"

-----------------------------------------------------------------------------
(* The invariant. *)

FrameSet ==
  [script : Scripts, i : Nat, len : 0 .. MaxLen, read : Nat, indet : BOOLEAN,
   header : {1, 2}, sub : BOOLEAN, sublen : Int, subread : Nat, ret : {-1, 0, 1}]
ReaderSet ==
  [kind : ReaderKinds, frame : Nat, left : Int, opened : BOOLEAN, alength : Nat]

\* Packets that wait for those inside them.
Waits(f) == f < Len(frames) \/ mode \in {"tag", "length", "return"}
Ending == mode \in {"end", "again", "finish"}

Typed ==
  /\ mode \in Modes
  /\ frames \in Seq(FrameSet)
  /\ \A f \in 1 .. Len(frames) :
       /\ frames[f].i \in 1 .. Len(frames[f].script) + 1
       /\ Nests(frames[f].script) => f <= MaxNest
       /\ Waits(f) => /\ frames[f].i <= Len(frames[f].script)
                      /\ frames[f].script[frames[f].i] = "parse"
  /\ mode = "body" \/ Ending => frames # <<>>
  /\ readers \in Seq(ReaderSet) /\ readers # <<>> /\ readers[1].kind = "base"
  /\ errors \in BOOLEAN /\ failed \in BOOLEAN /\ accumulate \in BOOLEAN
  /\ decrypt \in BOOLEAN /\ result \in {0, 1}

\* How many readers of its own a packet's handler has, and of which kinds.
Held(fr) == Layout(fr.script).depth[fr.i]
HeldKind(fr, h) == Layout(fr.script).kinds[h]

\* Packet f is read through reader p[f] or one of its own above that.
Laid(p) ==
  /\ p \in [1 .. Len(frames) -> Nat \ {0}]
  /\ \A f \in 1 .. Len(frames) :
       /\ p[f] + Held(frames[f]) <= Top
       /\ \A g \in f + 1 .. Len(frames) : p[f] + Held(frames[f]) <= p[g]

\* No packet has failed, the innermost included.
Clean == ~failed /\ (Ending => F.ret = 1)

\* The readers above p[f] are those of packet f, as many as it has and no others.
Stacked(p) ==
  /\ IF frames = <<>> THEN Top = 1 ELSE p[1] = 1
  /\ \A f \in 1 .. Len(frames) :
       p[f] + Held(frames[f]) = IF f = Len(frames) THEN Top ELSE p[f + 1]
  /\ readers[1].frame = 0
  /\ \A f \in 1 .. Len(frames) : \A h \in 1 .. Held(frames[f]) :
       /\ readers[p[f] + h].frame = f
       /\ readers[p[f] + h].kind = HeldKind(frames[f], h)
  /\ \A j \in 2 .. Top :
       /\ readers[j].frame \in 1 .. Len(frames)
       /\ j - p[readers[j].frame] \in 1 .. Held(frames[readers[j].frame])

\* What is read of a packet is what is accumulated under it.
Counted(p) ==
  \A f \in 1 .. Len(frames) :
    readers[p[f]].kind # "decrypt" =>
      readers[p[f]].alength = frames[f].header + frames[f].read

\* Where the innermost packet is.
Placed ==
  /\ \A f \in 1 .. Len(frames) :
       IF Ending /\ f = Len(frames)
         THEN frames[f].sub = FALSE /\ Held(frames[f]) = 0
         ELSE frames[f].sub = (frames[f].i \in Layout(frames[f].script).sub)
  /\ mode \in {"again", "finish"} /\ ~F.indet => F.read = F.len
  /\ readers[Top].kind # "decrypt" =>
       /\ mode = "tag" \/ At("parse") => readers[Top].alength = 0
       /\ mode = "length" => readers[Top].alength = 1

Arranged(p) == Laid(p) /\ (Clean => Stacked(p) /\ Counted(p) /\ Placed)
ParseInv == Typed /\ \E p \in [1 .. Len(frames) -> 1 .. Top] : Arranged(p)

USE ParseConstants DEF ParseConstants

-----------------------------------------------------------------------------
(* The handlers and their layouts. *)


\* Sequences with the same elements are the same.
LEMMA Same ==
  ASSUME NEW S, NEW s \in Seq(S), NEW t \in Seq(S), Len(s) = Len(t),
         \A i \in 1 .. Len(s) : s[i] = t[i]
  PROVE  s = t
BY SeqEqual

\* A handler that pushes no reader needs none.
LEMMA PlainFits ==
  ASSUME NEW s \in PlainScripts PROVE Fits(s, PlainLayout(s)) /\ s \in Seq(Steps)
<1> DEFINE l == PlainLayout(s)
           n == Len(s)
<1> DEFINE Other == Pushes \cup {"pop", "enter", "enter_v3", "leave", "repeat", "parse"}
<1>1. s \in Seq(Steps) /\ n \in Nat /\ \A i \in 1 .. n : s[i] \notin Other
 <2>1. CASE s = <<"rest">> BY <2>1 DEF Pushes, Steps
 <2>2. CASE s = <<"whole">> BY <2>2 DEF Pushes, Steps
 <2>3. CASE s = <<"read">> BY <2>3 DEF Pushes, Steps
 <2>4. CASE s = <<"read", "exact">> BY <2>4 DEF Pushes, Steps
 <2>5. CASE s = <<"read", "errp", "read", "exact">> BY <2>5 DEF Pushes, Steps
 <2>6. CASE s = <<"read", "subpackets", "accumulated", "subpackets", "read", "exact">>
   BY <2>6 DEF Pushes, Steps
 <2>7. CASE s = <<"read", "fail">> BY <2>7 DEF Pushes, Steps
 <2>8. CASE s = <<"read", "body">> BY <2>8 DEF Pushes, Steps
 <2>9. CASE s = <<"read", "errp", "check", "key">> BY <2>9 DEF Pushes, Steps
 <2>10. CASE s = <<"body">> BY <2>10 DEF Pushes, Steps
 <2>11. CASE s = <<"read", "consume">> BY <2>11 DEF Pushes, Steps
 <2>12. CASE s = <<"fail">> BY <2>12 DEF Pushes, Steps
 <2> QED BY <2>1, <2>2, <2>3, <2>4, <2>5, <2>6, <2>7, <2>8, <2>9, <2>10, <2>11, <2>12 DEF PlainScripts
<1> HIDE DEF Other
<1>3. /\ l.kinds \in [1 .. 2 -> ReaderKinds \ {"base"}]
      /\ l.kinds[1] # "seip" /\ l.kinds[2] \notin Charging
      /\ l.depth = [i \in 1 .. n + 1 |-> 0] /\ l.sub = {}
  BY DEF PlainLayout, ReaderKinds, Charging
<1> HIDE DEF l
<1>4. /\ \A i \in 1 .. n : l.depth[i] = 0 /\ l.depth[i + 1] = 0
      /\ l.depth \in [1 .. n + 1 -> 0 .. 2] /\ l.depth[1] = 0 /\ l.depth[n + 1] = 0
  BY <1>1, <1>3
<1>5. ASSUME NEW i \in 1 .. n PROVE StepFits(s[i], l, i)
  BY <1>1, <1>3, <1>4 DEF StepFits, Charges, Other
<1> QED
 <2>1. \A i \in 1 .. n + 1 : l.depth[i] # 2 BY <1>3
 <2>2. \A i \in 2 .. n : s[i] # "parse" BY <1>1 DEF Other
 <2> QED BY <1>1, <1>3, <1>4, <1>5, <2>1, <2>2 DEF Fits, l


\* A handler that pushes readers pops each again.
LEMMA PushingFits ==
  ASSUME NEW l \in Pushing PROVE Fits(l.script, l) /\ l.script \in Seq(Steps)
<1>1. CASE /\ l.script = <<"read", "push_decompress", "parse", "pop">>
         /\ l.kinds = <<"decompress", "hash">> /\ l.depth = <<0, 0, 1, 1, 0>>
         /\ l.sub = {}
 <2>1. /\ l.script \in Seq(Steps) /\ Len(l.script) = 4
       /\ l.kinds \in [1 .. 2 -> ReaderKinds \ {"base"}]
       /\ l.kinds[1] # "seip" /\ l.kinds[2] \notin Charging
   BY <1>1 DEF Steps, ReaderKinds, Charging
 <2>2. /\ l.depth \in [1 .. 5 -> 0 .. 2] /\ l.depth[1] = 0 /\ l.depth[5] = 0
       /\ 1 \notin l.sub /\ \A i \in 1 .. 5 : l.depth[i] = 2 => l.kinds[1] # "hash"
   BY <1>1
 <2>4. \A i \in 2 .. Len(l.script) : l.script[i] = "parse" =>
         l.script[i - 1] \in Pushes \/ l.kinds[l.depth[i]] = "decrypt"
   BY <1>1 DEF Pushes
 <2>3. ASSUME NEW i \in 1 .. 4 PROVE StepFits(l.script[i], l, i)
   BY <1>1 DEF StepFits, Charges, Charging, Pushes, OwnReads, Kinds
 <2> QED BY <2>1, <2>2, <2>3, <2>4 DEF Fits
<1>2. CASE /\ l.script = <<"push_decrypt", "repeat", "parse", "pop">>
         /\ l.kinds = <<"decrypt", "hash">> /\ l.depth = <<0, 1, 1, 1, 0>>
         /\ l.sub = {}
 <2>1. /\ l.script \in Seq(Steps) /\ Len(l.script) = 4
       /\ l.kinds \in [1 .. 2 -> ReaderKinds \ {"base"}]
       /\ l.kinds[1] # "seip" /\ l.kinds[2] \notin Charging
   BY <1>2 DEF Steps, ReaderKinds, Charging
 <2>2. /\ l.depth \in [1 .. 5 -> 0 .. 2] /\ l.depth[1] = 0 /\ l.depth[5] = 0
       /\ 1 \notin l.sub /\ \A i \in 1 .. 5 : l.depth[i] = 2 => l.kinds[1] # "hash"
   BY <1>2
 <2>4. \A i \in 2 .. Len(l.script) : l.script[i] = "parse" =>
         l.script[i - 1] \in Pushes \/ l.kinds[l.depth[i]] = "decrypt"
   BY <1>2 DEF Pushes
 <2>3. ASSUME NEW i \in 1 .. 4 PROVE StepFits(l.script[i], l, i)
   BY <1>2 DEF StepFits, Charges, Charging, Pushes, OwnReads, Kinds
 <2> QED BY <2>1, <2>2, <2>3, <2>4 DEF Fits
<1>3. CASE /\ l.script = <<"push_decrypt", "repeat", "pop", "fail">>
         /\ l.kinds = <<"decrypt", "hash">> /\ l.depth = <<0, 1, 1, 0, 0>>
         /\ l.sub = {}
 <2>1. /\ l.script \in Seq(Steps) /\ Len(l.script) = 4
       /\ l.kinds \in [1 .. 2 -> ReaderKinds \ {"base"}]
       /\ l.kinds[1] # "seip" /\ l.kinds[2] \notin Charging
   BY <1>3 DEF Steps, ReaderKinds, Charging
 <2>2. /\ l.depth \in [1 .. 5 -> 0 .. 2] /\ l.depth[1] = 0 /\ l.depth[5] = 0
       /\ 1 \notin l.sub /\ \A i \in 1 .. 5 : l.depth[i] = 2 => l.kinds[1] # "hash"
   BY <1>3
 <2>4. \A i \in 2 .. Len(l.script) : l.script[i] = "parse" =>
         l.script[i - 1] \in Pushes \/ l.kinds[l.depth[i]] = "decrypt"
   BY <1>3 DEF Pushes
 <2>3. ASSUME NEW i \in 1 .. 4 PROVE StepFits(l.script[i], l, i)
   BY <1>3 DEF StepFits, Charges, Charging, Pushes, OwnReads, Kinds
 <2> QED BY <2>1, <2>2, <2>3, <2>4 DEF Fits
<1>4. CASE /\ l.script = <<"read", "push_decrypt", "push_seip", "parse", "pop",
                        "pop">>
         /\ l.kinds = <<"decrypt", "seip">> /\ l.depth = <<0, 0, 1, 2, 2, 1, 0>>
         /\ l.sub = {}
 <2>1. /\ l.script \in Seq(Steps) /\ Len(l.script) = 6
       /\ l.kinds \in [1 .. 2 -> ReaderKinds \ {"base"}]
       /\ l.kinds[1] # "seip" /\ l.kinds[2] \notin Charging
   BY <1>4 DEF Steps, ReaderKinds, Charging
 <2>2. /\ l.depth \in [1 .. 7 -> 0 .. 2] /\ l.depth[1] = 0 /\ l.depth[7] = 0
       /\ 1 \notin l.sub /\ \A i \in 1 .. 7 : l.depth[i] = 2 => l.kinds[1] # "hash"
   BY <1>4
 <2>4. \A i \in 2 .. Len(l.script) : l.script[i] = "parse" =>
         l.script[i - 1] \in Pushes \/ l.kinds[l.depth[i]] = "decrypt"
   BY <1>4 DEF Pushes
 <2>3. ASSUME NEW i \in 1 .. 6 PROVE StepFits(l.script[i], l, i)
   BY <1>4 DEF StepFits, Charges, Charging, Pushes, OwnReads, Kinds
 <2> QED BY <2>1, <2>2, <2>3, <2>4 DEF Fits
<1>5. CASE /\ l.script = <<"read", "push_hash", "numbers", "pop", "read_if_ret",
                        "errp_if_ret", "assert_length", "return_ret">>
         /\ l.kinds = <<"hash", "hash">> /\ l.depth = <<0, 0, 1, 1, 0, 0, 0, 0, 0>>
         /\ l.sub = {}
 <2>1. /\ l.script \in Seq(Steps) /\ Len(l.script) = 8
       /\ l.kinds \in [1 .. 2 -> ReaderKinds \ {"base"}]
       /\ l.kinds[1] # "seip" /\ l.kinds[2] \notin Charging
   BY <1>5 DEF Steps, ReaderKinds, Charging
 <2>2. /\ l.depth \in [1 .. 9 -> 0 .. 2] /\ l.depth[1] = 0 /\ l.depth[9] = 0
       /\ 1 \notin l.sub /\ \A i \in 1 .. 9 : l.depth[i] = 2 => l.kinds[1] # "hash"
   BY <1>5
 <2>4. \A i \in 2 .. Len(l.script) : l.script[i] = "parse" =>
         l.script[i - 1] \in Pushes \/ l.kinds[l.depth[i]] = "decrypt"
   BY <1>5 DEF Pushes
 <2>3. ASSUME NEW i \in 1 .. 8 PROVE StepFits(l.script[i], l, i)
   BY <1>5 DEF StepFits, Charges, Charging, Pushes, OwnReads, Kinds
 <2> QED BY <2>1, <2>2, <2>3, <2>4 DEF Fits
<1>6. CASE /\ l.script = <<"read", "push_decrypt", "enter_v3", "push_hash", "numbers",
                        "pop", "pop", "leave", "read_if_ret", "errp_if_ret", "assert_length", "return_ret">>
         /\ l.kinds = <<"decrypt", "hash">> /\ l.depth = <<0, 0, 1, 1, 2, 2, 1, 0, 0, 0, 0, 0, 0>>
         /\ l.sub = 4 .. 8
 <2>1. /\ l.script \in Seq(Steps) /\ Len(l.script) = 12
       /\ l.kinds \in [1 .. 2 -> ReaderKinds \ {"base"}]
       /\ l.kinds[1] # "seip" /\ l.kinds[2] \notin Charging
   BY <1>6 DEF Steps, ReaderKinds, Charging
 <2>2. /\ l.depth \in [1 .. 13 -> 0 .. 2] /\ l.depth[1] = 0 /\ l.depth[13] = 0
       /\ 1 \notin l.sub /\ \A i \in 1 .. 13 : l.depth[i] = 2 => l.kinds[1] # "hash"
   BY <1>6
 <2>4. \A i \in 2 .. Len(l.script) : l.script[i] = "parse" =>
         l.script[i - 1] \in Pushes \/ l.kinds[l.depth[i]] = "decrypt"
   BY <1>6 DEF Pushes
 <2>3. ASSUME NEW i \in 1 .. 12 PROVE StepFits(l.script[i], l, i)
   BY <1>6 DEF StepFits, Charges, Charging, Pushes, OwnReads, Kinds
 <2> QED BY <2>1, <2>2, <2>3, <2>4 DEF Fits
<1>7. CASE /\ l.script = <<"read", "push_decrypt", "enter", "push_hash", "numbers",
                        "pop", "read_if_ret", "errp_if_ret", "pop", "assert_length", "return_ret">>
         /\ l.kinds = <<"decrypt", "hash">> /\ l.depth = <<0, 0, 1, 1, 2, 2, 1, 1, 1, 0, 0, 0>>
         /\ l.sub = 4 .. 12
 <2>1. /\ l.script \in Seq(Steps) /\ Len(l.script) = 11
       /\ l.kinds \in [1 .. 2 -> ReaderKinds \ {"base"}]
       /\ l.kinds[1] # "seip" /\ l.kinds[2] \notin Charging
   BY <1>7 DEF Steps, ReaderKinds, Charging
 <2>2. /\ l.depth \in [1 .. 12 -> 0 .. 2] /\ l.depth[1] = 0 /\ l.depth[12] = 0
       /\ 1 \notin l.sub /\ \A i \in 1 .. 12 : l.depth[i] = 2 => l.kinds[1] # "hash"
   BY <1>7
 <2>4. \A i \in 2 .. Len(l.script) : l.script[i] = "parse" =>
         l.script[i - 1] \in Pushes \/ l.kinds[l.depth[i]] = "decrypt"
   BY <1>7 DEF Pushes
 <2>3. ASSUME NEW i \in 1 .. 11 PROVE StepFits(l.script[i], l, i)
   BY <1>7 DEF StepFits, Charges, Charging, Pushes, OwnReads, Kinds
 <2> QED BY <2>1, <2>2, <2>3, <2>4 DEF Fits
<1> QED BY <1>1, <1>2, <1>3, <1>4, <1>5, <1>6, <1>7 DEF Pushing

\* Every handler has a layout.
LEMMA LayoutFits ==
  ASSUME NEW s \in Scripts PROVE Fits(s, Layout(s)) /\ s \in Seq(Steps) /\ Len(s) \in Nat
<1>1. Fits(s, Layout(s)) /\ s \in Seq(Steps)
 <2>1. CASE \E l \in Pushing : l.script = s
  <3>1. PICK l \in Pushing : l.script = s /\ Layout(s) = l BY <2>1 DEF Layout
  <3> QED BY <3>1, PushingFits
 <2>2. CASE ~\E l \in Pushing : l.script = s
  <3>1. s \in PlainScripts /\ Layout(s) = PlainLayout(s) BY <2>2 DEF Scripts, Layout
  <3> QED BY <3>1, PlainFits
 <2> QED BY <2>1, <2>2
<1> QED BY <1>1

\* These are the handlers, whether there is a key or not.
LEMMA HandlersHaveLayouts == Handlers \subseteq Scripts
<1> DEFINE ending == <<"assert_length", "return_ret">>
<1>1. parse_public_key_data \o <<"exact">>
       = <<"read", "exact">>
 <2> DEFINE s == parse_public_key_data \o <<"exact">>
            t == <<"read", "exact">>
 <2>1. /\ s \in Seq(Steps) /\ t \in Seq(Steps) /\ Len(s) = 2 /\ Len(t) = 2
       /\ \A i \in 1 .. 2 : s[i] = t[i]
   BY DEF Steps, parse_public_key_data, parse_v4_signature, secret_part, checksum
 <2> HIDE DEF s, t
 <2>2. s = t BY <2>1, Same
 <2> QED BY <2>2 DEF s, t
<1>2. <<"read">> \o parse_v4_signature
       = <<"read", "subpackets", "accumulated", "subpackets", "read", "exact">>
 <2> DEFINE s == <<"read">> \o parse_v4_signature
            t == <<"read", "subpackets", "accumulated", "subpackets", "read", "exact">>
 <2>1. /\ s \in Seq(Steps) /\ t \in Seq(Steps) /\ Len(s) = 6 /\ Len(t) = 6
       /\ \A i \in 1 .. 6 : s[i] = t[i]
   BY DEF Steps, parse_public_key_data, parse_v4_signature, secret_part, checksum
 <2> HIDE DEF s, t
 <2>2. s = t BY <2>1, Same
 <2> QED BY <2>2 DEF s, t
<1>3. parse_public_key_data \o secret_part \o checksum \o ending
       = <<"read", "push_hash", "numbers", "pop", "read_if_ret", "errp_if_ret",
                "assert_length", "return_ret">>
 <2> DEFINE s == parse_public_key_data \o secret_part \o checksum \o ending
            t == <<"read", "push_hash", "numbers", "pop", "read_if_ret", "errp_if_ret",
               "assert_length", "return_ret">>
 <2>1. /\ s \in Seq(Steps) /\ t \in Seq(Steps) /\ Len(s) = 8 /\ Len(t) = 8
       /\ \A i \in 1 .. 8 : s[i] = t[i]
   BY DEF Steps, parse_public_key_data, parse_v4_signature, secret_part, checksum
 <2> HIDE DEF s, t
 <2>2. s = t BY <2>1, Same
 <2> QED BY <2>2 DEF s, t
<1>4. parse_public_key_data \o <<"consume">>
       = <<"read", "consume">>
 <2> DEFINE s == parse_public_key_data \o <<"consume">>
            t == <<"read", "consume">>
 <2>1. /\ s \in Seq(Steps) /\ t \in Seq(Steps) /\ Len(s) = 2 /\ Len(t) = 2
       /\ \A i \in 1 .. 2 : s[i] = t[i]
   BY DEF Steps, parse_public_key_data, parse_v4_signature, secret_part, checksum
 <2> HIDE DEF s, t
 <2>2. s = t BY <2>1, Same
 <2> QED BY <2>2 DEF s, t
<1>5. parse_public_key_data \o <<"push_decrypt", "enter_v3">> \o secret_part
               \o <<"pop", "leave">> \o checksum \o ending
       = <<"read", "push_decrypt", "enter_v3", "push_hash", "numbers", "pop", "pop",
                "leave", "read_if_ret", "errp_if_ret", "assert_length", "return_ret">>
 <2> DEFINE s == parse_public_key_data \o <<"push_decrypt", "enter_v3">> \o secret_part
              \o <<"pop", "leave">> \o checksum \o ending
            t == <<"read", "push_decrypt", "enter_v3", "push_hash", "numbers", "pop", "pop",
               "leave", "read_if_ret", "errp_if_ret", "assert_length", "return_ret">>
 <2>1. /\ s \in Seq(Steps) /\ t \in Seq(Steps) /\ Len(s) = 12 /\ Len(t) = 12
       /\ \A i \in 1 .. 12 : s[i] = t[i]
   BY DEF Steps, parse_public_key_data, parse_v4_signature, secret_part, checksum
 <2> HIDE DEF s, t
 <2>2. s = t BY <2>1, Same
 <2> QED BY <2>2 DEF s, t
<1>6. parse_public_key_data \o <<"push_decrypt", "enter">> \o secret_part
               \o checksum \o <<"pop">> \o ending
       = <<"read", "push_decrypt", "enter", "push_hash", "numbers", "pop",
                "read_if_ret", "errp_if_ret", "pop", "assert_length", "return_ret">>
 <2> DEFINE s == parse_public_key_data \o <<"push_decrypt", "enter">> \o secret_part
              \o checksum \o <<"pop">> \o ending
            t == <<"read", "push_decrypt", "enter", "push_hash", "numbers", "pop",
               "read_if_ret", "errp_if_ret", "pop", "assert_length", "return_ret">>
 <2>1. /\ s \in Seq(Steps) /\ t \in Seq(Steps) /\ Len(s) = 11 /\ Len(t) = 11
       /\ \A i \in 1 .. 11 : s[i] = t[i]
   BY DEF Steps, parse_public_key_data, parse_v4_signature, secret_part, checksum
 <2> HIDE DEF s, t
 <2>2. s = t BY <2>1, Same
 <2> QED BY <2>2 DEF s, t
<1>7. parse_public_key \cup parse_signature \cup parse_secret_key \subseteq Scripts
  BY <1>1, <1>2, <1>3, <1>4, <1>5, <1>6, ZenonT(60) DEF parse_public_key, parse_signature, parse_secret_key,
     parse_v3_signature, Scripts, PlainScripts, Pushing
<1>8. /\ parse_trust \cup parse_user_id \cup parse_user_attribute \cup parse_mdc
           \cup parse_one_pass \cup parse_literal_data \cup unknown \subseteq PlainScripts
      /\ parse_compressed \cup parse_pk_session_key \cup parse_se_data
           \cup parse_se_ip_data \subseteq Scripts
  BY ZenonT(60) DEF parse_trust, parse_user_id, parse_user_attribute, parse_mdc, parse_one_pass,
     parse_literal_data, unknown, parse_compressed, parse_pk_session_key, parse_se_data,
     parse_se_ip_data, Scripts, PlainScripts, Pushing
<1> QED BY <1>7, <1>8 DEF Handlers, Scripts

-----------------------------------------------------------------------------
(* Where a handler is. *)

Own(fr) == Charges(Layout(fr.script), fr.i)
Inside(fr) == fr.i \in Layout(fr.script).sub

\* What the layout says of a place in a handler.
LEMMA PlaceFacts ==
  ASSUME NEW fr, fr.script \in Scripts, fr.i \in 1 .. Len(fr.script) + 1
  PROVE  /\ Held(fr) \in 0 .. 2 /\ Held(fr) \in Nat
         /\ \A h \in 1 .. Held(fr) : HeldKind(fr, h) \in ReaderKinds \ {"base"}
         /\ HeldKind(fr, 1) # "seip" /\ HeldKind(fr, 2) \notin Charging
         /\ Own(fr) <=> Held(fr) > 0 /\ HeldKind(fr, 1) \in Charging
         /\ HeldKind(fr, 1) = "hash" => Held(fr) <= 1
         /\ fr.i = 1 => Held(fr) = 0 /\ ~Inside(fr)
         /\ fr.i = Len(fr.script) + 1 => Held(fr) = 0
         /\ Len(fr.script) \in Nat /\ fr.i \in Nat \ {0}
<1> DEFINE l == Layout(fr.script)
           n == Len(fr.script)
<1>1. Fits(fr.script, l) /\ n \in Nat BY LayoutFits
<1> HIDE DEF l, n
<1>2. fr.i \in 1 .. n + 1 BY DEF n
<1>3. /\ l.kinds \in [1 .. 2 -> ReaderKinds \ {"base"}]
      /\ l.kinds[1] # "seip" /\ l.kinds[2] \notin Charging
      /\ l.depth \in [1 .. n + 1 -> 0 .. 2] /\ l.depth[1] = 0 /\ l.depth[n + 1] = 0
      /\ 1 \notin l.sub
      /\ \A i \in 1 .. n + 1 : l.depth[i] = 2 => l.kinds[1] # "hash"
  BY <1>1 DEF Fits, n
<1>4. l.depth[fr.i] \in 0 .. 2 BY <1>2, <1>3
<1>5. \A h \in 1 .. l.depth[fr.i] : h \in 1 .. 2 BY <1>4
<1>6. l.kinds[1] = "hash" => l.depth[fr.i] <= 1 BY <1>2, <1>3, <1>4
<1> QED BY <1>1, <1>2, <1>3, <1>4, <1>5, <1>6, SMTT(30) DEF Held, HeldKind, Own, Inside, Charges, l, n

\* And of the step that is taken there.
LEMMA StepFacts ==
  ASSUME NEW fr, fr.script \in Scripts, fr.i \in 1 .. Len(fr.script),
         NEW gr, gr.script = fr.script, gr.i = fr.i + 1,
         NEW step, step = fr.script[fr.i]
  PROVE  /\ step \in Pushes => /\ Held(gr) = Held(fr) + 1
                               /\ step = Kinds[HeldKind(fr, Held(gr))]
         /\ step = "pop" => Held(gr) = Held(fr) - 1
         /\ step \notin Pushes /\ step # "pop" => Held(gr) = Held(fr)
         /\ step \in {"enter", "enter_v3"} => Inside(gr)
         /\ step = "leave" => ~Inside(gr)
         /\ step \notin {"enter", "enter_v3", "leave"} => (Inside(gr) <=> Inside(fr))
         /\ step \in {"repeat", "parse"} => Own(fr)
         /\ step = "parse" => HeldKind(fr, Held(fr)) # "hash"
         /\ step \in OwnReads => (Inside(fr) <=> Own(fr))
         /\ gr.i \in 1 .. Len(gr.script) /\ gr.script[gr.i] = "parse" =>
              step \in Pushes \/ HeldKind(gr, Held(gr)) = "decrypt"
         /\ \A h : HeldKind(gr, h) = HeldKind(fr, h)
<1> DEFINE l == Layout(fr.script)
           s == fr.script
<1>1. Fits(s, l) /\ s \in Seq(Steps) /\ Len(s) \in Nat BY LayoutFits
<1> HIDE DEF l
<1>2. StepFits(step, l, fr.i) BY <1>1 DEF Fits
<1>3. gr.i \in 1 .. Len(s) /\ s[gr.i] = "parse" =>
        step \in Pushes \/ l.kinds[l.depth[gr.i]] = "decrypt"
 <2>1. SUFFICES ASSUME gr.i \in 1 .. Len(s), s[gr.i] = "parse"
                PROVE  step \in Pushes \/ l.kinds[l.depth[gr.i]] = "decrypt"
   OBVIOUS
 <2>2. gr.i \in 2 .. Len(s) /\ gr.i - 1 = fr.i BY <1>1, <2>1
 <2> QED BY <1>1, <2>1, <2>2 DEF Fits
<1> QED BY <1>2, <1>3 DEF StepFits, Held, HeldKind, Own, Inside, l

-----------------------------------------------------------------------------
(* Reading through the readers. *)

\* Packets and readers are of their types; the innermost packet is the last.
LEMMA TypedFacts ==
  ASSUME Typed
  PROVE  /\ Len(frames) \in Nat /\ Top \in Nat \ {0}
         /\ \A f \in 1 .. Len(frames) : frames[f] \in FrameSet /\ frames[f].script \in Scripts
         /\ \A j \in 1 .. Top : readers[j] \in ReaderSet
         /\ frames # <<>> => Len(frames) \in 1 .. Len(frames) /\ F = frames[Len(frames)]
<1>1. /\ frames \in Seq(FrameSet) /\ readers \in Seq(ReaderSet) /\ readers # <<>> BY DEF Typed
<1>2. /\ Len(frames) \in Nat /\ Top \in Nat \ {0}
      /\ \A f \in 1 .. Len(frames) : frames[f] \in FrameSet
      /\ \A j \in 1 .. Top : readers[j] \in ReaderSet
  BY <1>1 DEF Top
<1>3. frames # <<>> => Len(frames) \in 1 .. Len(frames) BY <1>1
<1> QED BY <1>2, <1>3 DEF F, Last, FrameSet

\* An answer says of every reader what it takes of the one below.
LEMMA AnswerFacts ==
  ASSUME Typed, NEW n \in Nat, NEW c \in Answers(n)
  PROVE  /\ c \in [1 .. Top + 1 -> Nat] /\ c[Top + 1] = n
         /\ \A j \in 1 .. Top : c[j] \in 0 .. MaxLen /\ c[j + 1] \in Nat /\ Takes(j, c[j + 1], c[j])
<1>1. Top \in Nat BY TypedFacts
<1>2. PICK taken \in [1 .. Top -> 0 .. MaxLen] :
        /\ c = Append(taken, n)
        /\ \A j \in 1 .. Top : Takes(j, c[j + 1], c[j])
  BY DEF Answers
<1> DEFINE k == Top
<1>3. k \in Nat /\ taken \in [1 .. k -> 0 .. MaxLen] BY <1>1, <1>2
<1> HIDE DEF k
<1>4. taken \in Seq(Nat) /\ Len(taken) = k BY <1>3
<1>5. /\ Append(taken, n) \in [1 .. k + 1 -> Nat] /\ Append(taken, n)[k + 1] = n
      /\ \A j \in 1 .. k : Append(taken, n)[j] = taken[j]
 <2>1. /\ Append(taken, n) \in Seq(Nat) /\ Len(Append(taken, n)) = k + 1
       /\ Append(taken, n)[k + 1] = n /\ \A j \in 1 .. k : Append(taken, n)[j] = taken[j]
   BY <1>3, <1>4, AppendProperties
 <2> DEFINE e == Append(taken, n)
 <2> HIDE DEF e
 <2>2. \A m \in Nat : e \in Seq(Nat) /\ Len(e) = m => e \in [1 .. m -> Nat] OBVIOUS
 <2>3. k + 1 \in Nat /\ e \in Seq(Nat) /\ Len(e) = k + 1 BY <1>3, <2>1 DEF e
 <2>4. e \in [1 .. k + 1 -> Nat] BY <2>2, <2>3
 <2> QED BY <2>1, <2>4 DEF e
<1>6. \A j \in 1 .. k : taken[j] \in 0 .. MaxLen BY <1>3
<1>7. \A j \in 1 .. k : j + 1 \in 1 .. k + 1 BY <1>3
<1> QED BY <1>2, <1>5, <1>6, <1>7 DEF k

\* What a packet is charged is what the only reader of it that charges takes.
LEMMA ChargeFacts ==
  ASSUME Typed, NEW n \in Nat, NEW c \in Answers(n), NEW f
  PROVE  /\ ChargedBy(c, f) \in Nat
         /\ (\A j \in 1 .. Top : readers[j].frame = f => readers[j].kind \notin Charging)
              => ChargedBy(c, f) = 0
         /\ \A m \in 1 .. Top :
              (\A j \in 1 .. Top : readers[j].frame = f /\ readers[j].kind \in Charging <=> j = m)
                => ChargedBy(c, f) = c[m]
<1> DEFINE Marks(j) == readers[j].frame = f /\ readers[j].kind \in Charging
           All == (1 .. Top) \X (1 .. MaxLen)
           U == {ju \in All : /\ readers[ju[1]].frame = f /\ readers[ju[1]].kind \in Charging
                              /\ ju[2] <= c[ju[1]]}
<1>1. Top \in Nat /\ \A j \in 1 .. Top : c[j] \in 0 .. MaxLen BY TypedFacts, AnswerFacts
<1>2. IsFiniteSet(1 .. Top) /\ IsFiniteSet(1 .. MaxLen) BY <1>1, FS_Interval
<1>3. IsFiniteSet(All) BY <1>2, FS_Product
<1>4. U \subseteq All /\ ChargedBy(c, f) = Cardinality(U) BY DEF ChargedBy
<1>5. Cardinality(U) \in Nat
 <2>1. IsFiniteSet(U) BY <1>3, <1>4, FS_Subset
 <2> QED BY <2>1, FS_CardinalityType
<1>6. ASSUME \A j \in 1 .. Top : ~Marks(j) PROVE Cardinality(U) = 0
 <2>1. U = {} BY <1>6
 <2> QED BY <2>1, FS_EmptySet
<1>7. ASSUME NEW m \in 1 .. Top, \A j \in 1 .. Top : Marks(j) <=> j = m
      PROVE  Cardinality(U) = c[m]
 <2> DEFINE d == c[m]
 <2>1. d \in Nat /\ d <= MaxLen BY <1>1
 <2>2. U = {m} \X (1 .. d)
  <3>1. \A ju \in U : ju[1] = m /\ ju[2] \in 1 .. d /\ ju = <<ju[1], ju[2]>> BY <1>7, <2>1
  <3>2. ASSUME NEW u \in 1 .. d PROVE <<m, u>> \in U BY <1>7, <2>1
  <3> HIDE DEF U, d
  <3> QED BY <3>1, <3>2, <1>4
 <2> HIDE DEF U, d
 <2>3. IsFiniteSet({m}) /\ Cardinality({m}) = 1 BY FS_Singleton
 <2>4. IsFiniteSet(1 .. d) /\ Cardinality(1 .. d) = d BY <2>1, FS_Interval
 <2>5. Cardinality(U) = 1 * d BY <2>2, <2>3, <2>4, FS_Product, ZenonT(60)
 <2> QED BY <2>1, <2>5 DEF d
<1> HIDE DEF U
<1> QED BY <1>4, <1>5, <1>6, <1>7

\* Reading changes no reader's place.
SameReaders ==
  /\ readers' \in Seq(ReaderSet) /\ Len(readers') = Top
  /\ \A j \in 1 .. Top : readers'[j].kind = readers[j].kind /\ readers'[j].frame = readers[j].frame

\* The packets are those there were, the innermost some steps further on.
SameFrames(adv) ==
  /\ frames' \in Seq(FrameSet) /\ Len(frames') = Len(frames)
  /\ \A f \in 1 .. Len(frames) :
       /\ frames'[f].script = frames[f].script /\ frames'[f].header = frames[f].header
       /\ frames'[f].indet = frames[f].indet /\ frames'[f].len = frames[f].len
       /\ frames'[f].i = IF f = Len(frames) THEN frames[f].i + adv ELSE frames[f].i
       /\ frames'[f].ret = frames[f].ret /\ frames'[f].sub = frames[f].sub

\* A read leaves every reader its kind and its packet and adds to what is accumulated
\* under it what it has taken.
LEMMA AnsweredFacts ==
  ASSUME Typed, NEW n \in Nat, NEW c \in Answers(n)
  PROVE  /\ Answered(c) \in Seq(ReaderSet) /\ Len(Answered(c)) = Top
         /\ \A j \in 1 .. Top : /\ Answered(c)[j].kind = readers[j].kind
                                /\ Answered(c)[j].frame = readers[j].frame
                                /\ Answered(c)[j].alength = readers[j].alength + c[j + 1]
<1> DEFINE k == Top
           A == Answered(c)
<1>1. k \in Nat /\ \A j \in 1 .. k : readers[j] \in ReaderSet /\ c[j + 1] \in Nat
  BY TypedFacts, AnswerFacts
<1>2. A = [j \in 1 .. k |->
             [readers[j] EXCEPT !.left = IF readers[j].kind = "hash" THEN 0 ELSE @ - c[j + 1],
                                !.alength = @ + c[j + 1],
                                !.opened = @ \/ (readers[j].kind = "seip" /\ c[j + 1] > 0)]]
  BY DEF Answered
<1>3. ASSUME NEW j \in 1 .. k
      PROVE  /\ A[j] \in ReaderSet /\ A[j].kind = readers[j].kind
             /\ A[j].frame = readers[j].frame /\ A[j].alength = readers[j].alength + c[j + 1]
 <2> DEFINE r == readers[j]
            o == r.opened \/ (r.kind = "seip" /\ c[j + 1] > 0)
            l == IF r.kind = "hash" THEN 0 ELSE r.left - c[j + 1]
 <2>1. /\ A[j] = [r EXCEPT !.left = l, !.alength = @ + c[j + 1], !.opened = o]
       /\ r \in ReaderSet /\ c[j + 1] \in Nat
   BY <1>1, <1>2
 <2>2. l \in Int /\ r.alength + c[j + 1] \in Nat BY <2>1 DEF ReaderSet
 <2>3. o \in BOOLEAN BY <2>1
 <2> HIDE DEF l, o, r
 <2>4. A[j] \in ReaderSet BY <2>1, <2>2, <2>3 DEF ReaderSet
 <2>5. A[j].kind = r.kind /\ A[j].frame = r.frame /\ A[j].alength = r.alength + c[j + 1]
   BY <2>1 DEF ReaderSet
 <2> QED BY <2>4, <2>5 DEF r
<1>4. DOMAIN A = 1 .. k /\ A = [j \in 1 .. k |-> A[j]] BY <1>2
<1> HIDE DEF A, k
<1>5. A \in [1 .. k -> ReaderSet] BY <1>3, <1>4
<1>6. A \in Seq(ReaderSet) /\ Len(A) = k BY <1>1, <1>5
<1> QED BY <1>3, <1>6 DEF A, k

\* The parts of a packet's record are of their types.
LEMMA FrameTypes ==
  ASSUME NEW fr \in FrameSet
  PROVE  /\ fr.script \in Scripts /\ fr.i \in Nat /\ fr.len \in 0 .. MaxLen /\ fr.read \in Nat
         /\ fr.indet \in BOOLEAN /\ fr.header \in {1, 2} /\ fr.sub \in BOOLEAN
         /\ fr.sublen \in Int /\ fr.subread \in Nat /\ fr.ret \in {-1, 0, 1}
BY DEF FrameSet

\* A packet that is charged remains a packet.
LEMMA FrameCharged ==
  ASSUME NEW fr \in FrameSet, NEW r \in Nat PROVE [fr EXCEPT !.read = r] \in FrameSet
BY DEF FrameSet

\* A read changes nothing of the packets but what has been read of them.
LEMMA ChargedFacts ==
  ASSUME Typed, NEW n \in Nat, NEW c \in Answers(n)
  PROVE  /\ Charged(c) \in Seq(FrameSet) /\ Len(Charged(c)) = Len(frames)
         /\ \A f \in 1 .. Len(frames) :
              Charged(c)[f] = [frames[f] EXCEPT !.read = frames[f].read + ChargedBy(c, f)]
<1> DEFINE m == Len(frames)
           A == Charged(c)
<1>1. m \in Nat /\ \A f \in 1 .. m : frames[f] \in FrameSet /\ ChargedBy(c, f) \in Nat
  BY TypedFacts, ChargeFacts
<1>2. A = [f \in 1 .. m |-> [frames[f] EXCEPT !.read = frames[f].read + ChargedBy(c, f)]]
  BY DEF Charged
<1> HIDE DEF A, m
<1>3. ASSUME NEW f \in 1 .. m PROVE A[f] \in FrameSet
 <2> DEFINE fr == frames[f]
            r == fr.read + ChargedBy(c, f)
 <2>1. r \in Nat /\ fr \in FrameSet /\ A[f] = [fr EXCEPT !.read = r] BY <1>1, <1>2, FrameTypes
 <2> HIDE DEF r, fr
 <2> QED BY <2>1, FrameCharged
<1>4. A \in [1 .. m -> FrameSet] BY <1>2, <1>3
<1>5. A \in Seq(FrameSet) /\ Len(A) = m BY <1>1, <1>4
<1>6. \A f \in 1 .. m : A[f] = [frames[f] EXCEPT !.read = frames[f].read + ChargedBy(c, f)]
  BY <1>2
<1> QED BY <1>5, <1>6 DEF A, m

MovedOn(fs, own, adv) ==
  [f \in 1 .. Len(fs) |-> IF f = Len(fs) THEN Moved(fs[f], own, adv) ELSE fs[f]]

\* The innermost packet takes its step and nothing changes of the packets around it.
LEMMA MoveFacts ==
  ASSUME NEW fs \in Seq(FrameSet), NEW own \in Nat, NEW adv \in {0, 1}
  PROVE  /\ MovedOn(fs, own, adv) \in Seq(FrameSet) /\ Len(MovedOn(fs, own, adv)) = Len(fs)
         /\ \A f \in 1 .. Len(fs) :
              /\ MovedOn(fs, own, adv)[f].read =
                   IF f = Len(fs) /\ ~fs[f].sub THEN fs[f].read + own ELSE fs[f].read
              /\ MovedOn(fs, own, adv)[f].i = IF f = Len(fs) THEN fs[f].i + adv ELSE fs[f].i
              /\ MovedOn(fs, own, adv)[f].script = fs[f].script
              /\ MovedOn(fs, own, adv)[f].header = fs[f].header
              /\ MovedOn(fs, own, adv)[f].indet = fs[f].indet
              /\ MovedOn(fs, own, adv)[f].len = fs[f].len
              /\ MovedOn(fs, own, adv)[f].ret = fs[f].ret
              /\ MovedOn(fs, own, adv)[f].sub = fs[f].sub
<1> DEFINE m == Len(fs)
           A == MovedOn(fs, own, adv)
<1>1. m \in Nat /\ \A f \in 1 .. m : fs[f] \in FrameSet OBVIOUS
<1>2. A = [f \in 1 .. m |-> IF f = m THEN Moved(fs[f], own, adv) ELSE fs[f]] BY DEF MovedOn
<1> HIDE DEF A, m
<1>3. ASSUME NEW f \in 1 .. m
      PROVE  /\ A[f] \in FrameSet
             /\ A[f].read = IF f = m /\ ~fs[f].sub THEN fs[f].read + own ELSE fs[f].read
             /\ A[f].i = IF f = m THEN fs[f].i + adv ELSE fs[f].i
             /\ A[f].script = fs[f].script /\ A[f].header = fs[f].header
             /\ A[f].indet = fs[f].indet /\ A[f].len = fs[f].len
             /\ A[f].ret = fs[f].ret /\ A[f].sub = fs[f].sub
 <2>1. CASE f # m BY <1>1, <1>2, <2>1
 <2>2. CASE f = m /\ fs[f].sub
  <3> DEFINE fr == fs[f]
             r == fr.subread + own
             i == fr.i + adv
  <3>1. A[f] = [fr EXCEPT !.subread = r, !.i = i] /\ fr \in FrameSet
    BY <1>1, <1>2, <2>2 DEF Moved
  <3>2. r \in Nat /\ i \in Nat /\ fr.sub = fs[f].sub BY <3>1, FrameTypes, SMTT(30)
  <3> HIDE DEF r, i, fr
  <3>3. /\ A[f] \in FrameSet /\ A[f].read = fr.read /\ A[f].i = i
        /\ A[f].script = fr.script /\ A[f].header = fr.header
        /\ A[f].indet = fr.indet /\ A[f].len = fr.len
        /\ A[f].ret = fr.ret /\ A[f].sub = fr.sub
    BY <3>1, <3>2 DEF FrameSet
  <3> QED BY <3>3, <2>2 DEF fr, i
 <2>3. CASE f = m /\ ~fs[f].sub
  <3> DEFINE fr == fs[f]
             r == fr.read + own
             i == fr.i + adv
  <3>1. A[f] = [fr EXCEPT !.read = r, !.i = i] /\ fr \in FrameSet BY <1>1, <1>2, <2>3 DEF Moved
  <3>2. r \in Nat /\ i \in Nat /\ fr.sub = fs[f].sub BY <3>1, FrameTypes, SMTT(30)
  <3> HIDE DEF r, i, fr
  <3>3. /\ A[f] \in FrameSet /\ A[f].read = r /\ A[f].i = i
        /\ A[f].script = fr.script /\ A[f].header = fr.header
        /\ A[f].indet = fr.indet /\ A[f].len = fr.len
        /\ A[f].ret = fr.ret /\ A[f].sub = fr.sub
    BY <3>1, <3>2 DEF FrameSet
  <3> QED BY <3>3, <2>3 DEF fr, i, r
 <2> QED BY <2>1, <2>2, <2>3
<1>4. A \in [1 .. m -> FrameSet] BY <1>2, <1>3
<1>5. A \in Seq(FrameSet) /\ Len(A) = m BY <1>1, <1>4
<1> QED BY <1>3, <1>5 DEF A, m

\* What a read does, whatever the readers do.
LEMMA DeliverKeeps ==
  ASSUME Typed, NEW n \in Nat, NEW own \in Nat, NEW adv \in {0, 1}, Deliver(n, own, adv)
  PROVE  SameReaders /\ SameFrames(adv)
<1>1. \/ \E c \in Answers(n) : readers' = Answered(c) /\ frames' = MovedOn(Charged(c), own, adv)
      \/ readers' = readers /\ frames' = MovedOn(frames, own, adv)
  BY DEF Deliver, MovedOn
<1>2. ASSUME NEW c \in Answers(n),
             readers' = Answered(c), frames' = MovedOn(Charged(c), own, adv)
      PROVE  SameReaders /\ SameFrames(adv)
 <2>1. SameReaders BY <1>2, AnsweredFacts DEF SameReaders
 <2>2. /\ Charged(c) \in Seq(FrameSet) /\ Len(Charged(c)) = Len(frames)
       /\ \A f \in 1 .. Len(frames) :
            Charged(c)[f] = [frames[f] EXCEPT !.read = frames[f].read + ChargedBy(c, f)]
   BY ChargedFacts
 <2>3. \A f \in 1 .. Len(frames) :
         /\ Charged(c)[f].i = frames[f].i /\ Charged(c)[f].script = frames[f].script
         /\ Charged(c)[f].header = frames[f].header /\ Charged(c)[f].indet = frames[f].indet
         /\ Charged(c)[f].len = frames[f].len /\ Charged(c)[f].ret = frames[f].ret
         /\ Charged(c)[f].sub = frames[f].sub
   BY <2>2, TypedFacts DEF FrameSet
 <2> DEFINE fs == Charged(c)
 <2> HIDE DEF fs
 <2>4. /\ fs \in Seq(FrameSet) /\ Len(fs) = Len(frames) /\ frames' = MovedOn(fs, own, adv)
   BY <1>2, <2>2 DEF fs
 <2> QED BY <2>1, <2>3, <2>4, MoveFacts DEF SameFrames, fs
<1>3. ASSUME readers' = readers, frames' = MovedOn(frames, own, adv)
      PROVE  SameReaders /\ SameFrames(adv)
 <2>1. frames \in Seq(FrameSet) /\ readers \in Seq(ReaderSet) BY DEF Typed
 <2>2. SameReaders BY <1>3, <2>1 DEF SameReaders, Top
 <2> DEFINE fs == frames
            A == MovedOn(fs, own, adv)
 <2>3. fs \in Seq(FrameSet) /\ frames' = A BY <1>3, <2>1
 <2> HIDE DEF A, fs
 <2>4. /\ A \in Seq(FrameSet) /\ Len(A) = Len(fs)
       /\ \A f \in 1 .. Len(fs) :
            /\ A[f].script = fs[f].script /\ A[f].header = fs[f].header
            /\ A[f].indet = fs[f].indet /\ A[f].len = fs[f].len
            /\ A[f].ret = fs[f].ret /\ A[f].sub = fs[f].sub
            /\ A[f].i = IF f = Len(fs) THEN fs[f].i + adv ELSE fs[f].i
   BY <2>3, MoveFacts DEF A
 <2>5. \A f \in 1 .. Len(fs) :
         A[f].i = IF f = Len(fs) THEN fs[f].i + adv ELSE fs[f].i
   BY <2>4
 <2>6. SameFrames(adv) BY <2>3, <2>4, <2>5 DEF SameFrames, fs
 <2> QED BY <2>2, <2>6
<1> QED BY <1>1, <1>2, <1>3

\* With the readers in their places, a packet is charged what the first of its own
\* readers takes, if that charges.
LEMMA ChargedOwn ==
  ASSUME Typed, NEW p \in [1 .. Len(frames) -> 1 .. Top], Stacked(p),
         NEW n \in Nat, NEW c \in Answers(n), NEW f \in 1 .. Len(frames)
  PROVE  /\ Own(frames[f]) => p[f] + 1 \in 1 .. Top /\ ChargedBy(c, f) = c[p[f] + 1]
         /\ ~Own(frames[f]) => ChargedBy(c, f) = 0
<1> DEFINE fr == frames[f]
           k == Held(fr)
           q == p[f]
<1>1. /\ k \in 0 .. 2 /\ HeldKind(fr, 2) \notin Charging
      /\ Own(fr) <=> k > 0 /\ HeldKind(fr, 1) \in Charging
 <2>1. fr.script \in Scripts /\ fr.i \in 1 .. Len(fr.script) + 1 BY TypedFacts DEF Typed
 <2> QED BY <2>1, PlaceFacts
<1>2. q \in 1 .. Top /\ Top \in Nat /\ q + k <= Top
 <2>1. Len(frames) \in Nat /\ Top \in Nat BY TypedFacts
 <2>2. q \in 1 .. Top /\ (f # Len(frames) => f + 1 \in 1 .. Len(frames)) BY <2>1
 <2>3. q + k = IF f = Len(frames) THEN Top ELSE p[f + 1] BY DEF Stacked
 <2> QED BY <2>1, <2>2, <2>3
<1>3. \A h \in 1 .. k : readers[q + h].frame = f /\ readers[q + h].kind = HeldKind(fr, h)
  BY DEF Stacked
<1>4. \A j \in 1 .. Top : readers[j].frame = f => j - q \in 1 .. k
 <2>1. f # 0 /\ readers[1].frame = 0 BY DEF Stacked
 <2>2. \A j \in 2 .. Top : readers[j].frame = f => j - q \in 1 .. k BY DEF Stacked
 <2> HIDE DEF k, q
 <2> QED BY <1>2, <2>1, <2>2
<1> HIDE DEF fr, k, q
<1>5. CASE Own(fr)
 <2>1. 1 \in 1 .. k /\ q + 1 \in 1 .. Top BY <1>1, <1>2, <1>5
 <2>2. readers[q + 1].frame = f /\ readers[q + 1].kind \in Charging BY <1>1, <1>3, <1>5, <2>1
 <2>3. ASSUME NEW j \in 1 .. Top, readers[j].frame = f, readers[j].kind \in Charging
       PROVE  j = q + 1
  <3> DEFINE h == j - q
  <3>1. h \in 1 .. k /\ j = q + h BY <1>2, <1>4, <2>3
  <3> HIDE DEF h
  <3>2. HeldKind(fr, h) \in Charging BY <1>3, <2>3, <3>1
  <3>3. h = 1 BY <1>1, <3>1, <3>2
  <3> QED BY <3>1, <3>3
 <2> DEFINE m == q + 1
 <2>4. m \in 1 .. Top /\ \A j \in 1 .. Top :
         readers[j].frame = f /\ readers[j].kind \in Charging <=> j = m
   BY <2>1, <2>2, <2>3
 <2> HIDE DEF m
 <2>5. ChargedBy(c, f) = c[m] BY <2>4, ChargeFacts
 <2> QED BY <1>5, <2>1, <2>5 DEF fr, q, m
<1>6. CASE ~Own(fr)
 <2>1. ASSUME NEW j \in 1 .. Top, readers[j].frame = f PROVE readers[j].kind \notin Charging
  <3> DEFINE h == j - q
  <3>1. h \in 1 .. k /\ j = q + h BY <1>2, <1>4, <2>1
  <3> HIDE DEF h
  <3>2. readers[j].kind = HeldKind(fr, h) BY <1>3, <3>1
  <3>3. h = 1 \/ h = 2 BY <1>1, <3>1
  <3>4. k > 0 BY <1>1, <3>1
  <3> QED BY <1>1, <1>6, <3>2, <3>3, <3>4
 <2>2. ChargedBy(c, f) = 0 BY <2>1, ChargeFacts
 <2> QED BY <1>6, <2>2 DEF fr
<1> QED BY <1>5, <1>6

\* All readers are of packets that are still open.
LEMMA NotStale ==
  ASSUME Typed, NEW p, Stacked(p) PROVE ~Stale
<1>1. Len(frames) \in Nat /\ Top \in Nat BY TypedFacts
<1>2. readers[1].frame = 0 /\ \A j \in 2 .. Top : readers[j].frame \in 1 .. Len(frames)
  BY DEF Stacked
<1>3. ASSUME NEW j \in 1 .. Top PROVE ~(readers[j].frame > Len(frames))
 <2>1. j = 1 \/ j \in 2 .. Top BY <1>1
 <2> QED BY <1>1, <1>2, <2>1
<1> QED BY <1>3 DEF Stale

\* A read is counted alike in the packets and under them.
LEMMA DeliverCounts ==
  ASSUME Typed, NEW p \in [1 .. Len(frames) -> 1 .. Top], Stacked(p), Counted(p),
         NEW n \in Nat, NEW own \in Nat, NEW adv \in {0, 1}, Deliver(n, own, adv),
         \A f \in 1 .. Len(frames) : f < Len(frames) => Own(frames[f]),
         frames # <<>> => IF Own(F) THEN F.sub \/ own = 0 ELSE ~F.sub /\ own = n
  PROVE  /\ readers'[Top].alength = readers[Top].alength + n
         /\ \A f \in 1 .. Len(frames) :
              readers[p[f]].kind # "decrypt" =>
                readers'[p[f]].alength = frames'[f].header + frames'[f].read
         /\ frames # <<>> /\ Held(F) = 0 => frames'[Len(frames)].read = F.read + own
<1> DEFINE m == Len(frames)
           k == Top
<1>1. /\ m \in Nat /\ k \in Nat \ {0}
      /\ \A f \in 1 .. m : frames[f] \in FrameSet /\ frames[f].script \in Scripts
      /\ \A j \in 1 .. k : readers[j] \in ReaderSet
      /\ frames # <<>> => m \in 1 .. m /\ F = frames[m]
  BY TypedFacts
<1>2. PICK c \in Answers(n) : readers' = Answered(c) /\ frames' = MovedOn(Charged(c), own, adv)
 <2>1. ~Stale BY NotStale
 <2> QED BY <2>1 DEF Deliver, MovedOn
<1>3. /\ c[k + 1] = n
      /\ \A j \in 1 .. k : c[j] \in Nat /\ c[j + 1] \in Nat /\ Takes(j, c[j + 1], c[j])
      /\ \A j \in 1 .. k : readers'[j].alength = readers[j].alength + c[j + 1]
  BY <1>2, AnswerFacts, AnsweredFacts
<1>4. ASSUME NEW f \in 1 .. m
      PROVE  /\ frames'[f].header = frames[f].header
             /\ frames'[f].read = frames[f].read + ChargedBy(c, f)
                                    + IF f = m /\ ~frames[f].sub THEN own ELSE 0
 <2> DEFINE fs == Charged(c)
            d == ChargedBy(c, f)
 <2>1. /\ fs \in Seq(FrameSet) /\ Len(fs) = m /\ fs[f] = [frames[f] EXCEPT !.read = frames[f].read + d]
   BY ChargedFacts
 <2>2. frames' = MovedOn(fs, own, adv) BY <1>2
 <2>3. d \in Nat /\ frames[f] \in FrameSet /\ frames[f].read \in Nat
   BY <1>1, ChargeFacts, FrameTypes
 <2> HIDE DEF fs, d
 <2>4. /\ fs[f].read = frames[f].read + d /\ fs[f].header = frames[f].header
       /\ fs[f].sub = frames[f].sub
   BY <2>1, <2>3 DEF FrameSet
 <2>5. /\ frames'[f].read = IF f = m /\ ~fs[f].sub THEN fs[f].read + own ELSE fs[f].read
       /\ frames'[f].header = fs[f].header
  <3>1. f \in 1 .. Len(fs) BY <2>1
  <3>2. \A g \in 1 .. Len(fs) :
          /\ MovedOn(fs, own, adv)[g].read =
               IF g = Len(fs) /\ ~fs[g].sub THEN fs[g].read + own ELSE fs[g].read
          /\ MovedOn(fs, own, adv)[g].header = fs[g].header
   <4>1. fs \in Seq(FrameSet) BY <2>1
   <4> QED BY <4>1, MoveFacts
  <3> QED BY <2>1, <2>2, <3>1, <3>2
 <2>6. frames'[f].read = frames[f].read + d + IF f = m /\ ~frames[f].sub THEN own ELSE 0
   BY <2>3, <2>4, <2>5
 <2> QED BY <2>4, <2>5, <2>6 DEF d
<1>5. readers'[k].alength = readers[k].alength + n BY <1>1, <1>3
<1>6. ASSUME NEW f \in 1 .. m
      PROVE  /\ p[f] \in 1 .. k
             /\ frames'[f].read = frames[f].read + c[p[f] + 1]
             /\ f = m /\ Held(frames[f]) = 0 => c[p[f] + 1] = own
 <2> DEFINE fr == frames[f]
            q == p[f]
            e == IF f = m /\ ~frames[f].sub THEN own ELSE 0
 <2>1. q \in 1 .. k /\ fr.read \in Nat /\ (f = m => fr = F) BY <1>1, FrameTypes
 <2>2. CASE Own(fr)
  <3>1. ChargedBy(c, f) = c[q + 1] /\ Held(fr) > 0 BY <2>2, ChargedOwn DEF Own, Charges, Held
  <3>2. e = 0 BY <1>1, <2>1, <2>2
  <3>3. c[q + 1] \in Nat BY <1>3, <2>1
  <3>4. frames'[f].read = frames[f].read + ChargedBy(c, f) + e BY <1>4
  <3> HIDE DEF e, q
  <3>5. frames'[f].read = frames[f].read + c[q + 1] BY <3>1, <3>2, <3>3, <3>4, <2>1
  <3>6. Held(fr) # 0 BY <3>1
  <3> QED BY <3>5, <3>6, <2>1 DEF q
 <2>3. CASE ~Own(fr)
  <3>1. ChargedBy(c, f) = 0 /\ f = m /\ ~fr.sub /\ own = n
   <4>1. f = m BY <1>1, <2>3
   <4> QED BY <1>1, <2>1, <2>3, <4>1, ChargedOwn
  <3>2. e = n BY <3>1
  <3>3. c[q + 1] = n
   <4>1. /\ Held(fr) \in 0 .. 2
         /\ \A h \in 1 .. Held(fr) : HeldKind(fr, h) \in ReaderKinds \ {"base"}
         /\ HeldKind(fr, 1) # "seip" /\ (HeldKind(fr, 1) = "hash" => Held(fr) <= 1)
         /\ Own(fr) <=> Held(fr) > 0 /\ HeldKind(fr, 1) \in Charging
    <5>1. fr.script \in Scripts /\ fr.i \in 1 .. Len(fr.script) + 1 BY <1>1 DEF Typed
    <5> QED BY <5>1, PlaceFacts
   <4>2. q + Held(fr) = k BY <3>1 DEF Stacked
   <4>3. CASE Held(fr) = 0 BY <1>3, <2>1, <4>2, <4>3
   <4>4. CASE Held(fr) > 0
    <5>1. HeldKind(fr, 1) = "hash" /\ Held(fr) = 1
     <6>1. 1 \in 1 .. Held(fr) BY <4>1, <4>4
     <6> QED BY <2>3, <4>1, <4>4, <6>1 DEF ReaderKinds, Charging
    <5>2. q + 1 = k /\ readers[q + 1].kind = "hash" BY <4>2, <5>1 DEF Stacked
    <5>3. Takes(k, c[k + 1], c[k]) BY <1>1, <1>3
    <5>4. c[k] = c[k + 1] BY <5>2, <5>3 DEF Takes
    <5> QED BY <1>3, <5>2, <5>4
   <4> QED BY <4>1, <4>3, <4>4
  <3>4. frames'[f].read = frames[f].read + ChargedBy(c, f) + e BY <1>4
  <3> HIDE DEF e, q
  <3>5. frames'[f].read = frames[f].read + c[q + 1] BY <3>1, <3>2, <3>3, <3>4, <2>1
  <3> QED BY <3>1, <3>3, <3>5, <2>1 DEF q
 <2> QED BY <2>2, <2>3
<1>7. ASSUME NEW f \in 1 .. m, readers[p[f]].kind # "decrypt"
      PROVE  readers'[p[f]].alength = frames'[f].header + frames'[f].read
 <2> DEFINE q == p[f]
 <2>1. readers[q].alength = frames[f].header + frames[f].read BY <1>7 DEF Counted
 <2>2. q \in 1 .. k /\ frames'[f].read = frames[f].read + c[q + 1] BY <1>6
 <2>3. c[q + 1] \in Nat /\ readers'[q].alength = readers[q].alength + c[q + 1] BY <1>3, <2>2
 <2>4. frames[f].header \in Nat /\ frames[f].read \in Nat /\ frames'[f].header = frames[f].header
  <3>1. frames[f].header \in {1, 2} /\ frames[f].read \in Nat BY <1>1, FrameTypes
  <3>2. frames'[f].header = frames[f].header BY <1>4
  <3> QED BY <3>1, <3>2
 <2> HIDE DEF q
 <2>5. readers'[q].alength = frames'[f].header + frames'[f].read BY <2>1, <2>2, <2>3, <2>4
 <2> QED BY <2>5 DEF q
<1>8. frames # <<>> /\ Held(F) = 0 => frames'[m].read = F.read + own BY <1>1, <1>6
<1> QED BY <1>5, <1>7, <1>8

-----------------------------------------------------------------------------
(* Steps that change no reader's place. *)

\* The same packets, the innermost perhaps further on and in or out of a subregion.
Moves(adv) ==
  /\ frames' \in Seq(FrameSet) /\ Len(frames') = Len(frames)
  /\ \A f \in 1 .. Len(frames) :
       /\ frames'[f].script = frames[f].script /\ frames'[f].header = frames[f].header
       /\ frames'[f].indet = frames[f].indet /\ frames'[f].len = frames[f].len
       /\ frames'[f].i = IF f = Len(frames) THEN frames[f].i + adv ELSE frames[f].i
       /\ f # Len(frames) => frames'[f].sub = frames[f].sub

TypedFlags ==
  errors \in BOOLEAN /\ failed \in BOOLEAN /\ accumulate \in BOOLEAN /\ decrypt \in BOOLEAN
  /\ result \in {0, 1}

ReadersTyped == readers \in Seq(ReaderSet) /\ readers # <<>> /\ readers[1].kind = "base"

\* Readers that keep their kinds stay well formed.
LEMMA SameTyped ==
  ASSUME Typed, SameReaders PROVE ReadersTyped'
<1>1. readers[1].kind = "base" /\ Top \in Nat \ {0} BY TypedFacts DEF Typed
<1>2. readers' \in Seq(ReaderSet) /\ Len(readers') \in Nat \ {0} /\ readers'[1].kind = readers[1].kind
  BY <1>1 DEF SameReaders
<1> QED BY <1>1, <1>2 DEF ReadersTyped

\* A packet that moves on stays well formed.
LEMMA MovesTyped ==
  ASSUME Typed, NEW adv \in {0, 1}, Moves(adv), ReadersTyped', mode' \in Modes, TypedFlags',
         frames = <<>> => mode' # "body" /\ ~Ending',
         frames # <<>> => F.i + adv <= Len(F.script) + 1,
         frames # <<>> /\ mode' \in {"tag", "length", "return"} =>
           adv = 0 /\ F.i <= Len(F.script) /\ F.script[F.i] = "parse"
  PROVE  Typed'
<1> DEFINE m == Len(frames)
<1>1. /\ m \in Nat /\ Top \in Nat \ {0}
      /\ frames # <<>> => m \in 1 .. m /\ F = frames[m]
      /\ m > 0 => frames # <<>>
 <2>1. frames \in Seq(FrameSet) BY DEF Typed
 <2> QED BY <2>1, TypedFacts
<1>2. frames' \in Seq(FrameSet) /\ Len(frames') = m BY DEF Moves
<1>3. ASSUME NEW f \in 1 .. m
      PROVE  /\ frames'[f].i \in 1 .. Len(frames'[f].script) + 1
             /\ Nests(frames'[f].script) => f <= MaxNest
             /\ Waits(f)' => /\ frames'[f].i <= Len(frames'[f].script)
                             /\ frames'[f].script[frames'[f].i] = "parse"
 <2>1. /\ frames[f].script \in Scripts /\ frames[f].i \in 1 .. Len(frames[f].script) + 1
       /\ Nests(frames[f].script) => f <= MaxNest
       /\ Waits(f) => frames[f].i <= Len(frames[f].script) /\ frames[f].script[frames[f].i] = "parse"
   BY TypedFacts DEF Typed
 <2>2. Len(frames[f].script) \in Nat /\ frames[f].i \in Nat \ {0} BY <2>1, PlaceFacts
 <2>3. frames'[f].script = frames[f].script BY DEF Moves
 <2>4. CASE f # m
  <3>1. frames'[f].i = frames[f].i /\ Waits(f) BY <1>1, <2>4 DEF Moves, Waits
  <3> QED BY <2>1, <2>3, <3>1
 <2>5. CASE f = m
  <3>1. frames'[f].i = frames[f].i + adv /\ frames # <<>> /\ frames[f] = F
    BY <1>1, <2>5 DEF Moves
  <3>2. Waits(f)' => mode' \in {"tag", "length", "return"} BY <1>1, <1>2, <2>5 DEF Waits
  <3>3. frames'[f].i \in 1 .. Len(frames'[f].script) + 1 BY <2>2, <2>3, <3>1
  <3>4. mode' \in {"tag", "length", "return"} => frames'[f].i = frames[f].i BY <2>2, <3>1
  <3> QED BY <2>1, <2>3, <3>1, <3>2, <3>3, <3>4
 <2> QED BY <2>4, <2>5
<1>4. mode' = "body" \/ Ending' => frames' # <<>> BY <1>1, <1>2
<1> QED BY <1>2, <1>3, <1>4 DEF Typed, TypedFlags, ReadersTyped

\* A step that leaves every packet its readers keeps the arrangement, if it keeps what is
\* said of the counts and of the innermost packet as long as nothing has failed.
LEMMA MovesArranged ==
  ASSUME Typed, NEW p \in [1 .. Len(frames) -> 1 .. Top], Arranged(p),
         NEW adv \in {0, 1}, Moves(adv), SameReaders,
         frames # <<>> => Held(frames'[Len(frames)]) = Held(F),
         Clean' => Clean /\ Counted(p)' /\ Placed'
  PROVE  p \in [1 .. Len(frames') -> 1 .. Top'] /\ Arranged(p)'
<1> DEFINE m == Len(frames)
<1>1. /\ m \in Nat /\ Top \in Nat \ {0}
      /\ frames # <<>> => m \in 1 .. m /\ F = frames[m]
      /\ m > 0 <=> frames # <<>>
 <2>1. frames \in Seq(FrameSet) BY DEF Typed
 <2> QED BY <2>1, TypedFacts
<1>2. Len(frames') = m /\ Top' = Top BY DEF Moves, SameReaders, Top
<1>3. \A f \in 1 .. m : frames'[f].script = frames[f].script /\ Held(frames'[f]) = Held(frames[f])
 <2>1. ASSUME NEW f \in 1 .. m PROVE Held(frames'[f]) = Held(frames[f])
  <3>1. CASE f = m BY <1>1, <3>1
  <3>2. CASE f # m BY <3>2 DEF Moves, Held
  <3> QED BY <3>1, <3>2
 <2> QED BY <2>1 DEF Moves
<1>4. Laid(p)' BY <1>2, <1>3 DEF Laid, Arranged
<1>5. ASSUME Stacked(p) PROVE Stacked(p)'
 <2>1. IF frames' = <<>> THEN Top' = 1 ELSE p[1] = 1
  <3>1. frames' = <<>> <=> frames = <<>>
   <4>1. frames' \in Seq(FrameSet) BY DEF Moves
   <4> QED BY <1>1, <1>2, <4>1
  <3> QED BY <1>2, <1>5, <3>1 DEF Stacked
 <2>2. \A j \in 1 .. Top : readers'[j].kind = readers[j].kind /\ readers'[j].frame = readers[j].frame
   BY DEF SameReaders
 <2>3. ASSUME NEW f \in 1 .. m
       PROVE  /\ p[f] + Held(frames'[f]) = IF f = m THEN Top ELSE p[f + 1]
              /\ \A h \in 1 .. Held(frames'[f]) :
                   /\ readers'[p[f] + h].frame = f
                   /\ readers'[p[f] + h].kind = HeldKind(frames'[f], h)
  <3>1. p[f] + Held(frames'[f]) = IF f = m THEN Top ELSE p[f + 1] BY <1>3, <1>5 DEF Stacked
  <3>2. ASSUME NEW h \in 1 .. Held(frames'[f])
        PROVE  /\ readers'[p[f] + h].frame = f
               /\ readers'[p[f] + h].kind = HeldKind(frames'[f], h)
   <4>1. /\ readers[p[f] + h].frame = f /\ readers[p[f] + h].kind = HeldKind(frames[f], h)
     BY <1>3, <1>5 DEF Stacked
   <4>2. p[f] + h \in 1 .. Top
    <5>1. p[f] \in 1 .. Top /\ p[f] + Held(frames[f]) <= Top /\ h \in 1 .. Held(frames[f])
      BY <1>3 DEF Laid, Arranged
    <5>2. Held(frames[f]) \in Nat
     <6>1. frames[f].script \in Scripts /\ frames[f].i \in 1 .. Len(frames[f].script) + 1
       BY TypedFacts DEF Typed
     <6> QED BY <6>1, PlaceFacts
    <5> QED BY <1>1, <5>1, <5>2
   <4>3. HeldKind(frames'[f], h) = HeldKind(frames[f], h) BY <1>3 DEF HeldKind
   <4> QED BY <2>2, <4>1, <4>2, <4>3
  <3> QED BY <3>1, <3>2
 <2>4. readers'[1].frame = 0 BY <1>1, <1>5, <2>2 DEF Stacked
 <2>5. ASSUME NEW j \in 2 .. Top
       PROVE  /\ readers'[j].frame \in 1 .. m
              /\ j - p[readers'[j].frame] \in 1 .. Held(frames'[readers'[j].frame])
  <3>1. /\ readers[j].frame \in 1 .. m
        /\ j - p[readers[j].frame] \in 1 .. Held(frames[readers[j].frame])
    BY <1>5 DEF Stacked
  <3>2. readers'[j].frame = readers[j].frame BY <1>1, <2>2
  <3> QED BY <1>3, <3>1, <3>2
 <2> QED BY <1>2, <2>1, <2>3, <2>4, <2>5 DEF Stacked
<1> QED BY <1>2, <1>4, <1>5 DEF Arranged

\* Only the steps that enter and leave it change the region a handler is in.
LEMMA InsideKept ==
  ASSUME NEW fr, fr.script \in Scripts, fr.i \in 1 .. Len(fr.script),
         NEW gr, gr.script = fr.script, gr.i = fr.i + 1,
         fr.script[fr.i] \notin {"enter", "enter_v3", "leave"}
  PROVE  Inside(gr) = Inside(fr)
<1>1. Inside(gr) <=> Inside(fr) BY StepFacts
<1>2. Inside(gr) \in BOOLEAN /\ Inside(fr) \in BOOLEAN BY DEF Inside
<1> QED BY <1>1, <1>2

\* A packet that waits for those inside it reads them through a reader of its own.
LEMMA ParseOwns ==
  ASSUME NEW fr, fr.script \in Scripts, fr.i \in 1 .. Len(fr.script), fr.script[fr.i] = "parse"
  PROVE  /\ Own(fr) /\ Held(fr) \in 1 .. 2 /\ HeldKind(fr, Held(fr)) # "hash"
<1> DEFINE l == Layout(fr.script)
<1>1. Fits(fr.script, l) /\ Len(fr.script) \in Nat BY LayoutFits
<1> HIDE DEF l
<1>2. StepFits("parse", l, fr.i) BY <1>1 DEF Fits
<1>3. Own(fr) /\ HeldKind(fr, Held(fr)) # "hash" BY <1>2 DEF StepFits, Own, HeldKind, Held, l
<1>4. fr.i \in 1 .. Len(fr.script) + 1 BY <1>1
<1> QED BY <1>3, <1>4, PlaceFacts

\* A packet that waits for those inside it has a reader of its own on the stack, which
\* they are read through.
LEMMA WaitingOwn ==
  ASSUME Typed, NEW f \in 1 .. Len(frames), Waits(f)
  PROVE  /\ Own(frames[f]) /\ Held(frames[f]) \in 1 .. 2
         /\ HeldKind(frames[f], Held(frames[f])) # "hash"
<1>1. /\ frames[f].script \in Scripts /\ frames[f].i \in 1 .. Len(frames[f].script) + 1
      /\ frames[f].i <= Len(frames[f].script) /\ frames[f].script[frames[f].i] = "parse"
  BY TypedFacts DEF Typed
<1>2. frames[f].i \in 1 .. Len(frames[f].script) BY <1>1, PlaceFacts
<1> QED BY <1>1, <1>2, ParseOwns

\* The uppermost reader is the innermost packet's last one.
LEMMA TopReader ==
  ASSUME Typed, NEW p \in [1 .. Len(frames) -> 1 .. Top], Stacked(p), frames # <<>>
  PROVE  /\ p[Len(frames)] + Held(F) = Top
         /\ Held(F) > 0 => readers[Top].kind = HeldKind(F, Held(F)) /\ readers[Top].frame = Len(frames)
<1>1. Len(frames) \in 1 .. Len(frames) /\ F = frames[Len(frames)] /\ Top \in Nat BY TypedFacts
<1>2. p[Len(frames)] + Held(F) = Top BY <1>1 DEF Stacked
<1>3. ASSUME Held(F) > 0
      PROVE  readers[Top].kind = HeldKind(F, Held(F)) /\ readers[Top].frame = Len(frames)
 <2>1. Held(F) \in Nat
  <3>1. F.script \in Scripts /\ F.i \in 1 .. Len(F.script) + 1 BY <1>1, TypedFacts DEF Typed
  <3> QED BY <3>1, PlaceFacts
 <2>2. Held(F) \in 1 .. Held(F) BY <1>3, <2>1
 <2> QED BY <1>1, <1>2, <2>2 DEF Stacked
<1> QED BY <1>2, <1>3

\* Where the next step of a handler is: after a step that moves no reader, a packet
\* whose packets come next is read through a decrypting reader.
LEMMA StepKeeps ==
  ASSUME Typed, NEW p \in [1 .. Len(frames) -> 1 .. Top], Arranged(p),
         mode \in {"body", "return"}, frames # <<>>, F.i <= Len(F.script), NEW adv \in {0, 1}, Moves(adv), SameReaders,
         mode' = "body", TypedFlags', failed' = failed,
         Step \notin Pushes, Step # "pop", adv = 0 => Step # "parse",
         Clean => frames'[Len(frames)].sub = Inside(frames'[Len(frames)]) /\ Counted(p)'
  PROVE  ParseInv'
<1> DEFINE m == Len(frames)
           gr == frames'[m]
<1>1. /\ m \in 1 .. m /\ F = frames[m] /\ Top \in Nat \ {0} /\ m \in Nat /\ frames # <<>>
      /\ F.script \in Scripts
  BY TypedFacts DEF Typed
<1>2. F.i \in 1 .. Len(F.script) /\ Len(F.script) \in Nat
 <2>1. F.i \in 1 .. Len(F.script) + 1 BY <1>1 DEF Typed
 <2> QED BY <1>1, <2>1, PlaceFacts
<1>3. gr.script = F.script /\ gr.i = F.i + adv /\ Len(frames') = m BY <1>1 DEF Moves
<1>4. adv = 1 => /\ Held(gr) = Held(F) /\ (\A h : HeldKind(gr, h) = HeldKind(F, h))
                 /\ gr.i \in 1 .. Len(gr.script) /\ gr.script[gr.i] = "parse" =>
                      HeldKind(gr, Held(gr)) = "decrypt"
 <2>1. SUFFICES ASSUME adv = 1
                PROVE  /\ Held(gr) = Held(F) /\ (\A h : HeldKind(gr, h) = HeldKind(F, h))
                       /\ gr.i \in 1 .. Len(gr.script) /\ gr.script[gr.i] = "parse" =>
                            HeldKind(gr, Held(gr)) = "decrypt"
   OBVIOUS
 <2>2. gr.i = F.i + 1 /\ gr.script = F.script /\ Step = F.script[F.i] BY <1>3, <2>1 DEF Step
 <2> HIDE DEF gr
 <2> QED BY <1>1, <1>2, <2>2, StepFacts
<1>5. Held(gr) = Held(F)
 <2>1. CASE adv = 0 BY <1>2, <1>3, <2>1 DEF Held
 <2> QED BY <1>4, <2>1
<1>6. Typed' BY <1>1, <1>2, SameTyped, MovesTyped DEF Modes, Ending
<1>7. ASSUME Clean' PROVE Clean /\ Counted(p)' /\ Placed'
 <2>1. Clean BY <1>7 DEF Clean, Ending
 <2>2. Stacked(p) /\ Placed BY <2>1 DEF Arranged
 <2>3. ASSUME NEW f \in 1 .. m PROVE frames'[f].sub = (frames'[f].i \in Layout(frames'[f].script).sub)
  <3>1. CASE f = m BY <2>1, <3>1 DEF Inside
  <3>2. CASE f # m
   <4>1. frames[f].sub = (frames[f].i \in Layout(frames[f].script).sub)
     BY <2>2, <3>2 DEF Placed, Ending
   <4> QED BY <3>2, <4>1 DEF Moves
  <3> QED BY <3>1, <3>2
 <2>4. ASSUME At("parse")' PROVE readers'[Top'].kind = "decrypt"
  <3>1. gr.i <= Len(gr.script) /\ gr.script[gr.i] = "parse"
   <4>1. F' = gr
    <5>1. frames' \in Seq(FrameSet) /\ Len(frames') = m BY DEF Moves
    <5> QED BY <1>1, <5>1 DEF F, Last
   <4> QED BY <2>4, <4>1 DEF At, Step
  <3>2. adv = 1
   <4>1. CASE adv = 0
    <5>1. gr.i = F.i BY <1>2, <1>3, <4>1
    <5> QED BY <1>3, <3>1, <4>1, <5>1 DEF Step
   <4> QED BY <4>1
  <3>3. gr.i \in 1 .. Len(gr.script) BY <1>2, <1>3, <3>1, <3>2
  <3>4. HeldKind(F, Held(F)) = "decrypt" /\ Held(F) > 0
   <4>1. HeldKind(F, Held(F)) = "decrypt" BY <1>4, <3>1, <3>2, <3>3
   <4>2. Held(gr) \in 1 .. 2 BY <1>1, <1>3, <3>1, <3>3, ParseOwns
   <4> QED BY <1>5, <4>1, <4>2
  <3>5. readers[Top].kind = "decrypt" BY <1>1, <2>2, <3>4, TopReader
  <3> QED BY <1>1, <3>5 DEF SameReaders, Top
 <2>5. Placed' BY <1>3, <2>3, <2>4 DEF Placed, Ending
 <2> QED BY <1>7, <2>1, <2>5
<1>8. p \in [1 .. Len(frames') -> 1 .. Top'] /\ Arranged(p)' BY <1>5, <1>7, MovesArranged
<1> QED BY <1>6, <1>8 DEF ParseInv

\* A step that reads for the packet or for its preamble.
LEMMA DeliverStep ==
  ASSUME ParseInv, mode = "body", F.i <= Len(F.script),
         NEW n \in Nat, NEW own \in Nat, NEW adv \in {0, 1}, Deliver(n, own, adv), Goes,
         Step \in OwnReads => own = n, Step \notin OwnReads => Step = "repeat" /\ own = 0
  PROVE  ParseInv'
<1>1. PICK p \in [1 .. Len(frames) -> 1 .. Top] : Arranged(p) BY DEF ParseInv
<1>2. Typed BY DEF ParseInv
<1> DEFINE m == Len(frames)
<1>3. /\ m \in 1 .. m /\ F = frames[m] /\ Top \in Nat \ {0} /\ m \in Nat /\ frames # <<>>
      /\ F.script \in Scripts /\ F.i \in 1 .. Len(F.script) + 1
  BY <1>2, TypedFacts DEF Typed
<1>4. F.i \in 1 .. Len(F.script) /\ Len(F.script) \in Nat BY <1>3, PlaceFacts
<1>5. SameReaders /\ SameFrames(adv) BY <1>2, DeliverKeeps
<1>6. Moves(adv) BY <1>5 DEF SameFrames, Moves
<1>7. /\ Step \notin Pushes /\ Step # "pop" /\ Step # "parse"
      /\ Step \notin {"enter", "enter_v3", "leave"}
  BY DEF OwnReads, Pushes
<1>8. mode' = "body" /\ TypedFlags' /\ failed' = failed BY <1>2 DEF Goes, rest, TypedFlags, Typed
<1>9. ASSUME Clean PROVE frames'[m].sub = Inside(frames'[m]) /\ Counted(p)'
 <2>1. Stacked(p) /\ Counted(p) /\ Placed BY <1>1, <1>9 DEF Arranged
 <2>2. F.sub = Inside(F) BY <1>3, <2>1 DEF Placed, Ending, Inside
 <2>3. Step = F.script[F.i] BY DEF Step
 <2>4. /\ Step = "repeat" => Own(F)
       /\ Step \in OwnReads => (Inside(F) <=> Own(F))
  <3> DEFINE g == [F EXCEPT !.i = @ + 1]
  <3>1. F \in FrameSet BY <1>2, <1>3, TypedFacts
  <3>2. g.script = F.script /\ g.i = F.i + 1 BY <3>1 DEF FrameSet
  <3> HIDE DEF g
  <3> QED BY <1>3, <1>4, <2>3, <3>2, StepFacts
 <2>5. IF Own(F) THEN F.sub \/ own = 0 ELSE ~F.sub /\ own = n BY <2>2, <2>4
 <2>6. \A f \in 1 .. m : f < m => Own(frames[f]) BY <1>2, WaitingOwn DEF Waits
 <2>7. \A f \in 1 .. m : readers[p[f]].kind # "decrypt" =>
         readers'[p[f]].alength = frames'[f].header + frames'[f].read
   BY <1>2, <2>1, <2>5, <2>6, DeliverCounts
 <2>8. Counted(p)' BY <1>5, <2>7 DEF Counted, SameReaders, SameFrames
 <2>9. frames'[m].sub = F.sub BY <1>3, <1>5 DEF SameFrames
 <2>10. Inside(frames'[m]) = Inside(F)
  <3>1. frames'[m].script = F.script /\ frames'[m].i = F.i + adv BY <1>3, <1>5 DEF SameFrames
  <3>2. CASE adv = 0 BY <1>4, <3>1, <3>2 DEF Inside
  <3>3. CASE adv = 1
   <4> DEFINE g == frames'[m]
   <4>1. g.script = F.script /\ g.i = F.i + 1 BY <3>1, <3>3
   <4> HIDE DEF g
   <4>2. Inside(g) = Inside(F) BY <1>3, <1>4, <1>7, <2>3, <4>1, InsideKept
   <4> QED BY <4>2 DEF g
  <3> QED BY <3>2, <3>3
 <2> QED BY <2>2, <2>8, <2>9, <2>10
<1> QED
 <2>1. adv = 0 => Step # "parse" BY <1>7
 <2> QED BY <1>1, <1>2, <1>3, <1>4, <1>5, <1>6, <1>7, <1>8, <1>9, <2>1, StepKeeps

\* A step that reads nothing: the innermost packet becomes g.
LEMMA QuietStep ==
  ASSUME ParseInv, mode \in {"body", "return"}, frames # <<>>, F.i <= Len(F.script), NEW g \in FrameSet,
         g.script = F.script, g.header = F.header, g.indet = F.indet, g.len = F.len,
         g.read = F.read, g.i = F.i + 1,
         Step \in {"enter", "enter_v3"} => g.sub = TRUE, Step = "leave" => g.sub = FALSE,
         Step \notin {"enter", "enter_v3", "leave"} => g.sub = F.sub,
         Step \notin Pushes, Step # "pop",
         frames' = [frames EXCEPT ![Len(frames)] = g], readers' = readers,
         mode' = "body", TypedFlags', failed' = failed
  PROVE  ParseInv'
<1>1. PICK p \in [1 .. Len(frames) -> 1 .. Top] : Arranged(p) BY DEF ParseInv
<1>2. Typed BY DEF ParseInv
<1> DEFINE m == Len(frames)
<1>3. /\ m \in 1 .. m /\ F = frames[m] /\ Top \in Nat \ {0} /\ m \in Nat /\ frames # <<>>
      /\ F.script \in Scripts /\ F.i \in 1 .. Len(F.script) + 1
  BY <1>2, TypedFacts DEF Typed
<1>4. F.i \in 1 .. Len(F.script) /\ Len(F.script) \in Nat BY <1>3, PlaceFacts
<1>5. /\ frames' \in Seq(FrameSet) /\ Len(frames') = m /\ frames'[m] = g
      /\ \A f \in 1 .. m : f # m => frames'[f] = frames[f]
 <2>1. frames \in Seq(FrameSet) BY <1>2 DEF Typed
 <2> QED BY <1>3, <2>1
<1>6. SameReaders
 <2>1. readers \in Seq(ReaderSet) BY <1>2 DEF Typed
 <2> QED BY <2>1 DEF SameReaders, Top
<1>7. Moves(1)
 <2>1. ASSUME NEW f \in 1 .. m
       PROVE  /\ frames'[f].script = frames[f].script /\ frames'[f].header = frames[f].header
              /\ frames'[f].indet = frames[f].indet /\ frames'[f].len = frames[f].len
              /\ frames'[f].i = IF f = m THEN frames[f].i + 1 ELSE frames[f].i
              /\ f # m => frames'[f].sub = frames[f].sub
  <3>1. CASE f = m BY <1>3, <1>5, <3>1
  <3>2. CASE f # m
   <4>1. frames'[f] = frames[f] BY <1>5, <3>2
   <4> HIDE DEF m
   <4> QED BY <3>2, <4>1
  <3> QED BY <3>1, <3>2
 <2> QED BY <1>5, <2>1 DEF Moves
<1>8. ASSUME Clean PROVE frames'[m].sub = Inside(frames'[m]) /\ Counted(p)'
 <2>1. Counted(p) /\ Placed BY <1>1, <1>8 DEF Arranged
 <2>2. Counted(p)'
  <3>1. ASSUME NEW f \in 1 .. m, readers[p[f]].kind # "decrypt"
        PROVE  readers[p[f]].alength = frames'[f].header + frames'[f].read
   <4>1. readers[p[f]].alength = frames[f].header + frames[f].read BY <2>1, <3>1 DEF Counted
   <4>2. CASE f = m BY <1>3, <1>5, <4>1, <4>2
   <4>3. CASE f # m BY <1>5, <4>1, <4>3
   <4> QED BY <4>2, <4>3
  <3> QED BY <1>5, <3>1 DEF Counted
 <2>3. F.sub = Inside(F) BY <1>3, <2>1 DEF Placed, Ending, Inside
 <2>4. /\ Step \in {"enter", "enter_v3"} => Inside(g)
       /\ Step = "leave" => ~Inside(g)
       /\ Step \notin {"enter", "enter_v3", "leave"} => (Inside(g) <=> Inside(F))
  <3>1. Step = F.script[F.i] BY DEF Step
  <3> QED BY <1>3, <1>4, <3>1, StepFacts
 <2>5. Inside(g) \in BOOLEAN /\ Inside(F) \in BOOLEAN /\ g.sub \in BOOLEAN
   BY FrameTypes DEF Inside
 <2>6. g.sub = Inside(g) BY <2>3, <2>4, <2>5
 <2> QED BY <1>5, <2>2, <2>6
<1> QED BY <1>1, <1>2, <1>6, <1>7, <1>8, StepKeeps

\* A step that only goes on.
LEMMA PassStep ==
  ASSUME ParseInv, mode = "body", F.i <= Len(F.script), StepOn, readers' = readers,
         Step \notin {"enter", "enter_v3", "leave"}, Step \notin Pushes, Step # "pop",
         mode' = "body", TypedFlags', failed' = failed
  PROVE  ParseInv'
<1> DEFINE j == F.i + 1
           g == [F EXCEPT !.i = j]
<1>1. Typed BY DEF ParseInv
<1>2. /\ F \in FrameSet /\ F = frames[Len(frames)] /\ Len(frames) \in 1 .. Len(frames)
      /\ frames # <<>>
  BY <1>1, TypedFacts DEF Typed
<1>3. frames' = [frames EXCEPT ![Len(frames)] = g] BY <1>2 DEF StepOn
<1>4. /\ g \in FrameSet /\ g.script = F.script /\ g.header = F.header /\ g.indet = F.indet
      /\ g.len = F.len /\ g.read = F.read /\ g.i = F.i + 1 /\ g.sub = F.sub
 <2>1. j \in Nat BY <1>2, FrameTypes
 <2> HIDE DEF j
 <2>2. /\ g \in FrameSet /\ g.script = F.script /\ g.header = F.header /\ g.indet = F.indet
       /\ g.len = F.len /\ g.read = F.read /\ g.i = j /\ g.sub = F.sub
   BY <1>2, <2>1 DEF FrameSet
 <2> QED BY <2>2 DEF j
<1> HIDE DEF g, j
<1> QED BY <1>2, <1>3, <1>4, QuietStep

\* Nothing but the place in the handler has changed.
LEMMA PassesStep ==
  ASSUME ParseInv, mode = "body", F.i <= Len(F.script), Passes,
         Step \notin {"enter", "enter_v3", "leave"}, Step \notin Pushes, Step # "pop"
  PROVE  ParseInv'
<1>1. mode' = "body" /\ TypedFlags' /\ failed' = failed
  BY DEF ParseInv, Passes, Goes, rest, TypedFlags, Typed
<1>2. StepOn /\ readers' = readers BY DEF Passes
<1> QED BY <1>1, <1>2, PassStep

\* A limited read for the packet itself.
LEMMA LimitedStep ==
  ASSUME ParseInv, mode = "body", F.i <= Len(F.script), Step \in OwnReads,
         NEW n \in Nat, NEW adv \in {0, 1}, LimitedRead(n, adv), Goes
  PROVE  ParseInv'
<1>1. mode' = "body" /\ TypedFlags' /\ failed' = failed
  BY DEF ParseInv, Goes, rest, TypedFlags, Typed
<1>2. Step \notin {"enter", "enter_v3", "leave"} /\ Step \notin Pushes /\ Step # "pop"
  BY DEF OwnReads, Pushes
<1>3. CASE Deliver(n, n, adv) BY <1>3, DeliverStep
<1>4. CASE StepOn /\ readers' = readers BY <1>1, <1>2, <1>4, PassStep
<1> QED BY <1>3, <1>4 DEF LimitedRead

\* A step that changes neither packets nor readers.
LEMMA StayStep ==
  ASSUME ParseInv, frames' = frames, readers' = readers, mode' \in Modes, TypedFlags',
         frames = <<>> => mode' # "body" /\ ~Ending',
         frames # <<>> /\ mode' \in {"tag", "length", "return"} =>
           F.i <= Len(F.script) /\ F.script[F.i] = "parse",
         \A p \in [1 .. Len(frames) -> 1 .. Top] :
           Arranged(p) /\ Clean' => Clean /\ Placed'
  PROVE  ParseInv'
<1>1. Typed BY DEF ParseInv
<1>2. /\ frames \in Seq(FrameSet) /\ readers \in Seq(ReaderSet)
      /\ frames # <<>> => /\ F = frames[Len(frames)] /\ F.i \in 1 .. Len(F.script) + 1
                          /\ Len(F.script) \in Nat
 <2>1. frames \in Seq(FrameSet) /\ readers \in Seq(ReaderSet) BY <1>1 DEF Typed
 <2>2. ASSUME frames # <<>>
       PROVE  /\ F = frames[Len(frames)] /\ F.i \in 1 .. Len(F.script) + 1
              /\ Len(F.script) \in Nat
  <3>1. F = frames[Len(frames)] /\ F.i \in 1 .. Len(F.script) + 1 /\ F.script \in Scripts
    BY <1>1, <2>2, TypedFacts DEF Typed
  <3> QED BY <3>1, PlaceFacts
 <2> QED BY <2>1, <2>2
<1>3. SameReaders BY <1>2 DEF SameReaders, Top
<1>4. Moves(0)
 <2>1. \A f \in 1 .. Len(frames) :
         frames[f].i = IF f = Len(frames) THEN frames[f].i + 0 ELSE frames[f].i
  <3>1. \A f \in 1 .. Len(frames) : frames[f].i \in Nat BY <1>1, TypedFacts, FrameTypes
  <3> QED BY <3>1
 <2> QED BY <1>2, <2>1 DEF Moves
<1>5. frames # <<>> => F.i + 0 <= Len(F.script) + 1 BY <1>2
<1>6. Typed' BY <1>1, <1>3, <1>4, <1>5, SameTyped, MovesTyped
<1>7. PICK p \in [1 .. Len(frames) -> 1 .. Top] : Arranged(p) BY DEF ParseInv
<1>8. ASSUME Clean' PROVE Clean /\ Counted(p)' /\ Placed'
 <2>1. Clean /\ Placed' BY <1>7, <1>8
 <2>2. Counted(p)' BY <1>7, <2>1 DEF Arranged, Counted
 <2> QED BY <2>1, <2>2
<1>9. frames # <<>> => Held(frames'[Len(frames)]) = Held(F) BY <1>2
<1>10. p \in [1 .. Len(frames') -> 1 .. Top'] /\ Arranged(p)'
  BY <1>1, <1>3, <1>4, <1>7, <1>8, <1>9, MovesArranged
<1> QED BY <1>6, <1>10 DEF ParseInv

\* The handler returns: it has come to its end or has not succeeded.
LEMMA ReturnStep ==
  ASSUME ParseInv, mode = "body", NEW r \in {-1, 0, 1}, Returns(r),
         r = 1 => F.i > Len(F.script), readers' = readers, TypedFlags', failed' = failed
  PROVE  ParseInv'
<1>1. PICK p \in [1 .. Len(frames) -> 1 .. Top] : Arranged(p) BY DEF ParseInv
<1>2. Typed BY DEF ParseInv
<1> DEFINE m == Len(frames)
           g == [F EXCEPT !.ret = r, !.sub = FALSE]
<1>3. /\ m \in 1 .. m /\ F = frames[m] /\ Top \in Nat \ {0} /\ m \in Nat /\ frames # <<>>
      /\ F.script \in Scripts /\ F.i \in 1 .. Len(F.script) + 1 /\ F \in FrameSet
  BY <1>2, TypedFacts DEF Typed
<1>4. Len(F.script) \in Nat /\ F.i \in Nat BY <1>3, PlaceFacts
<1>5. mode' = "end" /\ frames' = [frames EXCEPT ![m] = g] BY <1>3 DEF Returns
<1>6. /\ g \in FrameSet /\ g.script = F.script /\ g.header = F.header /\ g.indet = F.indet
      /\ g.len = F.len /\ g.read = F.read /\ g.i = F.i /\ g.sub = FALSE /\ g.ret = r
  BY <1>3 DEF FrameSet
<1> HIDE DEF g
<1>7. /\ frames' \in Seq(FrameSet) /\ Len(frames') = m /\ frames'[m] = g /\ F' = g
      /\ \A f \in 1 .. m : f # m => frames'[f] = frames[f]
 <2>1. frames \in Seq(FrameSet) BY <1>2 DEF Typed
 <2>2. /\ frames' \in Seq(FrameSet) /\ Len(frames') = m /\ frames'[m] = g
       /\ \A f \in 1 .. m : f # m => frames'[f] = frames[f]
   BY <1>3, <1>5, <1>6, <2>1
 <2> QED BY <2>2 DEF F, Last
<1>8. SameReaders
 <2>1. readers \in Seq(ReaderSet) BY <1>2 DEF Typed
 <2> QED BY <2>1 DEF SameReaders, Top
<1>9. Moves(0)
 <2>1. ASSUME NEW f \in 1 .. m
       PROVE  /\ frames'[f].script = frames[f].script /\ frames'[f].header = frames[f].header
              /\ frames'[f].indet = frames[f].indet /\ frames'[f].len = frames[f].len
              /\ frames'[f].i = IF f = m THEN frames[f].i + 0 ELSE frames[f].i
              /\ f # m => frames'[f].sub = frames[f].sub
  <3>1. CASE f = m BY <1>3, <1>4, <1>6, <1>7, <3>1
  <3>2. CASE f # m
   <4>1. frames'[f] = frames[f] BY <1>7, <3>2
   <4> HIDE DEF m
   <4> QED BY <3>2, <4>1
  <3> QED BY <3>1, <3>2
 <2> QED BY <1>7, <2>1 DEF Moves
<1>10. Typed'
 <2>1. F.i + 0 <= Len(F.script) + 1 BY <1>3, <1>4
 <2> QED BY <1>2, <1>3, <1>5, <1>8, <1>9, <2>1, SameTyped, MovesTyped DEF Modes
<1>11. Held(frames'[m]) = Held(F) BY <1>6, <1>7 DEF Held
<1>12. ASSUME Clean' PROVE Clean /\ Counted(p)' /\ Placed'
 <2>1. r = 1 /\ ~failed BY <1>5, <1>6, <1>7, <1>12 DEF Clean, Ending
 <2>2. Clean BY <2>1 DEF Clean, Ending
 <2>3. Counted(p) /\ Placed BY <1>1, <2>2 DEF Arranged
 <2>4. Counted(p)'
  <3>1. ASSUME NEW f \in 1 .. m, readers[p[f]].kind # "decrypt"
        PROVE  readers[p[f]].alength = frames'[f].header + frames'[f].read
   <4>1. readers[p[f]].alength = frames[f].header + frames[f].read BY <2>3, <3>1 DEF Counted
   <4>2. CASE f = m BY <1>3, <1>6, <1>7, <4>1, <4>2
   <4>3. CASE f # m BY <1>7, <4>1, <4>3
   <4> QED BY <4>2, <4>3
  <3> QED BY <1>7, <3>1 DEF Counted
 <2>5. Held(g) = 0
  <3>1. g.i = Len(g.script) + 1 BY <1>3, <1>4, <1>6, <2>1
  <3>2. g.script \in Scripts /\ g.i \in 1 .. Len(g.script) + 1 BY <1>3, <1>6
  <3> QED BY <3>1, <3>2, PlaceFacts
 <2>6. \A f \in 1 .. m : f # m => frames'[f].sub = (frames'[f].i \in Layout(frames'[f].script).sub)
   BY <1>7, <2>3 DEF Placed
 <2>7. Placed'
  <3>1. frames'[m].sub = FALSE /\ Held(frames'[m]) = 0 /\ Len(frames') = m BY <1>6, <1>7, <2>5
  <3>2. Ending' /\ mode' \notin {"again", "finish", "tag", "length"} /\ ~At("parse")'
    BY <1>5 DEF Ending, At
  <3> QED BY <2>6, <3>1, <3>2 DEF Placed
 <2> QED BY <2>2, <2>4, <2>7
<1>13. p \in [1 .. Len(frames') -> 1 .. Top'] /\ Arranged(p)'
  BY <1>1, <1>2, <1>8, <1>9, <1>11, <1>12, MovesArranged
<1> QED BY <1>10, <1>13 DEF ParseInv

\* A handler fails.
LEMMA FailStep ==
  ASSUME ParseInv, mode = "body", Fails \/ FailsQuietly PROVE ParseInv'
<1>1. Returns(0) /\ readers' = readers /\ failed' = failed BY DEF Fails, FailsQuietly, Stops
<1>2. TypedFlags' BY DEF ParseInv, Typed, TypedFlags, Fails, FailsQuietly, Stops, Pushed, rest
<1>3. 0 \in {-1, 0, 1} OBVIOUS
<1> QED BY <1>1, <1>2, <1>3, ReturnStep

\* An assertion of a handler fails.
LEMMA AbortStep ==
  ASSUME ParseInv, mode = "body", Aborts PROVE ParseInv'
<1>1. /\ frames' = frames /\ readers' = readers /\ failed' = failed /\ mode' = "abort"
      /\ TypedFlags'
  BY DEF Aborts, Stops, ParseInv, Typed, TypedFlags, rest
<1>2. mode' \in Modes /\ mode' # "body" /\ mode' \notin {"tag", "length", "return"} /\ ~Ending'
  BY <1>1 DEF Modes, Ending
<1>3. ASSUME NEW p, Arranged(p), Clean' PROVE Clean /\ Placed'
 <2>1. Clean BY <1>1, <1>3 DEF Clean, Ending
 <2>2. Placed BY <1>3, <2>1 DEF Arranged
 <2>3. mode' \notin {"again", "finish"} /\ ~At("parse")' BY <1>1 DEF At
 <2>4. ~Ending BY DEF Ending
 <2>5. \A f \in 1 .. Len(frames) : frames[f].sub = (frames[f].i \in Layout(frames[f].script).sub)
   BY <2>2, <2>4 DEF Placed
 <2> QED BY <1>1, <1>2, <2>1, <2>3, <2>5 DEF Placed
<1> QED BY <1>1, <1>2, <1>3, StayStep

\* The packets inside this one come next.
LEMMA ParseStep ==
  ASSUME ParseInv, ops_parse PROVE ParseInv'
<1>1. /\ frames' = frames /\ readers' = readers /\ failed' = failed /\ mode' = "tag"
      /\ TypedFlags' /\ At("parse") /\ mode = "body"
  BY DEF ops_parse, At, ParseInv, Typed, TypedFlags, rest
<1>2. mode' \in Modes /\ mode' # "body" /\ ~Ending' /\ ~Ending BY <1>1 DEF Modes, Ending
<1>3. ASSUME NEW p, Arranged(p), Clean' PROVE Clean /\ Placed'
 <2>1. Clean BY <1>1, <1>2, <1>3 DEF Clean
 <2>2. Placed BY <1>3, <2>1 DEF Arranged
 <2>3. mode' \notin {"again", "finish", "length"} /\ ~At("parse")' BY <1>1 DEF At
 <2>4. \A f \in 1 .. Len(frames) : frames[f].sub = (frames[f].i \in Layout(frames[f].script).sub)
   BY <1>2, <2>2 DEF Placed
 <2>5. readers[Top].kind # "decrypt" => readers[Top].alength = 0 BY <1>1, <2>2 DEF Placed
 <2>6. readers'[Top'] = readers[Top] BY <1>1 DEF Top
 <2> QED BY <1>1, <1>2, <2>1, <2>3, <2>4, <2>5, <2>6 DEF Placed
<1>4. F.i <= Len(F.script) /\ F.script[F.i] = "parse" BY <1>1 DEF At, Step
<1>5. frames # <<>> BY <1>1 DEF ParseInv, Typed
<1> QED BY <1>1, <1>2, <1>3, <1>4, <1>5, StayStep

\* The steps that read for the packet.
LEMMA ReadingSteps ==
  ASSUME ParseInv, limited_read \/ read_data \/ whole \/ body \/ subpackets \/ repeated
  PROVE  ParseInv'
<1>1. F.len \in Nat /\ Room \in Int
 <2>1. mode = "body" BY DEF limited_read, read_data, whole, body, subpackets, repeated, At
 <2>2. F \in FrameSet BY <2>1, TypedFacts DEF ParseInv, Typed
 <2>3. F.len \in 0 .. MaxLen /\ F.read \in Nat /\ F.sublen \in Int /\ F.subread \in Nat
   BY <2>2, FrameTypes
 <2> QED BY <2>3 DEF Room
<1>2. CASE limited_read
 <2>1. mode = "body" /\ F.i <= Len(F.script) /\ Step \in OwnReads
   BY <1>2 DEF limited_read, At, OwnReads
 <2>2. CASE LimitedRead(1, 1) /\ Goes BY <2>1, <2>2, LimitedStep
 <2>3. CASE Fails BY <2>1, <2>3, FailStep
 <2> QED BY <1>2, <2>2, <2>3 DEF limited_read
<1>3. CASE read_data
 <2>1. mode = "body" /\ F.i <= Len(F.script) /\ Step \in OwnReads
   BY <1>3 DEF read_data, At, OwnReads
 <2>2. CASE Room >= 0 /\ LimitedRead(Room, 1) /\ Goes
  <3>1. Room \in Nat BY <1>1, <2>2
  <3> QED BY <2>1, <2>2, <3>1, LimitedStep
 <2>3. CASE Fails \/ FailsQuietly BY <2>1, <2>3, FailStep
 <2> QED BY <1>3, <2>2, <2>3 DEF read_data
<1>4. CASE whole
 <2>1. mode = "body" /\ F.i <= Len(F.script) /\ Step \in OwnReads BY <1>4 DEF whole, At, OwnReads
 <2>2. CASE LimitedRead(F.len, 1) /\ Goes BY <1>1, <2>1, <2>2, LimitedStep
 <2>3. CASE Fails BY <2>1, <2>3, FailStep
 <2> QED BY <1>4, <2>2, <2>3 DEF whole
<1>5. CASE body
 <2>1. mode = "body" /\ F.i <= Len(F.script) /\ Step \in OwnReads /\ Step = "body"
   BY <1>5 DEF body, At, OwnReads
 <2>2. CASE (\E n \in Piece : LimitedRead(n, 0)) /\ Goes
  <3>1. PICK n \in Piece : LimitedRead(n, 0) BY <2>2
  <3>2. n \in Nat BY <1>1 DEF Piece
  <3> QED BY <2>1, <2>2, <3>1, <3>2, LimitedStep
 <2>3. CASE Fails BY <2>1, <2>3, FailStep
 <2>4. CASE Passes
  <3>1. Step \notin {"enter", "enter_v3", "leave"} /\ Step \notin Pushes /\ Step # "pop"
    BY <2>1 DEF Pushes
  <3> QED BY <2>1, <2>4, <3>1, PassesStep
 <2> QED BY <1>5, <2>2, <2>3, <2>4 DEF body
<1>6. CASE subpackets
 <2>1. mode = "body" /\ F.i <= Len(F.script) /\ Step \in OwnReads
   BY <1>6 DEF subpackets, At, OwnReads
 <2>2. CASE (\E n \in 1 .. MaxLen : Deliver(n, n, 1)) /\ Goes
  <3>1. PICK n \in 1 .. MaxLen : Deliver(n, n, 1) BY <2>2
  <3>2. n \in Nat OBVIOUS
  <3> QED BY <2>1, <2>2, <3>1, <3>2, DeliverStep
 <2>3. CASE Fails \/ FailsQuietly BY <2>1, <2>3, FailStep
 <2> QED BY <1>6, <2>2, <2>3 DEF subpackets
<1>7. CASE repeated
 <2>1. mode = "body" /\ F.i <= Len(F.script) /\ Step \notin OwnReads /\ Step = "repeat"
   BY <1>7 DEF repeated, At, OwnReads
 <2>2. CASE Deliver(1, 0, 1) /\ Goes BY <2>1, <2>2, DeliverStep
 <2>3. CASE Fails BY <2>1, <2>3, FailStep
 <2> QED BY <1>7, <2>2, <2>3 DEF repeated
<1> QED BY <1>2, <1>3, <1>4, <1>5, <1>6, <1>7

\* The steps that check what has been read.
LEMMA CheckingSteps ==
  ASSUME ParseInv,
         check \/ errp \/ fail \/ exact \/ accumulated \/ checkhash \/ assertion \/ return_ret
         \/ no_passphrase
  PROVE  ParseInv'
<1> DEFINE Quiet == /\ mode = "body" /\ F.i <= Len(F.script)
                    /\ Step \notin {"enter", "enter_v3", "leave"}
                    /\ Step \notin Pushes /\ Step # "pop"
<1>1. ASSUME Quiet, Passes \/ Fails \/ FailsQuietly \/ Aborts PROVE ParseInv'
  BY <1>1, PassesStep, FailStep, AbortStep
<1>2. CASE check BY <1>1, <1>2 DEF check, At, Pushes
<1>3. CASE errp BY <1>1, <1>3 DEF errp, At, Pushes
<1>4. CASE fail BY <1>1, <1>4 DEF fail, At, Pushes
<1>5. CASE exact BY <1>1, <1>5 DEF exact, At, Pushes
<1>6. CASE accumulated BY <1>1, <1>6 DEF accumulated, At, Pushes
<1>7. CASE checkhash
 <2>1. Quiet BY <1>7 DEF checkhash, At, Pushes
 <2>2. CASE Step = "read_if_ret" /\ LimitedRead(1, 1) /\ Goes
  <3>1. Step \in OwnReads BY <2>2 DEF OwnReads
  <3> QED BY <2>1, <2>2, <3>1, LimitedStep
 <2>3. CASE Passes \/ Fails \/ FailsQuietly BY <1>1, <2>1, <2>3
 <2> QED BY <1>7, <2>2, <2>3 DEF checkhash, At
<1>8. CASE assertion BY <1>1, <1>8 DEF assertion, At, Pushes
<1>9. CASE return_ret BY <1>1, <1>9 DEF return_ret, At, Pushes
<1>10. CASE no_passphrase
 <2>1. Quiet /\ Step \in OwnReads BY <1>10 DEF no_passphrase, At, Pushes, OwnReads
 <2>2. CASE Room >= 0 /\ LimitedRead(Room, 1) /\ Goes
  <3>1. F \in FrameSet BY <2>1, TypedFacts DEF ParseInv, Typed
  <3>2. F.len \in 0 .. MaxLen /\ F.read \in Nat /\ F.sublen \in Int /\ F.subread \in Nat
    BY <3>1, FrameTypes
  <3>3. Room \in Nat BY <2>2, <3>2 DEF Room
  <3> QED BY <2>1, <2>2, <3>3, LimitedStep
 <2>3. CASE Fails \/ FailsQuietly BY <1>1, <2>1, <2>3
 <2> QED BY <1>10, <2>2, <2>3 DEF no_passphrase
<1> QED BY <1>2, <1>3, <1>4, <1>5, <1>6, <1>7, <1>8, <1>9, <1>10

\* The session key is kept; numbers are read or not; the region is changed.
LEMMA KeySteps ==
  ASSUME ParseInv, session_key \/ numbers \/ enter \/ leave PROVE ParseInv'
<1>1. Typed /\ mode = "body" /\ F.i <= Len(F.script)
  BY DEF ParseInv, session_key, numbers, enter, leave, At
<1>2. /\ F \in FrameSet /\ F = frames[Len(frames)] /\ Len(frames) \in 1 .. Len(frames)
      /\ frames # <<>>
  BY <1>1, TypedFacts DEF Typed
<1>3. /\ F.i \in Nat /\ F.len \in 0 .. MaxLen /\ F.read \in Nat BY <1>2, FrameTypes
<1> DEFINE j == F.i + 1
<1>4. j \in Nat BY <1>3
<1> HIDE DEF j
<1>5. CASE session_key
 <2>1. /\ Step \notin {"enter", "enter_v3", "leave"} /\ Step \notin Pushes /\ Step # "pop"
       /\ StepOn /\ readers' = readers /\ mode' = "body" /\ failed' = failed
   BY <1>5 DEF session_key, At, Pushes
 <2>2. TypedFlags' BY <1>1, <1>5 DEF session_key, Typed, TypedFlags
 <2> QED BY <1>1, <2>1, <2>2, PassStep
<1>6. CASE numbers
 <2>1. /\ Step \notin {"enter", "enter_v3", "leave"} /\ Step \notin Pushes /\ Step # "pop"
       /\ Step \in OwnReads
   BY <1>6 DEF numbers, At, Pushes, OwnReads
 <2>2. CASE LimitedRead(1, 1) /\ Goes BY <1>1, <2>1, <2>2, LimitedStep
 <2>3. CASE /\ frames' = [frames EXCEPT ![Len(frames)].ret = 0, ![Len(frames)].i = @ + 1]
            /\ mode' = mode /\ Pushed /\ Stops
  <3> DEFINE g == [F EXCEPT !.ret = 0, !.i = j]
  <3>1. frames' = [frames EXCEPT ![Len(frames)] = g] BY <1>2, <2>3 DEF j
  <3>2. /\ g \in FrameSet /\ g.script = F.script /\ g.header = F.header /\ g.indet = F.indet
        /\ g.len = F.len /\ g.read = F.read /\ g.i = j /\ g.sub = F.sub
    BY <1>2, <1>4 DEF FrameSet
  <3> HIDE DEF g
  <3>3. TypedFlags' /\ mode' = "body" /\ failed' = failed /\ readers' = readers
    BY <1>1, <2>3 DEF Typed, TypedFlags, Pushed, Stops, rest
  <3> QED BY <1>1, <1>2, <2>1, <3>1, <3>2, <3>3, QuietStep DEF j
 <2> QED BY <1>6, <2>2, <2>3 DEF numbers
<1>7. CASE enter
 <2>1. PICK v3 \in BOOLEAN :
         /\ At(IF v3 THEN "enter_v3" ELSE "enter")
         /\ frames' = [frames EXCEPT ![Len(frames)].sub = TRUE, ![Len(frames)].i = @ + 1,
                         ![Len(frames)].sublen = IF v3 THEN Wrapped(F.len - F.read - 1)
                                                       ELSE F.len - F.read]
         /\ Goes /\ UNCHANGED readers
   BY <1>7 DEF enter
 <2>2. Step \in {"enter", "enter_v3"} /\ Step # "leave" /\ Step \notin Pushes /\ Step # "pop"
   BY <2>1 DEF At, Pushes
 <2> DEFINE l == IF v3 THEN Wrapped(F.len - F.read - 1) ELSE F.len - F.read
            g == [F EXCEPT !.sub = TRUE, !.i = j, !.sublen = l]
 <2>3. l \in Int BY <1>3 DEF Wrapped
 <2>4. frames' = [frames EXCEPT ![Len(frames)] = g] BY <1>2, <2>1 DEF j
 <2> HIDE DEF l
 <2>5. /\ g \in FrameSet /\ g.script = F.script /\ g.header = F.header /\ g.indet = F.indet
       /\ g.len = F.len /\ g.read = F.read /\ g.i = j /\ g.sub = TRUE
   BY <1>2, <1>4, <2>3 DEF FrameSet
 <2> HIDE DEF g
 <2>6. TypedFlags' /\ mode' = "body" /\ failed' = failed /\ readers' = readers
   BY <1>1, <2>1 DEF Typed, TypedFlags, Goes, rest
 <2> QED BY <1>1, <1>2, <2>2, <2>4, <2>5, <2>6, QuietStep DEF j
<1>8. CASE leave
 <2>1. /\ Step = "leave" /\ Step \notin Pushes /\ Step # "pop" /\ Goes /\ readers' = readers
       /\ frames' = [frames EXCEPT ![Len(frames)].sub = FALSE, ![Len(frames)].i = @ + 1]
   BY <1>8 DEF leave, At, Pushes
 <2> DEFINE g == [F EXCEPT !.sub = FALSE, !.i = j]
 <2>2. frames' = [frames EXCEPT ![Len(frames)] = g] BY <1>2, <2>1 DEF j
 <2>3. /\ g \in FrameSet /\ g.script = F.script /\ g.header = F.header /\ g.indet = F.indet
       /\ g.len = F.len /\ g.read = F.read /\ g.i = j /\ g.sub = FALSE
   BY <1>2, <1>4 DEF FrameSet
 <2> HIDE DEF g
 <2>4. TypedFlags' /\ mode' = "body" /\ failed' = failed
   BY <1>1, <2>1 DEF Typed, TypedFlags, Goes, rest
 <2> QED BY <1>1, <1>2, <2>1, <2>2, <2>3, <2>4, QuietStep DEF j
<1> QED BY <1>5, <1>6, <1>7, <1>8

\* The handler has come to its end.
LEMMA LastStepKeeps ==
  ASSUME ParseInv, LastStep PROVE ParseInv'
<1>1. Typed /\ mode = "body" /\ F.i > Len(F.script) /\ Returns(F.ret) /\ UNCHANGED errors /\ Stops
  BY DEF ParseInv, LastStep
<1>2. F.ret \in {-1, 0, 1}
 <2>1. F \in FrameSet BY <1>1, TypedFacts DEF Typed
 <2> QED BY <2>1, FrameTypes
<1>3. TypedFlags' /\ failed' = failed /\ readers' = readers
  BY <1>1 DEF Typed, TypedFlags, Stops, rest
<1> QED BY <1>1, <1>2, <1>3, ReturnStep

\* Going on changes nothing else of the packet.
LEMMA StepOnMoves ==
  ASSUME Typed, mode = "body", StepOn
  PROVE  /\ Moves(1) /\ Len(frames) \in 1 .. Len(frames) /\ F = frames[Len(frames)]
         /\ F' = frames'[Len(frames)]
         /\ \A f \in 1 .. Len(frames) :
              frames'[f].read = frames[f].read /\ frames'[f].sub = frames[f].sub
<1> DEFINE m == Len(frames)
           j == F.i + 1
           g == [F EXCEPT !.i = j]
<1>1. F \in FrameSet /\ F = frames[m] /\ m \in 1 .. m /\ m \in Nat BY TypedFacts DEF Typed
<1>2. frames' = [frames EXCEPT ![m] = g] BY <1>1 DEF StepOn
<1>3. j \in Nat BY <1>1, FrameTypes
<1> HIDE DEF j
<1>4. /\ g \in FrameSet /\ g.script = F.script /\ g.header = F.header /\ g.indet = F.indet
      /\ g.len = F.len /\ g.read = F.read /\ g.i = j /\ g.sub = F.sub
  BY <1>1, <1>3 DEF FrameSet
<1> HIDE DEF g
<1>5. /\ frames' \in Seq(FrameSet) /\ Len(frames') = m /\ frames'[m] = g
      /\ \A f \in 1 .. m : f # m => frames'[f] = frames[f]
 <2>1. frames \in Seq(FrameSet) BY DEF Typed
 <2> QED BY <1>1, <1>2, <1>4, <2>1
<1>6. ASSUME NEW f \in 1 .. m
      PROVE  /\ frames'[f].script = frames[f].script /\ frames'[f].header = frames[f].header
             /\ frames'[f].indet = frames[f].indet /\ frames'[f].len = frames[f].len
             /\ frames'[f].i = IF f = m THEN frames[f].i + 1 ELSE frames[f].i
             /\ frames'[f].read = frames[f].read /\ frames'[f].sub = frames[f].sub
 <2>1. CASE f = m BY <1>1, <1>4, <1>5, <2>1 DEF j
 <2>2. CASE f # m
  <3>1. frames'[f] = frames[f] BY <1>5, <2>2
  <3> HIDE DEF m
  <3> QED BY <2>2, <3>1
 <2> QED BY <2>1, <2>2
<1> QED BY <1>1, <1>5, <1>6 DEF Moves, F, Last

\* A handler pushes a reader.
LEMMA PushStep ==
  ASSUME ParseInv, ops_reader_push PROVE ParseInv'
<1>1. PICK p \in [1 .. Len(frames) -> 1 .. Top] : Arranged(p) BY DEF ParseInv
<1>2. Typed BY DEF ParseInv
<1>3. PICK kind \in DOMAIN Kinds : /\ At(Kinds[kind]) /\ StepOn /\ Goes
        /\ \E left \in Gives(kind) :
             readers' = Append(readers, [kind |-> kind, frame |-> Len(frames), left |-> left,
                                         opened |-> FALSE, alength |-> 0])
  BY DEF ops_reader_push
<1>4. PICK left \in Gives(kind) :
        readers' = Append(readers, [kind |-> kind, frame |-> Len(frames), left |-> left,
                                    opened |-> FALSE, alength |-> 0])
  BY <1>3
<1> DEFINE m == Len(frames)
           k == Top
           g == frames'[m]
           r == [kind |-> kind, frame |-> m, left |-> left, opened |-> FALSE, alength |-> 0]
<1>5. /\ mode = "body" /\ F.i <= Len(F.script) /\ Step = Kinds[kind] /\ mode' = "body"
      /\ failed' = failed /\ TypedFlags'
  BY <1>2, <1>3 DEF At, Goes, rest, Typed, TypedFlags
<1>6. /\ m \in 1 .. m /\ F = frames[m] /\ k \in Nat \ {0} /\ m \in Nat /\ frames # <<>>
      /\ F.script \in Scripts /\ F.i \in 1 .. Len(F.script) + 1 /\ F \in FrameSet
  BY <1>2, <1>5, TypedFacts DEF Typed
<1>7. F.i \in 1 .. Len(F.script) /\ Len(F.script) \in Nat BY <1>5, <1>6, PlaceFacts
<1>8. /\ Moves(1) /\ F' = g
      /\ \A f \in 1 .. m : frames'[f].read = frames[f].read /\ frames'[f].sub = frames[f].sub
  BY <1>2, <1>3, <1>5, StepOnMoves
<1>9. g.script = F.script /\ g.i = F.i + 1 /\ Len(frames') = m BY <1>6, <1>8 DEF Moves
<1>10. kind \in ReaderKinds \ {"base"} /\ Step \in Pushes
       /\ \A kd \in ReaderKinds \ {"base"} : Kinds[kd] = Step => kd = kind
  BY <1>5 DEF Kinds, ReaderKinds, Pushes
<1>11. /\ Held(g) = Held(F) + 1 /\ HeldKind(g, Held(g)) = kind
       /\ \A h : HeldKind(g, h) = HeldKind(F, h)
       /\ Inside(g) = Inside(F) /\ Held(F) \in Nat /\ Held(g) \in Nat
 <2> HIDE DEF g
 <2>1. Step = F.script[F.i] BY DEF Step
 <2>2. /\ Held(g) = Held(F) + 1 /\ Step = Kinds[HeldKind(F, Held(g))]
       /\ \A h : HeldKind(g, h) = HeldKind(F, h)
   BY <1>6, <1>7, <1>9, <1>10, <2>1, StepFacts
 <2>3. /\ Held(g) \in Nat /\ \A h \in 1 .. Held(g) : HeldKind(g, h) \in ReaderKinds \ {"base"}
  <3>1. g.script \in Scripts /\ g.i \in 1 .. Len(g.script) + 1 BY <1>6, <1>7, <1>9
  <3> QED BY <3>1, PlaceFacts
 <2>4. Held(F) \in Nat BY <1>6, PlaceFacts
 <2>5. HeldKind(g, Held(g)) = kind
  <3>1. Held(g) \in 1 .. Held(g) BY <2>2, <2>3, <2>4
  <3> QED BY <1>10, <2>2, <2>3, <3>1
 <2>6. Inside(g) = Inside(F)
  <3>1. F.script[F.i] \notin {"enter", "enter_v3", "leave"} BY <1>10, <2>1 DEF Pushes
  <3> QED BY <1>6, <1>7, <1>9, <3>1, InsideKept
 <2> QED BY <2>2, <2>3, <2>4, <2>5, <2>6
<1>12. left \in Int
 <2>1. F.len \in 0 .. MaxLen /\ F.read \in Nat BY <1>6, FrameTypes
 <2>2. Left(m) \in Int BY <1>6, <2>1 DEF Left
 <2> QED BY <1>3, <2>2 DEF Gives, Kinds
<1>13. /\ readers' \in Seq(ReaderSet) /\ Len(readers') = k + 1 /\ Top' = k + 1
       /\ readers'[k + 1] = r /\ \A j \in 1 .. k : readers'[j] = readers[j]
 <2>1. r \in ReaderSet BY <1>6, <1>10, <1>12 DEF ReaderSet
 <2>2. readers \in Seq(ReaderSet) BY <1>2 DEF Typed
 <2> HIDE DEF r
 <2>3. readers' = Append(readers, r) BY <1>4 DEF r
 <2> QED BY <1>6, <2>1, <2>2, <2>3 DEF Top
<1>14. Typed'
 <2>1. ReadersTyped'
  <3>1. readers'[1] = readers[1] /\ readers[1].kind = "base" BY <1>2, <1>6, <1>13 DEF Typed
  <3>2. readers' # <<>> BY <1>6, <1>13
  <3> QED BY <1>13, <3>1, <3>2 DEF ReadersTyped
 <2>2. F.i + 1 <= Len(F.script) + 1 BY <1>7
 <2>3. mode' \in Modes /\ mode' \notin {"tag", "length", "return"} BY <1>5 DEF Modes
 <2> QED BY <1>2, <1>5, <1>6, <1>8, <2>1, <2>2, <2>3, MovesTyped
<1>15. ASSUME NEW f \in 1 .. m
       PROVE  /\ frames'[f].script = frames[f].script
              /\ Held(frames'[f]) = IF f = m THEN Held(F) + 1 ELSE Held(frames[f])
              /\ (\A h : HeldKind(frames'[f], h) = HeldKind(frames[f], h))
              /\ Inside(frames'[f]) = Inside(frames[f]) /\ frames'[f].header = frames[f].header
              /\ Held(frames[f]) \in Nat
 <2>1. frames'[f].script = frames[f].script /\ frames'[f].header = frames[f].header
   BY <1>8 DEF Moves
 <2>2. Held(frames[f]) \in Nat
  <3>1. frames[f].script \in Scripts /\ frames[f].i \in 1 .. Len(frames[f].script) + 1
    BY <1>2, TypedFacts DEF Typed
  <3> QED BY <3>1, PlaceFacts
 <2>3. CASE f = m BY <1>6, <1>11, <2>1, <2>2, <2>3
 <2>4. CASE f # m
  <3>1. frames'[f].i = frames[f].i BY <1>8, <2>4 DEF Moves
  <3> HIDE DEF m
  <3> QED BY <2>1, <2>2, <2>4, <3>1 DEF Held, HeldKind, Inside
 <2> QED BY <2>3, <2>4
<1> HIDE DEF g, k, m
<1>16. p \in [1 .. m -> 1 .. k + 1] /\ p \in [1 .. m -> Nat \ {0}] /\ \A f \in 1 .. m : p[f] \in 1 .. k
  BY <1>1, <1>6 DEF k, m
<1>17. /\ \A f \in 1 .. m : /\ p[f] + Held(frames[f]) <= k
                            /\ \A e \in f + 1 .. m : p[f] + Held(frames[f]) <= p[e]
  BY <1>1 DEF Arranged, Laid, k, m
<1>18. Laid(p)'
 <2>1. ASSUME NEW f \in 1 .. m
       PROVE  /\ p[f] + Held(frames'[f]) <= k + 1
              /\ \A e \in f + 1 .. m : p[f] + Held(frames'[f]) <= p[e]
  <3>1. CASE f = m
   <4>1. \A e \in f + 1 .. m : FALSE BY <1>6, <3>1
   <4>2. p[m] + Held(F) <= k BY <1>6, <1>17 DEF m
   <4> QED BY <1>6, <1>11, <1>15, <1>16, <3>1, <4>1, <4>2
  <3>2. CASE f # m
   <4>1. Held(frames'[f]) = Held(frames[f]) BY <1>15, <3>2
   <4>2. p[f] + Held(frames[f]) <= k /\ \A e \in f + 1 .. m : p[f] + Held(frames[f]) <= p[e]
     BY <1>17
   <4>3. p[f] \in Nat /\ Held(frames[f]) \in Nat /\ k \in Nat BY <1>6, <1>15, <1>16
   <4> QED BY <4>1, <4>2, <4>3
  <3> QED BY <3>1, <3>2
 <2> QED BY <1>9, <1>13, <1>16, <2>1 DEF Laid, m
<1>19. ASSUME Clean' PROVE Stacked(p)' /\ Counted(p)' /\ Placed'
 <2>1. Clean /\ ~Ending /\ ~Ending' BY <1>5, <1>19 DEF Clean, Ending
 <2>2. Stacked(p) /\ Counted(p) /\ Placed BY <1>1, <2>1 DEF Arranged
 <2>3. Stacked(p)'
  <3>1. IF frames' = <<>> THEN Top' = 1 ELSE p[1] = 1
   <4>1. frames' # <<>> BY <1>6, <1>9 DEF m
   <4> QED BY <1>6, <2>2, <4>1 DEF Stacked
  <3>2. ASSUME NEW f \in 1 .. m
        PROVE  p[f] + Held(frames'[f]) = IF f = m THEN k + 1 ELSE p[f + 1]
   <4>1. p[f] + Held(frames[f]) = IF f = m THEN k ELSE p[f + 1] BY <2>2 DEF Stacked, k, m
   <4>2. p[f] \in Nat /\ Held(frames[f]) \in Nat /\ k \in Nat BY <1>6, <1>15, <1>16 DEF k
   <4>3. CASE f = m
    <5>1. Held(frames'[f]) = Held(frames[f]) + 1 BY <1>6, <1>15, <4>3 DEF m
    <5> QED BY <4>1, <4>2, <4>3, <5>1
   <4>4. CASE f # m
    <5>1. Held(frames'[f]) = Held(frames[f]) BY <1>15, <4>4
    <5> QED BY <4>1, <4>4, <5>1
   <4> QED BY <4>3, <4>4
  <3>3. readers'[1].frame = 0 BY <1>6, <1>13, <2>2 DEF Stacked
  <3>4. ASSUME NEW f \in 1 .. m, NEW h \in 1 .. Held(frames'[f])
        PROVE  readers'[p[f] + h].frame = f /\ readers'[p[f] + h].kind = HeldKind(frames'[f], h)
   <4>1. CASE h \in 1 .. Held(frames[f])
    <5>1. readers[p[f] + h].frame = f /\ readers[p[f] + h].kind = HeldKind(frames[f], h)
      BY <2>2, <4>1 DEF Stacked, m
    <5>2. p[f] + h \in 1 .. k
     <6>1. p[f] \in Nat /\ Held(frames[f]) \in Nat /\ k \in Nat /\ p[f] + Held(frames[f]) <= k
       BY <1>6, <1>15, <1>16, <1>17 DEF k
     <6> QED BY <4>1, <6>1
    <5> QED BY <1>13, <1>15, <5>1, <5>2
   <4>2. CASE f = m /\ h = Held(F) + 1
    <5>1. p[m] + Held(F) = k BY <1>2, <1>6, <2>2, TopReader, <1>1 DEF k, m
    <5>2. p[f] + h = k + 1
     <6>1. p[m] \in Nat /\ Held(F) \in Nat /\ k \in Nat /\ m \in 1 .. m
       BY <1>6, <1>11, <1>16 DEF k, m
     <6> QED BY <4>2, <5>1, <6>1
    <5>3. frames'[f] = g /\ h = Held(g) BY <1>11, <4>2 DEF g
    <5> QED BY <1>11, <1>13, <4>2, <5>2, <5>3
   <4> QED BY <1>6, <1>11, <1>15, <4>1, <4>2 DEF m
  <3>5. ASSUME NEW j \in 2 .. k + 1
        PROVE  /\ readers'[j].frame \in 1 .. m
               /\ j - p[readers'[j].frame] \in 1 .. Held(frames'[readers'[j].frame])
   <4>1. CASE j \in 2 .. k
    <5>1. /\ readers[j].frame \in 1 .. m
          /\ j - p[readers[j].frame] \in 1 .. Held(frames[readers[j].frame])
      BY <2>2, <4>1 DEF Stacked, k, m
    <5>2. readers'[j] = readers[j] BY <1>13, <4>1
    <5> DEFINE f == readers[j].frame
    <5> HIDE DEF f
    <5>3. f \in 1 .. m /\ j - p[f] \in 1 .. Held(frames[f]) BY <5>1 DEF f
    <5>4. Held(frames'[f]) >= Held(frames[f]) /\ Held(frames'[f]) \in Nat
      BY <1>6, <1>15, <5>3 DEF m
    <5>5. j - p[f] \in 1 .. Held(frames'[f]) BY <1>15, <5>3, <5>4
    <5> QED BY <5>2, <5>3, <5>5 DEF f
   <4>2. CASE j = k + 1
    <5>1. readers'[j].frame = m BY <1>13, <4>2
    <5>2. p[m] + Held(F) = k BY <1>1, <1>2, <1>6, <2>2, TopReader DEF k, m
    <5>3. j - p[m] = Held(g) BY <1>6, <1>11, <1>16, <4>2, <5>2
    <5>4. Held(g) \in 1 .. Held(g) /\ frames'[m] = g BY <1>11 DEF g
    <5> QED BY <1>6, <5>1, <5>3, <5>4
   <4> QED BY <1>6, <4>1, <4>2
  <3> QED BY <1>9, <1>13, <3>1, <3>2, <3>3, <3>4, <3>5 DEF Stacked, m
 <2>4. Counted(p)'
  <3>1. ASSUME NEW f \in 1 .. m, readers'[p[f]].kind # "decrypt"
        PROVE  readers'[p[f]].alength = frames'[f].header + frames'[f].read
   <4>1. readers'[p[f]] = readers[p[f]] BY <1>13, <1>16
   <4>2. readers[p[f]].alength = frames[f].header + frames[f].read
     BY <2>2, <3>1, <4>1 DEF Counted, m
   <4> QED BY <1>8, <1>15, <4>1, <4>2 DEF m
  <3> QED BY <1>9, <3>1 DEF Counted, m
 <2>5. Placed'
  <3>1. \A f \in 1 .. m : frames'[f].sub = Inside(frames'[f])
   <4>1. \A f \in 1 .. m : frames[f].sub = Inside(frames[f])
     BY <2>1, <2>2 DEF Placed, Inside, m
   <4> QED BY <1>8, <1>15, <4>1 DEF m
  <3>2. readers'[Top'].alength = 0 BY <1>13
  <3> QED BY <1>5, <1>9, <2>1, <3>1, <3>2 DEF Placed, Inside, m
 <2> QED BY <2>3, <2>4, <2>5
<1>20. p \in [1 .. Len(frames') -> 1 .. Top'] /\ Arranged(p)'
  BY <1>9, <1>13, <1>16, <1>18, <1>19 DEF Arranged, m
<1> QED BY <1>14, <1>20 DEF ParseInv

\* All of a sequence but its last element.
LEMMA FrontFacts ==
  ASSUME NEW S, NEW s \in Seq(S), s # <<>>
  PROVE  /\ Front(s) \in Seq(S) /\ Len(Front(s)) = Len(s) - 1 /\ Len(s) \in Nat \ {0}
         /\ \A j \in 1 .. Len(s) - 1 : Front(s)[j] = s[j]
<1>1. Len(s) \in Nat \ {0} OBVIOUS
<1> DEFINE n == Len(s) - 1
<1>2. n \in Nat /\ n <= Len(s) /\ 1 \in Int /\ \A j \in 1 .. n : s[j] \in S BY <1>1
<1> HIDE DEF n
<1>3. /\ SubSeq(s, 1, n) \in Seq(S) /\ Len(SubSeq(s, 1, n)) = n
      /\ \A j \in 1 .. n : SubSeq(s, 1, n)[j] = s[j]
  BY <1>1, <1>2
<1> QED BY <1>1, <1>3 DEF Front, n

\* A handler pops its uppermost reader.
LEMMA PopStep ==
  ASSUME ParseInv, ops_reader_pop PROVE ParseInv'
<1>1. PICK p \in [1 .. Len(frames) -> 1 .. Top] : Arranged(p) BY DEF ParseInv
<1>2. Typed BY DEF ParseInv
<1>3. At("pop") /\ readers' = Front(readers) /\ StepOn /\ Goes BY DEF ops_reader_pop, Popped
<1> DEFINE m == Len(frames)
           k == Top
           g == frames'[m]
<1>5. /\ mode = "body" /\ F.i <= Len(F.script) /\ Step = "pop" /\ mode' = "body"
      /\ failed' = failed /\ TypedFlags'
  BY <1>2, <1>3 DEF At, Goes, rest, Typed, TypedFlags
<1>6. /\ m \in 1 .. m /\ F = frames[m] /\ k \in Nat \ {0} /\ m \in Nat /\ frames # <<>>
      /\ F.script \in Scripts /\ F.i \in 1 .. Len(F.script) + 1 /\ F \in FrameSet
  BY <1>2, <1>5, TypedFacts DEF Typed
<1>7. F.i \in 1 .. Len(F.script) /\ Len(F.script) \in Nat BY <1>5, <1>6, PlaceFacts
<1>8. /\ Moves(1) /\ F' = g
      /\ \A f \in 1 .. m : frames'[f].read = frames[f].read /\ frames'[f].sub = frames[f].sub
  BY <1>2, <1>3, <1>5, StepOnMoves
<1>9. g.script = F.script /\ g.i = F.i + 1 /\ Len(frames') = m BY <1>6, <1>8 DEF Moves
<1>10. g.script \in Scripts /\ g.i \in 1 .. Len(g.script) + 1 BY <1>6, <1>7, <1>9
<1>11. /\ Held(g) = Held(F) - 1
       /\ \A h : HeldKind(g, h) = HeldKind(F, h)
       /\ g.i \in 1 .. Len(g.script) /\ g.script[g.i] = "parse" =>
            HeldKind(g, Held(g)) = "decrypt"
       /\ Inside(g) = Inside(F) /\ Held(F) \in Nat /\ Held(g) \in Nat
 <2> HIDE DEF g
 <2>1. Step = F.script[F.i] BY DEF Step
 <2>2. Step \notin Pushes /\ Step \notin {"enter", "enter_v3", "leave"} BY <1>5 DEF Pushes
 <2>3. /\ Held(g) = Held(F) - 1 /\ \A h : HeldKind(g, h) = HeldKind(F, h)
       /\ g.i \in 1 .. Len(g.script) /\ g.script[g.i] = "parse" =>
            HeldKind(g, Held(g)) = "decrypt"
   BY <1>5, <1>6, <1>7, <1>9, <2>1, <2>2, StepFacts
 <2>4. Held(g) \in Nat /\ Held(F) \in Nat BY <1>6, <1>10, PlaceFacts
 <2>5. Inside(g) = Inside(F) BY <1>6, <1>7, <1>9, <2>1, <2>2, InsideKept
 <2> QED BY <2>3, <2>4, <2>5
<1>15. ASSUME NEW f \in 1 .. m
       PROVE  /\ frames'[f].script = frames[f].script
              /\ Held(frames'[f]) = IF f = m THEN Held(F) - 1 ELSE Held(frames[f])
              /\ (\A h : HeldKind(frames'[f], h) = HeldKind(frames[f], h))
              /\ Inside(frames'[f]) = Inside(frames[f]) /\ frames'[f].header = frames[f].header
              /\ Held(frames[f]) \in Nat
 <2>1. frames'[f].script = frames[f].script /\ frames'[f].header = frames[f].header
   BY <1>8 DEF Moves
 <2>2. Held(frames[f]) \in Nat
  <3>1. frames[f].script \in Scripts /\ frames[f].i \in 1 .. Len(frames[f].script) + 1
    BY <1>2, TypedFacts DEF Typed
  <3> QED BY <3>1, PlaceFacts
 <2>3. CASE f = m BY <1>6, <1>11, <2>1, <2>2, <2>3
 <2>4. CASE f # m
  <3>1. frames'[f].i = frames[f].i BY <1>8, <2>4 DEF Moves
  <3> HIDE DEF m
  <3> QED BY <2>1, <2>2, <2>4, <3>1 DEF Held, HeldKind, Inside
 <2> QED BY <2>3, <2>4
<1> HIDE DEF g, k, m
<1>17. ASSUME NEW f \in 1 .. m
       PROVE  /\ p[f] \in Nat \ {0} /\ p[f] + Held(frames[f]) <= k /\ p[f] <= p[m]
              /\ \A e \in f + 1 .. m : p[f] + Held(frames[f]) <= p[e]
 <2>1. /\ p[f] \in Nat \ {0} /\ p[f] + Held(frames[f]) <= k
       /\ \A e \in f + 1 .. m : p[f] + Held(frames[f]) <= p[e]
   BY <1>1, <1>6 DEF Arranged, Laid, m, k
 <2>2. p[m] \in Nat BY <1>1, <1>6 DEF m
 <2>3. f = m \/ m \in f + 1 .. m BY <1>6
 <2> QED BY <1>15, <2>1, <2>2, <2>3
<1>12. /\ p[m] + Held(F) <= k /\ Held(F) >= 1 /\ k - 1 \in Nat \ {0} /\ 1 \in 1 .. k - 1
       /\ \A j \in 2 .. k - 1 : j \in 2 .. k /\ j \in 1 .. k - 1
 <2>1. p[m] \in Nat \ {0} /\ p[m] + Held(F) <= k BY <1>6, <1>17 DEF m
 <2>2. Held(F) >= 1 BY <1>11
 <2> QED BY <1>6, <1>11, <2>1, <2>2
<1>13. /\ readers' \in Seq(ReaderSet) /\ Len(readers') = k - 1 /\ Top' = k - 1
       /\ \A j \in 1 .. k - 1 : readers'[j] = readers[j]
 <2>1. readers \in Seq(ReaderSet) /\ readers # <<>> BY <1>2 DEF Typed
 <2>2. /\ Front(readers) \in Seq(ReaderSet) /\ Len(Front(readers)) = Len(readers) - 1
       /\ \A j \in 1 .. Len(readers) - 1 : Front(readers)[j] = readers[j]
   BY <2>1, FrontFacts
 <2> QED BY <1>3, <2>2 DEF Top, k
<1>14. Typed'
 <2>1. ReadersTyped'
  <3>1. readers'[1] = readers[1] /\ readers[1].kind = "base" BY <1>2, <1>12, <1>13 DEF Typed
  <3>2. readers' # <<>> BY <1>12, <1>13
  <3> QED BY <1>13, <3>1, <3>2 DEF ReadersTyped
 <2>2. F.i + 1 <= Len(F.script) + 1 BY <1>7
 <2>3. mode' \in Modes /\ mode' \notin {"tag", "length", "return"} BY <1>5 DEF Modes
 <2> QED BY <1>2, <1>5, <1>6, <1>8, <2>1, <2>2, <2>3, MovesTyped
<1>16. p \in [1 .. m -> 1 .. k - 1] /\ p \in [1 .. m -> Nat \ {0}]
 <2>1. ASSUME NEW f \in 1 .. m PROVE p[f] \in 1 .. k - 1 /\ p[f] \in Nat \ {0}
  <3>1. p[f] \in Nat \ {0} /\ p[f] <= p[m] /\ p[m] \in Nat BY <1>6, <1>17
  <3> QED BY <1>6, <1>11, <1>12, <3>1, SMTT(30)
 <2> QED BY <1>1, <2>1 DEF m
<1>18. Laid(p)'
 <2>1. ASSUME NEW f \in 1 .. m
       PROVE  /\ p[f] + Held(frames'[f]) <= k - 1
              /\ \A e \in f + 1 .. m : p[f] + Held(frames'[f]) <= p[e]
  <3>1. CASE f = m
   <4>1. \A e \in f + 1 .. m : FALSE BY <1>6, <3>1
   <4>2. p[m] \in Nat BY <1>6, <1>17
   <4>3. Held(frames'[f]) = Held(F) - 1 BY <1>15, <3>1
   <4> QED BY <1>6, <1>11, <1>12, <3>1, <4>1, <4>2, <4>3
  <3>2. CASE f # m
   <4>1. Held(frames'[f]) = Held(frames[f]) BY <1>15, <3>2
   <4>2. m \in f + 1 .. m BY <1>6, <3>2
   <4>3. p[f] + Held(frames[f]) <= p[m] /\ p[m] \in Nat /\ p[f] \in Nat BY <1>6, <1>17, <4>2
   <4>4. p[m] <= k - 1 BY <1>6, <1>11, <1>12, <4>3
   <4>5. p[f] + Held(frames[f]) <= k - 1 BY <1>6, <1>15, <4>3, <4>4
   <4>6. \A e \in f + 1 .. m : p[f] + Held(frames[f]) <= p[e] BY <1>17
   <4> QED BY <4>1, <4>5, <4>6
  <3> QED BY <3>1, <3>2
 <2> QED BY <1>9, <1>13, <1>16, <2>1 DEF Laid, m
<1>19. ASSUME Clean' PROVE Stacked(p)' /\ Counted(p)' /\ Placed'
 <2>1. Clean /\ ~Ending /\ ~Ending' BY <1>5, <1>19 DEF Clean, Ending
 <2>2. Stacked(p) /\ Counted(p) /\ Placed BY <1>1, <2>1 DEF Arranged
 <2>9. p[m] + Held(F) = k BY <1>1, <1>2, <1>6, <2>2, TopReader DEF k, m
 <2>3. Stacked(p)'
  <3>1. IF frames' = <<>> THEN Top' = 1 ELSE p[1] = 1
   <4>1. frames' # <<>> BY <1>6, <1>9 DEF m
   <4> QED BY <1>6, <2>2, <4>1 DEF Stacked
  <3>2. ASSUME NEW f \in 1 .. m
        PROVE  p[f] + Held(frames'[f]) = IF f = m THEN k - 1 ELSE p[f + 1]
   <4>1. p[f] + Held(frames[f]) = IF f = m THEN k ELSE p[f + 1] BY <2>2 DEF Stacked, k, m
   <4>2. p[f] \in Nat /\ Held(frames[f]) \in Nat /\ k \in Nat BY <1>6, <1>15, <1>17 DEF k
   <4>3. CASE f = m
    <5>1. Held(frames'[f]) = Held(frames[f]) - 1 BY <1>6, <1>15, <4>3 DEF m
    <5> QED BY <4>1, <4>2, <4>3, <5>1
   <4>4. CASE f # m
    <5>1. Held(frames'[f]) = Held(frames[f]) BY <1>15, <4>4
    <5> QED BY <4>1, <4>4, <5>1
   <4> QED BY <4>3, <4>4
  <3>3. readers'[1].frame = 0 BY <1>12, <1>13, <2>2 DEF Stacked
  <3>4. ASSUME NEW f \in 1 .. m, NEW h \in 1 .. Held(frames'[f])
        PROVE  readers'[p[f] + h].frame = f /\ readers'[p[f] + h].kind = HeldKind(frames'[f], h)
   <4>1. h \in 1 .. Held(frames[f])
    <5>1. CASE f = m
     <6>1. Held(frames'[f]) = Held(frames[f]) - 1 /\ Held(frames[f]) \in Nat
       BY <1>6, <1>15, <5>1 DEF m
     <6> QED BY <6>1
    <5>2. CASE f # m BY <1>15, <5>2
    <5> QED BY <5>1, <5>2
   <4>2. readers[p[f] + h].frame = f /\ readers[p[f] + h].kind = HeldKind(frames[f], h)
     BY <2>2, <4>1 DEF Stacked, m
   <4>3. p[f] + h \in 1 .. k - 1
    <5>1. p[f] + Held(frames'[f]) <= k - 1 BY <1>9, <1>13, <1>18 DEF Laid, m
    <5>2. p[f] \in Nat /\ Held(frames[f]) \in Nat /\ Held(frames'[f]) \in Int
     <6>1. CASE f = m BY <1>6, <1>11, <1>15, <1>17, <6>1 DEF m
     <6>2. CASE f # m BY <1>15, <1>17, <6>2
     <6> QED BY <6>1, <6>2
    <5> QED BY <1>12, <5>1, <5>2
   <4> QED BY <1>13, <1>15, <4>2, <4>3
  <3>5. ASSUME NEW j \in 2 .. k - 1
        PROVE  /\ readers'[j].frame \in 1 .. m
               /\ j - p[readers'[j].frame] \in 1 .. Held(frames'[readers'[j].frame])
   <4>0. j \in 2 .. k /\ j \in 1 .. k - 1 BY <1>12
   <4>1. /\ readers[j].frame \in 1 .. m
         /\ j - p[readers[j].frame] \in 1 .. Held(frames[readers[j].frame])
     BY <2>2, <4>0 DEF Stacked, k, m
   <4>2. readers'[j] = readers[j] BY <1>13, <4>0
   <4> DEFINE f == readers[j].frame
   <4> HIDE DEF f
   <4>3. f \in 1 .. m /\ j - p[f] \in 1 .. Held(frames[f]) /\ p[f] \in Nat BY <1>17, <4>1 DEF f
   <4>5. j - p[f] \in 1 .. Held(frames'[f])
    <5>1. CASE f = m
     <6>1. Held(frames'[f]) = Held(frames[f]) - 1 /\ Held(frames[f]) = Held(F)
       BY <1>6, <1>15, <5>1 DEF m
     <6>2. j - p[f] <= k - 1 - p[f] BY <1>12, <4>0, <4>3
     <6>3. k - p[f] = Held(F) BY <1>11, <2>9, <4>3, <5>1
     <6> QED BY <1>6, <1>11, <4>3, <6>1, <6>2, <6>3
    <5>2. CASE f # m BY <1>15, <4>3, <5>2
    <5> QED BY <5>1, <5>2
   <4> QED BY <4>2, <4>3, <4>5 DEF f
  <3> QED BY <1>9, <1>13, <3>1, <3>2, <3>3, <3>4, <3>5 DEF Stacked, m
 <2>4. Counted(p)'
  <3>1. ASSUME NEW f \in 1 .. m, readers'[p[f]].kind # "decrypt"
        PROVE  readers'[p[f]].alength = frames'[f].header + frames'[f].read
   <4>1. readers'[p[f]] = readers[p[f]] BY <1>13, <1>16
   <4>2. readers[p[f]].alength = frames[f].header + frames[f].read
     BY <2>2, <3>1, <4>1 DEF Counted, m
   <4> QED BY <1>8, <1>15, <4>1, <4>2 DEF m
  <3> QED BY <1>9, <3>1 DEF Counted, m
 <2>5. Placed'
  <3>1. \A f \in 1 .. m : frames'[f].sub = Inside(frames'[f])
   <4>1. \A f \in 1 .. m : frames[f].sub = Inside(frames[f])
     BY <2>1, <2>2 DEF Placed, Inside, m
   <4> QED BY <1>8, <1>15, <4>1 DEF m
  <3>2. ASSUME At("parse")' PROVE readers'[Top'].kind = "decrypt"
   <4>1. g.i <= Len(g.script) /\ g.script[g.i] = "parse"
    <5>1. F' = g BY <1>8
    <5> QED BY <3>2, <5>1 DEF At, Step
   <4>2. g.i \in 1 .. Len(g.script) BY <1>10, <4>1
   <4>3. HeldKind(g, Held(g)) = "decrypt" /\ Held(g) \in 1 .. 2
     BY <1>10, <1>11, <4>1, <4>2, ParseOwns
   <4>4. Held(g) \in 1 .. Held(g) /\ g = frames'[m] /\ p[m] \in Nat BY <1>6, <1>17, <4>3 DEF g
   <4>5. p[m] + Held(g) = k - 1
    <5>1. Held(g) = Held(F) - 1 /\ Held(F) \in Nat BY <1>11
    <5>2. p[m] \in Nat BY <4>4
    <5> QED BY <2>9, <5>1, <5>2
   <4>6. readers'[p[m] + Held(g)].kind = HeldKind(g, Held(g))
     BY <1>6, <1>9, <2>3, <4>4 DEF Stacked, m
   <4> QED BY <1>13, <4>3, <4>5, <4>6
  <3> QED BY <1>5, <1>9, <2>1, <3>1, <3>2 DEF Placed, Inside, m
 <2> QED BY <2>3, <2>4, <2>5
<1>20. p \in [1 .. Len(frames') -> 1 .. Top'] /\ Arranged(p)'
  BY <1>9, <1>13, <1>16, <1>18, <1>19 DEF Arranged, m
<1> QED BY <1>14, <1>20 DEF ParseInv

\* Every step of a handler keeps the invariant.
LEMMA HandlerKeeps ==
  ASSUME ParseInv, HandlerStep PROVE ParseInv'
<1>1. \/ limited_read \/ read_data \/ whole \/ body \/ subpackets \/ repeated
      \/ check \/ errp \/ fail \/ exact \/ accumulated \/ checkhash \/ assertion \/ return_ret
      \/ no_passphrase
      \/ session_key \/ numbers \/ enter \/ leave
      \/ ops_reader_push \/ ops_reader_pop \/ ops_parse \/ LastStep
  BY DEF HandlerStep
<1> QED BY <1>1, ReadingSteps, CheckingSteps, KeySteps, PushStep, PopStep, ParseStep,
           LastStepKeeps

-----------------------------------------------------------------------------
(* Steps of ops_parse and ops_parse_one_packet. *)

\* A read that leaves every packet where it is in its handler.
LEMMA DeliverHere ==
  ASSUME ParseInv, NEW n \in Nat, NEW own \in Nat, Deliver(n, own, 0),
         mode' \in Modes, TypedFlags', frames = <<>> => mode' # "body" /\ ~Ending',
         mode' \in {"tag", "length", "return"} => mode \in {"tag", "length", "return"},
         Clean' => /\ Clean
                   /\ \A f \in 1 .. Len(frames) : f < Len(frames) => Own(frames[f])
                   /\ frames # <<>> => IF Own(F) THEN F.sub \/ own = 0 ELSE ~F.sub /\ own = n,
         SameReaders /\ SameFrames(0) /\ Clean' /\ Placed
         /\ readers'[Top].alength = readers[Top].alength + n
         /\ (frames # <<>> /\ Held(F) = 0 => frames'[Len(frames)].read = F.read + own) => Placed'
  PROVE  ParseInv'
<1>1. PICK p \in [1 .. Len(frames) -> 1 .. Top] : Arranged(p) BY DEF ParseInv
<1>2. Typed BY DEF ParseInv
<1> DEFINE m == Len(frames)
<1>3. SameReaders /\ SameFrames(0) BY <1>2, DeliverKeeps
<1>4. Moves(0) BY <1>3 DEF SameFrames, Moves
<1>5. frames # <<>> =>
        /\ m \in 1 .. m /\ F = frames[m] /\ F.script \in Scripts
        /\ F.i \in 1 .. Len(F.script) + 1 /\ Len(F.script) \in Nat /\ F.i \in Nat
        /\ F.i + 0 = F.i
 <2>1. SUFFICES ASSUME frames # <<>>
                PROVE  /\ m \in 1 .. m /\ F = frames[m] /\ F.script \in Scripts
                       /\ F.i \in 1 .. Len(F.script) + 1 /\ Len(F.script) \in Nat
                       /\ F.i \in Nat /\ F.i + 0 = F.i
   OBVIOUS
 <2>2. /\ m \in 1 .. m /\ F = frames[m] /\ F.script \in Scripts
       /\ F.i \in 1 .. Len(F.script) + 1
   BY <1>2, <2>1, TypedFacts DEF Typed
 <2>3. Len(F.script) \in Nat /\ F.i \in Nat BY <2>2, PlaceFacts
 <2> QED BY <2>2, <2>3
<1>6. Typed'
 <2>1. ReadersTyped' BY <1>2, <1>3, SameTyped
 <2>2. frames # <<>> => F.i + 0 <= Len(F.script) + 1 BY <1>5
 <2>3. frames # <<>> /\ mode' \in {"tag", "length", "return"} =>
         F.i <= Len(F.script) /\ F.script[F.i] = "parse"
   BY <1>2, <1>5 DEF Typed, Waits
 <2> QED BY <1>2, <1>4, <2>1, <2>2, <2>3, MovesTyped
<1>7. ASSUME Clean' PROVE Clean /\ Counted(p)' /\ Placed'
 <2>1. Clean BY <1>7
 <2>2. Stacked(p) /\ Counted(p) /\ Placed BY <1>1, <2>1 DEF Arranged
 <2>3. /\ readers'[Top].alength = readers[Top].alength + n
       /\ \A f \in 1 .. m :
            readers[p[f]].kind # "decrypt" =>
              readers'[p[f]].alength = frames'[f].header + frames'[f].read
       /\ frames # <<>> /\ Held(F) = 0 => frames'[m].read = F.read + own
   BY <1>2, <1>7, <2>2, DeliverCounts
 <2>4. Counted(p)' BY <1>3, <2>3 DEF Counted, SameReaders, SameFrames
 <2> QED BY <1>3, <1>7, <2>1, <2>2, <2>3, <2>4
<1>8. frames # <<>> => Held(frames'[m]) = Held(F) BY <1>3, <1>5 DEF SameFrames, Held
<1>9. p \in [1 .. Len(frames') -> 1 .. Top'] /\ Arranged(p)'
  BY <1>1, <1>2, <1>3, <1>4, <1>7, <1>8, MovesArranged
<1> QED BY <1>6, <1>9 DEF ParseInv

\* ops_parse_one_packet reads the tag.
LEMMA TagStep ==
  ASSUME ParseInv, ReadTag PROVE ParseInv'
<1>1. Typed /\ mode = "tag" /\ ~Ending /\ (Clean <=> ~failed)
  BY DEF ParseInv, ReadTag, Ending, Clean
<1>2. \A f \in 1 .. Len(frames) : Own(frames[f]) BY <1>1, WaitingOwn DEF Waits
<1>3. frames # <<>> => Own(F) /\ Len(frames) \in 1 .. Len(frames) /\ F = frames[Len(frames)]
  BY <1>1, <1>2, TypedFacts
<1>4. accumulate' \in BOOLEAN /\ decrypt' \in BOOLEAN /\ result' \in {0, 1}
  BY <1>1 DEF ReadTag, rest, Typed
<1>5. CASE Deliver(1, 0, 0) /\ mode' = "length" /\ UNCHANGED <<errors, failed>>
 <2>1. mode' \in Modes /\ TypedFlags' /\ ~Ending' /\ mode' # "body"
   BY <1>1, <1>4, <1>5 DEF Modes, TypedFlags, Typed, Ending
 <2>2. Clean' => Clean BY <1>1, <1>5, <2>1 DEF Clean
 <2>3. ASSUME SameReaders, SameFrames(0), Placed, readers'[Top].alength = readers[Top].alength + 1
       PROVE  Placed'
  <3>1. /\ Len(frames') = Len(frames)
        /\ \A f \in 1 .. Len(frames) : frames'[f].sub = Inside(frames'[f])
   <4>1. ASSUME NEW f \in 1 .. Len(frames) PROVE frames'[f].sub = Inside(frames'[f])
    <5>1. frames[f].sub = Inside(frames[f]) BY <1>1, <2>3 DEF Placed, Inside
    <5>2. frames[f].i \in Nat BY <1>1, TypedFacts, FrameTypes
    <5>3. frames'[f].i = frames[f].i /\ frames'[f].script = frames[f].script
          /\ frames'[f].sub = frames[f].sub
      BY <2>3, <5>2 DEF SameFrames
    <5> QED BY <5>1, <5>3 DEF Inside
   <4> QED BY <2>3, <4>1 DEF SameFrames
  <3>2. readers'[Top'].kind # "decrypt" => readers'[Top'].alength = 1
   <4>1. Top' = Top /\ readers'[Top].kind = readers[Top].kind
     BY <1>1, <2>3, TypedFacts DEF SameReaders, Top
   <4>2. readers[Top].kind # "decrypt" => readers[Top].alength = 0 BY <1>1, <2>3 DEF Placed
   <4> QED BY <2>3, <4>1, <4>2
  <3> QED BY <1>5, <2>1, <3>1, <3>2 DEF Placed, At, Inside
 <2> QED BY <1>1, <1>2, <1>3, <1>5, <2>1, <2>2, <2>3, DeliverHere
<1>6. CASE Deliver(1, 0, 0) /\ mode' = Loops(0) /\ errors' = TRUE /\ failed' = TRUE
 <2>1. mode' = "return" /\ mode' \in Modes /\ TypedFlags' /\ ~Ending' /\ mode' # "body"
   BY <1>1, <1>4, <1>6 DEF Modes, TypedFlags, Ending, Loops
 <2>2. ~Clean' BY <1>6 DEF Clean
 <2> QED BY <1>1, <1>6, <2>1, <2>2, DeliverHere
<1>7. CASE /\ mode' = Loops(-1)
           /\ Pushed \/ (NoMore /\ errors' = errors)
           /\ UNCHANGED <<frames, readers, failed>>
 <2>1. mode' = "return" /\ mode' \in Modes /\ TypedFlags' /\ ~Ending' /\ mode' # "body"
  <3>1. errors' \in BOOLEAN /\ failed' \in BOOLEAN
   <4>1. errors \in BOOLEAN /\ failed \in BOOLEAN BY <1>1 DEF Typed
   <4>2. errors' = TRUE \/ errors' = errors BY <1>7 DEF Pushed
   <4> QED BY <1>7, <4>1, <4>2
  <3>2. mode' = "return" BY <1>7 DEF Loops
  <3> QED BY <1>4, <3>1, <3>2 DEF Modes, TypedFlags, Ending
 <2>2. frames # <<>> => F.i <= Len(F.script) /\ F.script[F.i] = "parse"
   BY <1>1, <1>3 DEF Typed, Waits
 <2>3. ASSUME NEW p, Arranged(p), Clean' PROVE Clean /\ Placed'
  <3>1. Clean BY <1>1, <1>7, <2>1, <2>3 DEF Clean
  <3>2. Placed BY <2>3, <3>1 DEF Arranged
  <3>3. Placed' BY <1>1, <1>7, <2>1, <3>2 DEF Placed, At
  <3> QED BY <3>1, <3>3
 <2> QED BY <1>7, <2>1, <2>2, <2>3, StayStep
<1> QED BY <1>5, <1>6, <1>7 DEF ReadTag

\* The rest of a packet is read and thrown away.
LEMMA ConsumeStep ==
  ASSUME ParseInv, Ending, mode # "finish", mode' \in {"again", "finish"}, failed' = failed,
         UNCHANGED rest, consume_packet
  PROVE  ParseInv'
<1>1. Typed /\ frames # <<>> /\ mode' \in Modes /\ Ending' /\ mode' # "body"
      /\ mode' \notin {"tag", "length", "return"}
  BY DEF ParseInv, Typed, Ending, Modes
<1> DEFINE m == Len(frames)
<1>2. /\ m \in 1 .. m /\ F = frames[m] /\ F \in FrameSet /\ F.script \in Scripts
      /\ F.i \in 1 .. Len(F.script) + 1 /\ m \in Nat
  BY <1>1, TypedFacts DEF Typed
<1>3. Len(F.script) \in Nat /\ F.i \in Nat /\ F.len \in Nat /\ F.read \in Nat
      /\ F.sublen \in Int /\ F.subread \in Nat
  BY <1>2, PlaceFacts, FrameTypes
<1>4. accumulate' \in BOOLEAN /\ decrypt' \in BOOLEAN /\ result' \in {0, 1} /\ failed' \in BOOLEAN
  BY <1>1 DEF rest, Typed
<1>5. CASE ~F.indet /\ Room >= 0 /\ Deliver(Room, Room, 0) /\ UNCHANGED errors
 <2> DEFINE n == Room
 <2>1. n \in Nat /\ (F.sub = FALSE => n = F.len - F.read) BY <1>3, <1>5 DEF Room
 <2> HIDE DEF n
 <2>2. Deliver(n, n, 0) BY <1>5 DEF n
 <2>3. TypedFlags' BY <1>1, <1>4, <1>5 DEF TypedFlags, Typed
 <2>4. SameFrames(0) /\ F' = frames'[m]
  <3>1. SameFrames(0) BY <1>1, <2>1, <2>2, DeliverKeeps
  <3>2. frames' \in Seq(FrameSet) /\ Len(frames') = m BY <3>1 DEF SameFrames
  <3> QED BY <3>1, <3>2 DEF F, Last
 <2>5. Clean' => Clean BY <1>2, <1>1, <2>4 DEF Clean, SameFrames
 <2>6. ASSUME Clean
       PROVE  /\ \A f \in 1 .. m : f < m => Own(frames[f])
              /\ F.sub = FALSE /\ Held(F) = 0 /\ ~Own(F)
  <3>1. \A f \in 1 .. m : f < m => Own(frames[f]) BY <1>1, WaitingOwn DEF Waits
  <3>2. F.sub = FALSE /\ Held(F) = 0
   <4>1. PICK p : Arranged(p) BY DEF ParseInv
   <4> QED BY <1>2, <2>6, <4>1 DEF Arranged, Placed
  <3>3. ~Own(F) BY <1>2, <3>2, PlaceFacts
  <3> QED BY <3>1, <3>2, <3>3
 <2>7. ASSUME SameReaders, Clean', Placed,
              frames # <<>> /\ Held(F) = 0 => frames'[m].read = F.read + n
       PROVE  Placed'
  <3>1. frames'[m].read = F.len /\ F.sub = FALSE /\ Held(F) = 0
   <4>1. F.sub = FALSE /\ Held(F) = 0 BY <2>5, <2>6, <2>7
   <4>2. frames'[m].read = F.read + n BY <1>1, <2>7, <4>1
   <4>3. F.read + n = F.len BY <1>3, <2>1, <4>1
   <4> QED BY <4>1, <4>2, <4>3
  <3>2. frames'[m].len = F.len /\ frames'[m].sub = FALSE /\ Held(frames'[m]) = 0
    BY <1>2, <1>3, <2>4, <3>1 DEF SameFrames, Held
  <3>3. ASSUME NEW f \in 1 .. m, f # m PROVE frames'[f].sub = Inside(frames'[f])
    BY <2>4, <2>7, <3>3 DEF SameFrames, Placed, Inside
  <3>4. Len(frames') = m BY <2>4 DEF SameFrames
  <3> QED BY <1>1, <2>4, <3>1, <3>2, <3>3, <3>4 DEF Placed, At, Inside
 <2> QED BY <1>1, <2>1, <2>2, <2>3, <2>5, <2>6, <2>7, DeliverHere
<1>6. CASE /\ frames' = [frames EXCEPT ![Len(frames)].ret = -1]
           /\ readers' = readers /\ errors' = (errors \/ ~F.indet)
 <2> DEFINE g == [F EXCEPT !.ret = -1]
 <2>1. frames' = [frames EXCEPT ![m] = g] BY <1>2, <1>6
 <2>2. /\ g \in FrameSet /\ g.script = F.script /\ g.header = F.header /\ g.indet = F.indet
       /\ g.len = F.len /\ g.i = F.i /\ g.ret = -1
   BY <1>2 DEF FrameSet
 <2> HIDE DEF g
 <2>3. /\ frames' \in Seq(FrameSet) /\ Len(frames') = m /\ frames'[m] = g /\ F' = g
       /\ \A f \in 1 .. m : f # m => frames'[f] = frames[f]
  <3>1. frames \in Seq(FrameSet) BY <1>1 DEF Typed
  <3>2. /\ frames' \in Seq(FrameSet) /\ Len(frames') = m /\ frames'[m] = g
        /\ \A f \in 1 .. m : f # m => frames'[f] = frames[f]
    BY <1>2, <2>1, <2>2, <3>1
  <3> QED BY <3>2 DEF F, Last
 <2>4. Moves(0)
  <3>1. ASSUME NEW f \in 1 .. m
        PROVE  /\ frames'[f].script = frames[f].script /\ frames'[f].header = frames[f].header
               /\ frames'[f].indet = frames[f].indet /\ frames'[f].len = frames[f].len
               /\ frames'[f].i = IF f = m THEN frames[f].i + 0 ELSE frames[f].i
               /\ f # m => frames'[f].sub = frames[f].sub
   <4>1. CASE f = m BY <1>2, <1>3, <2>2, <2>3, <4>1
   <4>2. CASE f # m
    <5>1. frames'[f] = frames[f] BY <2>3, <4>2
    <5> HIDE DEF m
    <5> QED BY <4>2, <5>1
   <4> QED BY <4>1, <4>2
  <3> QED BY <2>3, <3>1 DEF Moves
 <2>5. SameReaders
  <3>1. readers \in Seq(ReaderSet) BY <1>1 DEF Typed
  <3> QED BY <1>6, <3>1 DEF SameReaders, Top
 <2>6. errors' \in BOOLEAN
  <3>1. F.indet \in BOOLEAN /\ errors \in BOOLEAN BY <1>1, <1>2, FrameTypes DEF Typed
  <3> QED BY <1>6, <3>1
 <2>7. Typed'
  <3>1. TypedFlags' BY <1>4, <2>6 DEF TypedFlags
  <3>2. F.i + 0 <= Len(F.script) + 1 BY <1>2, <1>3
  <3> QED BY <1>1, <2>4, <2>5, <3>1, <3>2, SameTyped, MovesTyped
 <2>8. ~Clean' BY <1>1, <2>2, <2>3 DEF Clean
 <2>9. Held(frames'[m]) = Held(F) BY <2>2, <2>3 DEF Held
 <2>10. PICK p \in [1 .. Len(frames) -> 1 .. Top] : Arranged(p) BY DEF ParseInv
 <2>11. p \in [1 .. Len(frames') -> 1 .. Top'] /\ Arranged(p)'
   BY <1>1, <2>4, <2>5, <2>8, <2>9, <2>10, MovesArranged
 <2> QED BY <2>7, <2>11 DEF ParseInv
<1> QED BY <1>5, <1>6 DEF consume_packet

\* The packet is at its end.
LEMMA EndStep ==
  ASSUME ParseInv, ConsumeRest \/ ConsumeFailed PROVE ParseInv'
<1>1. /\ Typed /\ frames # <<>> /\ mode' \in Modes /\ Ending /\ Ending' /\ mode # "finish"
      /\ mode' \in {"again", "finish"} /\ failed' = failed /\ UNCHANGED rest
  BY DEF ParseInv, Typed, ConsumeRest, ConsumeFailed, Ending, Modes
<1>2. CASE consume_packet BY <1>1, <1>2, ConsumeStep
<1>3. CASE /\ UNCHANGED <<frames, readers, errors>>
           /\ mode = "end" => F.len = F.read \/ F.indet
 <2>1. TypedFlags' /\ mode' # "body" /\ mode' \notin {"tag", "length", "return"}
   BY <1>1, <1>3 DEF TypedFlags, Typed, rest
 <2>2. ASSUME NEW p, Arranged(p), Clean' PROVE Clean /\ Placed'
  <3>6. frames' = frames /\ readers' = readers /\ F' = F /\ Top' = Top BY <1>3 DEF F, Top
  <3>1. Clean BY <1>1, <2>2, <3>6 DEF Clean
  <3>2. Placed BY <2>2, <3>1 DEF Arranged
  <3>3. ~F.indet => F.read = F.len BY <1>1, <1>3, <3>2 DEF Placed, Ending
  <3>4. ~At("parse")' BY <1>1 DEF At, Ending
  <3>5. \A f \in 1 .. Len(frames) :
          IF f = Len(frames) THEN frames[f].sub = FALSE /\ Held(frames[f]) = 0
                             ELSE frames[f].sub = (frames[f].i \in Layout(frames[f].script).sub)
    BY <1>1, <3>2 DEF Placed
  <3>7. Placed' BY <1>1, <2>1, <3>3, <3>4, <3>5, <3>6 DEF Placed
  <3> QED BY <3>1, <3>7
 <2> QED BY <1>1, <1>3, <2>1, <2>2, StayStep
<1> QED
 <2>1. CASE ConsumeRest BY <1>2, <1>3, <2>1 DEF ConsumeRest
 <2>2. CASE ConsumeFailed
  <3>1. mode # "end" BY <2>2 DEF ConsumeFailed
  <3> QED BY <1>2, <1>3, <2>2, <3>1 DEF ConsumeFailed
 <2> QED BY <2>1, <2>2

\* What the packets that wait are charged is what their readers give out.
LEMMA ChargeCounts ==
  ASSUME Typed, NEW p \in [1 .. Len(frames) -> 1 .. Top], Stacked(p), Counted(p),
         \A f \in 1 .. Len(frames) : Own(frames[f]), NEW n \in Nat, NEW c \in Answers(n)
  PROVE  /\ Answered(c)[Top].alength = readers[Top].alength + n
         /\ \A f \in 1 .. Len(frames) :
              readers[p[f]].kind # "decrypt" =>
                Answered(c)[p[f]].alength = Charged(c)[f].header + Charged(c)[f].read
<1>1. Top \in Nat \ {0} /\ c[Top + 1] = n BY TypedFacts, AnswerFacts
<1>2. Answered(c)[Top].alength = readers[Top].alength + n
 <2>1. Top \in 1 .. Top BY <1>1
 <2> QED BY <1>1, <2>1, AnsweredFacts
<1>3. ASSUME NEW f \in 1 .. Len(frames), readers[p[f]].kind # "decrypt"
      PROVE  Answered(c)[p[f]].alength = Charged(c)[f].header + Charged(c)[f].read
 <2> DEFINE q == p[f]
            d == ChargedBy(c, f)
 <2>1. q \in 1 .. Top /\ d = c[q + 1] /\ d \in Nat BY ChargedOwn, ChargeFacts
 <2>2. frames[f] \in FrameSet /\ Charged(c)[f] = [frames[f] EXCEPT !.read = frames[f].read + d]
   BY TypedFacts, ChargedFacts
 <2>3. readers[q].alength = frames[f].header + frames[f].read BY <1>3 DEF Counted
 <2> HIDE DEF q, d
 <2>4. frames[f].header \in Nat /\ frames[f].read \in Nat
  <3>1. frames[f].header \in {1, 2} /\ frames[f].read \in Nat BY <2>2, FrameTypes
  <3> QED BY <3>1
 <2>5. Charged(c)[f].header = frames[f].header /\ Charged(c)[f].read = frames[f].read + d
   BY <2>2 DEF FrameSet
 <2>6. Answered(c)[q].alength = readers[q].alength + d BY <2>1, AnsweredFacts
 <2>7. Answered(c)[q].alength = Charged(c)[f].header + Charged(c)[f].read
   BY <2>1, <2>3, <2>4, <2>5, <2>6
 <2> QED BY <2>7 DEF q
<1> QED BY <1>2, <1>3

\* A new packet, after a read that leaves the others at fs.
OpensOn(fs, new) ==
  /\ fs \in Seq(FrameSet) /\ Len(fs) = Len(frames)
  /\ \A f \in 1 .. Len(frames) :
       fs[f].script = frames[f].script /\ fs[f].i = frames[f].i /\ fs[f].sub = frames[f].sub
  /\ frames' = Append(fs, new)
CountedOn(fs, new) ==
  \A p \in [1 .. Len(frames) -> 1 .. Top] :
    Stacked(p) /\ Counted(p) /\ Placed =>
      /\ \A f \in 1 .. Len(frames) :
           readers[p[f]].kind # "decrypt" =>
             readers'[p[f]].alength = fs[f].header + fs[f].read
      /\ readers[Top].kind # "decrypt" => readers'[Top].alength = new.header

\* A new packet, with no reader of its own, is read through the uppermost one.
LEMMA OpenStep ==
  ASSUME ParseInv, mode = "length", NEW fs, NEW new \in FrameSet, OpensOn(fs, new),
         MayOpen(new.script), new.i = 1, new.read = 0, new.sub = FALSE,
         SameReaders, mode' = "body", TypedFlags', failed' = failed, CountedOn(fs, new)
  PROVE  ParseInv'
<1>1. PICK p \in [1 .. Len(frames) -> 1 .. Top] : Arranged(p) BY DEF ParseInv
<1>2. Typed BY DEF ParseInv
<1> DEFINE m == Len(frames)
           k == Top
<1>3. m \in Nat /\ k \in Nat \ {0} /\ k \in 1 .. k BY <1>2, TypedFacts
<1>4. /\ new.script \in Scripts /\ Len(new.script) \in Nat /\ new.i \in 1 .. Len(new.script) + 1
      /\ Held(new) = 0 /\ Inside(new) = FALSE /\ new.header \in {1, 2}
 <2>1. new.script \in Scripts /\ new.header \in {1, 2} BY FrameTypes
 <2>2. Len(new.script) \in Nat BY <2>1, LayoutFits
 <2>3. new.i \in 1 .. Len(new.script) + 1 BY <2>2
 <2>4. Held(new) = 0 /\ ~Inside(new) BY <2>1, <2>3, PlaceFacts
 <2> QED BY <2>1, <2>2, <2>3, <2>4 DEF Inside
<1>5. /\ frames' \in Seq(FrameSet) /\ Len(frames') = m + 1 /\ frames'[m + 1] = new /\ F' = new
      /\ \A f \in 1 .. m : frames'[f] = fs[f]
 <2>1. /\ frames' \in Seq(FrameSet) /\ Len(frames') = m + 1 /\ frames'[m + 1] = new
       /\ \A f \in 1 .. m : frames'[f] = fs[f]
   BY <1>3 DEF OpensOn
 <2> QED BY <2>1 DEF F, Last
<1>6. ASSUME NEW f \in 1 .. m
      PROVE  /\ frames'[f].script = frames[f].script /\ frames'[f].i = frames[f].i
             /\ frames'[f].sub = frames[f].sub /\ Held(frames'[f]) = Held(frames[f])
             /\ (\A h : HeldKind(frames'[f], h) = HeldKind(frames[f], h))
             /\ Inside(frames'[f]) = Inside(frames[f])
             /\ Held(frames[f]) \in Nat
 <2>1. /\ frames'[f].script = frames[f].script /\ frames'[f].i = frames[f].i
       /\ frames'[f].sub = frames[f].sub
   BY <1>5 DEF OpensOn
 <2>2. Held(frames[f]) \in Nat
  <3>1. frames[f].script \in Scripts /\ frames[f].i \in 1 .. Len(frames[f].script) + 1
    BY <1>2, TypedFacts DEF Typed
  <3> QED BY <3>1, PlaceFacts
 <2> QED BY <2>1, <2>2 DEF Held, HeldKind, Inside
<1>7. Top' = k /\ \A j \in 1 .. k : readers'[j].kind = readers[j].kind /\ readers'[j].frame = readers[j].frame
  BY DEF SameReaders, Top
<1> HIDE DEF m, k
<1>8. PICK q \in [1 .. m + 1 -> 1 .. k] :
        /\ q \in [1 .. m + 1 -> Nat \ {0}] /\ q[m + 1] = k
        /\ \A f \in 1 .. m : q[f] = p[f] /\ p[f] \in Nat
 <2> DEFINE q == [f \in 1 .. m + 1 |-> IF f = m + 1 THEN k ELSE p[f]]
 <2>1. p \in [1 .. m -> 1 .. k] BY <1>1 DEF m, k
 <2>2. ASSUME NEW f \in 1 .. m + 1 PROVE (IF f = m + 1 THEN k ELSE p[f]) \in 1 .. k BY <1>3, <2>1
 <2>3. /\ q \in [1 .. m + 1 -> 1 .. k] /\ q \in [1 .. m + 1 -> Nat \ {0}] /\ q[m + 1] = k
       /\ \A f \in 1 .. m : q[f] = p[f] /\ p[f] \in Nat
   BY <1>3, <2>1, <2>2
 <2> QED BY <2>3
<1>9. Typed'
 <2>1. ASSUME NEW f \in 1 .. m + 1
       PROVE  /\ frames'[f].i \in 1 .. Len(frames'[f].script) + 1
              /\ Nests(frames'[f].script) => f <= MaxNest
              /\ Waits(f)' => /\ frames'[f].i <= Len(frames'[f].script)
                              /\ frames'[f].script[frames'[f].i] = "parse"
  <3>1. CASE f = m + 1
   <4>1. ~Waits(f)' BY <1>3, <1>5, <3>1 DEF Waits
   <4>2. Nests(new.script) => f <= MaxNest BY <1>3, <3>1 DEF MayOpen, m
   <4> QED BY <1>4, <1>5, <3>1, <4>1, <4>2
  <3>2. CASE f \in 1 .. m
   <4>1. Waits(f) BY DEF Waits
   <4> QED BY <1>2, <1>6, <3>2, <4>1 DEF Typed, m
  <3> QED BY <1>3, <3>1, <3>2
 <2>2. ReadersTyped' BY <1>2, SameTyped
 <2>3. mode' \in Modes /\ frames' # <<>> BY <1>3, <1>5 DEF Modes
 <2> QED BY <1>5, <2>1, <2>2, <2>3 DEF Typed, TypedFlags, ReadersTyped
<1>10. ASSUME NEW f \in 1 .. m
       PROVE  /\ p[f] + Held(frames[f]) <= k
              /\ \A e \in f + 1 .. m : p[f] + Held(frames[f]) <= p[e]
  BY <1>1 DEF Arranged, Laid, m, k
<1>11. Laid(q)'
 <2>1. ASSUME NEW f \in 1 .. m + 1
       PROVE  /\ q[f] + Held(frames'[f]) <= k
              /\ \A e \in f + 1 .. m + 1 : q[f] + Held(frames'[f]) <= q[e]
  <3>1. CASE f = m + 1 BY <1>3, <1>4, <1>5, <1>8, <3>1
  <3>2. CASE f \in 1 .. m
   <4>1. q[f] + Held(frames'[f]) <= k BY <1>6, <1>8, <1>10, <3>2
   <4>2. ASSUME NEW e \in f + 1 .. m + 1 PROVE q[f] + Held(frames'[f]) <= q[e]
    <5>1. CASE e = m + 1 BY <1>8, <4>1, <5>1
    <5>2. CASE e # m + 1
     <6>1. e \in f + 1 .. m /\ e \in 1 .. m BY <1>3, <3>2, <5>2
     <6> QED BY <1>6, <1>8, <1>10, <3>2, <6>1
    <5> QED BY <5>1, <5>2
   <4> QED BY <4>1, <4>2
  <3> QED BY <1>3, <3>1, <3>2
 <2> QED BY <1>5, <1>7, <1>8, <2>1 DEF Laid
<1>12. ASSUME Clean' PROVE Stacked(q)' /\ Counted(q)' /\ Placed'
 <2>1. Clean /\ ~Ending /\ ~Ending' BY <1>12 DEF Clean, Ending
 <2>2. Stacked(p) /\ Counted(p) /\ Placed BY <1>1, <2>1 DEF Arranged
 <2>3. /\ \A f \in 1 .. m : readers[p[f]].kind # "decrypt" =>
               readers'[p[f]].alength = fs[f].header + fs[f].read
       /\ readers[k].kind # "decrypt" => readers'[k].alength = new.header
   BY <1>1, <2>2 DEF CountedOn, m, k
 <2>4. Stacked(q)'
  <3>1. frames' # <<>> /\ q[1] = 1
   <4>1. frames' # <<>> /\ frames \in Seq(FrameSet) BY <1>2, <1>3, <1>5 DEF Typed
   <4>2. CASE m = 0
    <5>1. frames = <<>> BY <4>1, <4>2 DEF m
    <5>2. k = 1 BY <2>2, <5>1 DEF Stacked, k
    <5> QED BY <1>8, <4>1, <4>2, <5>2
   <4>3. CASE m # 0
    <5>1. frames # <<>> BY <4>1, <4>3 DEF m
    <5>2. p[1] = 1 BY <2>2, <5>1 DEF Stacked
    <5>3. 1 \in 1 .. m BY <1>3, <4>3
    <5> QED BY <1>8, <4>1, <5>2, <5>3
   <4> QED BY <4>2, <4>3
  <3>2. ASSUME NEW f \in 1 .. m + 1
        PROVE  q[f] + Held(frames'[f]) = IF f = m + 1 THEN k ELSE q[f + 1]
   <4>1. CASE f = m + 1 BY <1>3, <1>4, <1>5, <1>8, <4>1
   <4>2. CASE f = m /\ f \in 1 .. m
    <5>1. p[f] + Held(frames[f]) = k BY <2>2, <4>2 DEF Stacked, m, k
    <5>2. q[f] = p[f] /\ Held(frames'[f]) = Held(frames[f]) /\ f + 1 = m + 1 /\ f # m + 1
      BY <1>3, <1>6, <1>8, <4>2
    <5> QED BY <1>8, <5>1, <5>2
   <4>3. CASE f # m /\ f \in 1 .. m
    <5>1. p[f] + Held(frames[f]) = p[f + 1] BY <2>2, <4>3 DEF Stacked, m
    <5>2. f + 1 \in 1 .. m /\ f # m + 1 BY <1>3, <4>3
    <5>3. q[f] = p[f] /\ Held(frames'[f]) = Held(frames[f]) /\ q[f + 1] = p[f + 1]
      BY <1>6, <1>8, <4>3, <5>2
    <5> QED BY <5>1, <5>2, <5>3
   <4> QED BY <1>3, <4>1, <4>2, <4>3
  <3>3. readers'[1].frame = 0 BY <1>3, <1>7, <2>2 DEF Stacked
  <3>4. ASSUME NEW f \in 1 .. m + 1, NEW h \in 1 .. Held(frames'[f])
        PROVE  readers'[q[f] + h].frame = f /\ readers'[q[f] + h].kind = HeldKind(frames'[f], h)
   <4>1. f \in 1 .. m BY <1>3, <1>4, <1>5
   <4>2. h \in 1 .. Held(frames[f]) /\ q[f] = p[f] BY <1>6, <1>8, <4>1
   <4>3. readers[p[f] + h].frame = f /\ readers[p[f] + h].kind = HeldKind(frames[f], h)
     BY <2>2, <4>1, <4>2 DEF Stacked, m
   <4>4. p[f] + h \in 1 .. k
    <5>1. p[f] \in Nat /\ Held(frames[f]) \in Nat /\ p[f] + Held(frames[f]) <= k
      BY <1>6, <1>8, <1>10, <4>1
    <5> QED BY <1>3, <4>2, <5>1
   <4> QED BY <1>6, <1>7, <4>1, <4>2, <4>3, <4>4
  <3>5. ASSUME NEW j \in 2 .. k
        PROVE  /\ readers'[j].frame \in 1 .. m + 1
               /\ j - q[readers'[j].frame] \in 1 .. Held(frames'[readers'[j].frame])
   <4>1. /\ readers[j].frame \in 1 .. m
         /\ j - p[readers[j].frame] \in 1 .. Held(frames[readers[j].frame])
     BY <2>2 DEF Stacked, m, k
   <4>2. readers'[j].frame = readers[j].frame BY <1>3, <1>7
   <4>3. readers[j].frame \in 1 .. m + 1 BY <1>3, <4>1
   <4> QED BY <1>6, <1>8, <4>1, <4>2, <4>3
  <3> QED BY <1>5, <1>7, <3>1, <3>2, <3>3, <3>4, <3>5 DEF Stacked
 <2>5. Counted(q)'
  <3>1. ASSUME NEW f \in 1 .. m + 1, readers'[q[f]].kind # "decrypt"
        PROVE  readers'[q[f]].alength = frames'[f].header + frames'[f].read
   <4>1. CASE f = m + 1
    <5>1. readers'[k].alength = new.header BY <1>3, <1>7, <1>8, <2>3, <3>1, <4>1 DEF k
    <5>2. new.header + 0 = new.header BY <1>4
    <5> QED BY <1>5, <1>8, <4>1, <5>1, <5>2
   <4>2. CASE f \in 1 .. m
    <5>1. q[f] = p[f] /\ q[f] \in 1 .. k BY <1>8, <4>2
    <5> QED BY <1>5, <1>7, <2>3, <3>1, <4>2, <5>1
   <4> QED BY <1>3, <4>1, <4>2
  <3> QED BY <1>5, <3>1 DEF Counted
 <2>6. Placed'
  <3>1. \A f \in 1 .. m + 1 : frames'[f].sub = Inside(frames'[f])
   <4>1. \A f \in 1 .. m : frames[f].sub = Inside(frames[f])
     BY <2>1, <2>2 DEF Placed, Inside, m
   <4>2. \A f \in 1 .. m : frames'[f].sub = Inside(frames'[f]) BY <1>6, <4>1
   <4>3. frames'[m + 1].sub = Inside(frames'[m + 1]) BY <1>4, <1>5
   <4> QED BY <1>3, <4>2, <4>3
  <3>2. ~At("parse")'
   <4>1. SUFFICES ASSUME At("parse")' PROVE FALSE OBVIOUS
   <4>2. new.i <= Len(new.script) /\ new.script[new.i] = "parse" BY <1>5, <4>1 DEF At, Step
   <4>3. new.i \in 1 .. Len(new.script) BY <1>4, <4>2
   <4> QED BY <1>4, <4>2, <4>3, ParseOwns
  <3> QED BY <1>5, <2>1, <3>1, <3>2 DEF Placed, Inside
 <2> QED BY <2>4, <2>5, <2>6
<1>13. q \in [1 .. Len(frames') -> 1 .. Top'] /\ Arranged(q)'
  BY <1>5, <1>7, <1>8, <1>11, <1>12 DEF Arranged
<1> QED BY <1>9, <1>13 DEF ParseInv

\* ops_parse_one_packet reads the length.
LEMMA LengthStep ==
  ASSUME ParseInv, ReadLength PROVE ParseInv'
<1>1. Typed /\ mode = "length" /\ ~Ending /\ (Clean <=> ~failed)
  BY DEF ParseInv, ReadLength, Ending, Clean
<1>2. accumulate' \in BOOLEAN /\ decrypt' \in BOOLEAN /\ result' \in {0, 1}
  BY <1>1 DEF ReadLength, rest, Typed
<1>3. ASSUME NEW script \in Handlers, NEW len \in 0 .. MaxLen, NEW indet \in BOOLEAN,
             NEW header \in {1, 2}
      PROVE  /\ Opened(script, len, indet, header) \in FrameSet
             /\ Opened(script, len, indet, header).script = script
             /\ Opened(script, len, indet, header).i = 1
             /\ Opened(script, len, indet, header).read = 0
             /\ Opened(script, len, indet, header).sub = FALSE
             /\ Opened(script, len, indet, header).header = header
 <2>1. script \in Scripts BY HandlersHaveLayouts
 <2> QED BY <2>1 DEF Opened, FrameSet
<1>4. ASSUME NEW p, Placed PROVE readers[Top].kind # "decrypt" => readers[Top].alength = 1
  BY <1>1, <1>4 DEF Placed
<1>5. CASE /\ \E script \in Handlers :
                MayOpen(script) /\ frames' = Append(frames, Opened(script, 0, TRUE, 1))
           /\ mode' = "body" /\ UNCHANGED <<readers, errors, failed>>
 <2>1. PICK script \in Handlers :
         MayOpen(script) /\ frames' = Append(frames, Opened(script, 0, TRUE, 1))
   BY <1>5
 <2> DEFINE new == Opened(script, 0, TRUE, 1)
 <2>2. /\ new \in FrameSet /\ new.script = script /\ new.i = 1 /\ new.read = 0
       /\ new.sub = FALSE /\ new.header = 1
  <3>1. 0 \in 0 .. MaxLen /\ TRUE \in BOOLEAN /\ 1 \in {1, 2} OBVIOUS
  <3> QED BY <1>3, <3>1
 <2> HIDE DEF new
 <2>3. OpensOn(frames, new) BY <1>1, <2>1 DEF OpensOn, Typed, new
 <2>4. SameReaders
  <3>1. readers \in Seq(ReaderSet) /\ readers' = readers BY <1>1, <1>5 DEF Typed
  <3> QED BY <3>1 DEF SameReaders, Top
 <2>5. CountedOn(frames, new)
  <3>1. readers' = readers BY <1>5
  <3> QED BY <1>4, <2>2, <3>1 DEF CountedOn, Counted
 <2>6. mode' = "body" /\ TypedFlags' /\ failed' = failed
   BY <1>1, <1>2, <1>5 DEF TypedFlags, Typed
 <2>7. MayOpen(new.script) BY <2>1, <2>2
 <2> QED BY <1>1, <2>2, <2>3, <2>4, <2>5, <2>6, <2>7, OpenStep
<1>6. CASE /\ ~Stale
           /\ \E c \in Answers(1), script \in Handlers, len \in 0 .. MaxLen :
                /\ MayOpen(script)
                /\ frames' = Append(Charged(c), Opened(script, len, FALSE, 2))
                /\ readers' = Answered(c)
           /\ mode' = "body" /\ UNCHANGED <<errors, failed>>
 <2>1. PICK c \in Answers(1), script \in Handlers, len \in 0 .. MaxLen :
         /\ MayOpen(script)
         /\ frames' = Append(Charged(c), Opened(script, len, FALSE, 2))
         /\ readers' = Answered(c)
   BY <1>6
 <2> DEFINE new == Opened(script, len, FALSE, 2)
            fs == Charged(c)
 <2>2. /\ new \in FrameSet /\ new.script = script /\ new.i = 1 /\ new.read = 0
       /\ new.sub = FALSE /\ new.header = 2
   BY <1>3
 <2> HIDE DEF new, fs
 <2>3. OpensOn(fs, new)
  <3>1. /\ fs \in Seq(FrameSet) /\ Len(fs) = Len(frames)
        /\ \A f \in 1 .. Len(frames) :
             fs[f] = [frames[f] EXCEPT !.read = frames[f].read + ChargedBy(c, f)]
    BY <1>1, ChargedFacts DEF fs
  <3>2. ASSUME NEW f \in 1 .. Len(frames)
        PROVE  fs[f].script = frames[f].script /\ fs[f].i = frames[f].i /\ fs[f].sub = frames[f].sub
    BY <1>1, <3>1, TypedFacts DEF FrameSet
  <3>3. frames' = Append(fs, new) BY <2>1 DEF fs, new
  <3> QED BY <3>1, <3>2, <3>3 DEF OpensOn
 <2>4. SameReaders BY <1>1, <2>1, AnsweredFacts DEF SameReaders
 <2>5. CountedOn(fs, new)
  <3>1. ASSUME NEW p \in [1 .. Len(frames) -> 1 .. Top], Stacked(p), Counted(p), Placed
        PROVE  /\ \A f \in 1 .. Len(frames) : readers[p[f]].kind # "decrypt" =>
                    readers'[p[f]].alength = fs[f].header + fs[f].read
               /\ readers[Top].kind # "decrypt" => readers'[Top].alength = new.header
   <4>1. \A f \in 1 .. Len(frames) : Own(frames[f]) BY <1>1, WaitingOwn DEF Waits
   <4>2. /\ readers'[Top].alength = readers[Top].alength + 1
         /\ \A f \in 1 .. Len(frames) : readers[p[f]].kind # "decrypt" =>
              readers'[p[f]].alength = fs[f].header + fs[f].read
     BY <1>1, <2>1, <3>1, <4>1, ChargeCounts DEF fs
   <4>3. readers[Top].kind # "decrypt" => readers[Top].alength = 1 BY <1>4, <3>1
   <4> QED BY <2>2, <4>2, <4>3
  <3> QED BY <3>1 DEF CountedOn
 <2>6. mode' = "body" /\ TypedFlags' /\ failed' = failed
   BY <1>1, <1>2, <1>6 DEF TypedFlags, Typed
 <2>7. MayOpen(new.script) BY <2>1, <2>2
 <2> QED BY <1>1, <2>2, <2>3, <2>4, <2>5, <2>6, <2>7, OpenStep
<1>7. CASE /\ mode' = Loops(0) /\ failed' = TRUE
           /\ Pushed \/ (NoMore /\ errors' = errors)
           /\ UNCHANGED <<frames, readers>>
 <2>1. mode' = "return" /\ mode' \in Modes /\ TypedFlags' /\ ~Ending' /\ mode' # "body"
  <3>1. errors' \in BOOLEAN
   <4>1. errors \in BOOLEAN BY <1>1 DEF Typed
   <4>2. errors' = TRUE \/ errors' = errors BY <1>7 DEF Pushed
   <4> QED BY <4>1, <4>2
  <3>2. mode' = "return" /\ failed' = TRUE BY <1>7 DEF Loops
  <3> QED BY <1>2, <3>1, <3>2 DEF Modes, TypedFlags, Ending
 <2>2. frames # <<>> => F.i <= Len(F.script) /\ F.script[F.i] = "parse"
   BY <1>1, TypedFacts DEF Typed, Waits
 <2>3. ~Clean' BY <1>7 DEF Clean
 <2> QED BY <1>7, <2>1, <2>2, <2>3, StayStep
<1> QED BY <1>5, <1>6, <1>7 DEF ReadLength

\* ops_parse returns to the handler that called it, or to its caller.
LEMMA ReturnsStep ==
  ASSUME ParseInv, Return PROVE ParseInv'
<1>1. Typed /\ mode = "return" /\ ~Ending BY DEF ParseInv, Return, Ending
<1>2. Status \in {0, 1} /\ Status \in {-1, 0, 1} BY DEF Status
<1>3. readers' = readers /\ failed' = failed /\ errors' = errors /\ accumulate' = accumulate
      /\ decrypt' = decrypt
  BY DEF Return
<1>4. CASE frames = <<>>
 <2>1. mode' = "done" /\ result' = Status /\ frames' = frames BY <1>4 DEF Return
 <2>2. mode' \in Modes /\ mode' # "body" /\ ~Ending' /\ TypedFlags'
   BY <1>1, <1>2, <1>3, <2>1 DEF Modes, Ending, TypedFlags, Typed
 <2>3. ASSUME NEW p, Arranged(p), Clean' PROVE Clean /\ Placed'
  <3>1. Clean BY <1>1, <1>3, <2>3 DEF Clean
  <3>2. Placed BY <2>3, <3>1 DEF Arranged
  <3>3. frames' = frames /\ Len(frames) = 0 BY <1>4, <2>1
  <3> QED BY <2>1, <2>2, <3>1, <3>2, <3>3 DEF Placed, At
 <2> QED BY <1>3, <1>4, <2>1, <2>2, <2>3, StayStep
<1>5. CASE frames # <<>>
 <2>1. /\ mode' = "body" /\ result' = result
       /\ frames' = [frames EXCEPT ![Len(frames)].ret = Status, ![Len(frames)].i = @ + 1]
   BY <1>5 DEF Return
 <2>2. F \in FrameSet /\ F = frames[Len(frames)] /\ Len(frames) \in 1 .. Len(frames)
   BY <1>1, <1>5, TypedFacts DEF Typed
 <2> DEFINE j == F.i + 1
            s == Status
 <2>3. j \in Nat /\ s \in {-1, 0, 1} BY <1>2, <2>2, FrameTypes
 <2>4. F.i <= Len(F.script) /\ Step = "parse" BY <1>1, <2>2 DEF Typed, Waits, Step
 <2> HIDE DEF j, s
 <2> DEFINE g == [F EXCEPT !.ret = s, !.i = j]
 <2>5. frames' = [frames EXCEPT ![Len(frames)] = g] BY <2>1, <2>2 DEF j, s
 <2>6. /\ g \in FrameSet /\ g.script = F.script /\ g.header = F.header /\ g.indet = F.indet
       /\ g.len = F.len /\ g.read = F.read /\ g.i = j /\ g.sub = F.sub
   BY <2>2, <2>3 DEF FrameSet
 <2> HIDE DEF g
 <2>7. TypedFlags' BY <1>1, <1>3, <2>1 DEF Typed, TypedFlags
 <2>8. Step \notin {"enter", "enter_v3", "leave"} /\ Step \notin Pushes /\ Step # "pop"
   BY <2>4 DEF Pushes
 <2> QED BY <1>1, <1>3, <1>5, <2>1, <2>4, <2>5, <2>6, <2>7, <2>8, QuietStep DEF j
<1> QED BY <1>4, <1>5

\* The packet is handed out and those around it go on as they were.
LEMMA FinishStep ==
  ASSUME ParseInv, Finish PROVE ParseInv'
<1>1. PICK p \in [1 .. Len(frames) -> 1 .. Top] : Arranged(p) BY DEF ParseInv
<1>2. /\ Typed /\ mode = "finish" /\ readers' = Renewed(readers) /\ frames' = Front(frames)
      /\ mode' = Loops(F.ret) /\ failed' = (failed \/ F.ret # 1)
      /\ UNCHANGED <<errors, rest>>
  BY DEF ParseInv, Finish
<1> DEFINE m == Len(frames)
           k == Top
<1>3. /\ m \in 1 .. m /\ F = frames[m] /\ k \in Nat \ {0} /\ m \in Nat /\ frames # <<>>
      /\ F.script \in Scripts /\ F.i \in 1 .. Len(F.script) + 1 /\ F \in FrameSet
  BY <1>2, TypedFacts DEF Typed, Ending
<1>4. m - 1 \in Nat /\ \A f \in 1 .. m - 1 : f \in 1 .. m /\ f < m /\ f # m BY <1>3
<1>5. mode' \in {"tag", "return"} /\ F.ret \in {-1, 0, 1}
 <2>1. F.ret \in {-1, 0, 1} BY <1>3, FrameTypes
 <2> QED BY <1>2, <2>1 DEF Loops
<1>6. mode' \in Modes /\ mode' # "body" /\ ~Ending' /\ TypedFlags'
  BY <1>2, <1>5 DEF Modes, Ending, TypedFlags, Typed, rest
<1>7. /\ frames' \in Seq(FrameSet) /\ Len(frames') = m - 1
      /\ \A f \in 1 .. m - 1 : frames'[f] = frames[f]
 <2>1. frames \in Seq(FrameSet) BY <1>2 DEF Typed
 <2> QED BY <1>2, <1>3, <2>1, FrontFacts
<1>8. /\ readers' \in Seq(ReaderSet) /\ Top' = k /\ readers'[k].alength = 0
      /\ \A j \in 1 .. k : /\ readers'[j].kind = readers[j].kind
                           /\ readers'[j].frame = readers[j].frame
                           /\ j # k => readers'[j].alength = readers[j].alength
 <2> DEFINE r == [readers[k] EXCEPT !.alength = 0]
 <2>1. readers \in Seq(ReaderSet) /\ Len(readers) = k /\ readers[k] \in ReaderSet
   BY <1>2, <1>3 DEF Typed, Top
 <2>2. readers' = [readers EXCEPT ![k] = r] BY <1>2, <2>1 DEF Renewed
 <2>3. r \in ReaderSet /\ r.alength = 0 /\ r.kind = readers[k].kind /\ r.frame = readers[k].frame
   BY <2>1 DEF ReaderSet
 <2> HIDE DEF r, k
 <2>4. /\ readers' \in Seq(ReaderSet) /\ Len(readers') = k /\ readers'[k] = r
       /\ \A j \in 1 .. k : j # k => readers'[j] = readers[j]
   BY <1>3, <2>1, <2>2, <2>3
 <2>5. ASSUME NEW j \in 1 .. k
       PROVE  /\ readers'[j].kind = readers[j].kind
              /\ readers'[j].frame = readers[j].frame
              /\ j # k => readers'[j].alength = readers[j].alength
   BY <2>3, <2>4
 <2> QED BY <2>3, <2>4, <2>5 DEF Top
<1>9. ASSUME NEW f \in 1 .. m - 1
      PROVE  /\ f \in 1 .. m /\ Held(frames[f]) \in Nat \ {0}
             /\ frames[f].i \in 1 .. Len(frames[f].script) + 1
             /\ Nests(frames[f].script) => f <= MaxNest
             /\ frames[f].i <= Len(frames[f].script) /\ frames[f].script[frames[f].i] = "parse"
 <2>1. f \in 1 .. m /\ Waits(f) BY <1>4 DEF Waits
 <2>2. Held(frames[f]) \in 1 .. 2 BY <1>2, <2>1, WaitingOwn
 <2> QED BY <1>2, <2>1, <2>2 DEF Typed
<1> HIDE DEF m, k
<1>10. Typed'
 <2>1. readers' # <<>> /\ readers'[1].kind = "base"
  <3>1. readers[1].kind = "base" /\ 1 \in 1 .. k BY <1>2, <1>3 DEF Typed
  <3>2. Len(readers') = k BY <1>8 DEF Top
  <3> QED BY <1>3, <1>8, <3>1, <3>2
 <2>2. ASSUME NEW f \in 1 .. m - 1
       PROVE  /\ frames'[f].i \in 1 .. Len(frames'[f].script) + 1
              /\ Nests(frames'[f].script) => f <= MaxNest
              /\ frames'[f].i <= Len(frames'[f].script)
              /\ frames'[f].script[frames'[f].i] = "parse"
   BY <1>7, <1>9
 <2> QED BY <1>6, <1>7, <1>8, <2>1, <2>2 DEF Typed, TypedFlags
<1>11. /\ p \in [1 .. m -> 1 .. k]
       /\ \A f \in 1 .. m : /\ p[f] \in Nat \ {0} /\ p[f] + Held(frames[f]) <= k
                            /\ \A e \in f + 1 .. m : p[f] + Held(frames[f]) <= p[e]
  BY <1>1 DEF Arranged, Laid, m, k
<1>12. PICK q \in [1 .. m - 1 -> 1 .. k] : \A f \in 1 .. m - 1 : q[f] = p[f]
 <2> DEFINE q == [f \in 1 .. m - 1 |-> p[f]]
 <2>1. q \in [1 .. m - 1 -> 1 .. k] /\ \A f \in 1 .. m - 1 : q[f] = p[f] BY <1>4, <1>11
 <2> QED BY <2>1
<1>13. Laid(q)'
 <2>1. q \in [1 .. m - 1 -> Nat \ {0}] BY <1>3, <1>12
 <2>2. ASSUME NEW f \in 1 .. m - 1
       PROVE  /\ q[f] + Held(frames'[f]) <= k
              /\ \A e \in f + 1 .. m - 1 : q[f] + Held(frames'[f]) <= q[e]
  <3>1. f \in 1 .. m /\ q[f] = p[f] /\ frames'[f] = frames[f] BY <1>4, <1>7, <1>12
  <3>2. q[f] + Held(frames'[f]) <= k BY <1>11, <3>1
  <3>3. ASSUME NEW e \in f + 1 .. m - 1 PROVE q[f] + Held(frames'[f]) <= q[e]
   <4>1. e \in 1 .. m - 1 /\ e \in f + 1 .. m BY <1>3, <3>1
   <4> QED BY <1>11, <1>12, <3>1, <4>1
  <3> QED BY <3>2, <3>3
 <2>3. Len(frames') = m - 1 BY <1>7
 <2> QED BY <1>8, <2>1, <2>2, <2>3 DEF Laid
<1>14. ASSUME Clean' PROVE Stacked(q)' /\ Counted(q)' /\ Placed'
 <2>1. ~failed /\ F.ret = 1 /\ Clean BY <1>2, <1>14 DEF Clean
 <2>2. Stacked(p) /\ Counted(p) /\ Placed BY <1>1, <2>1 DEF Arranged
 <2>3. Held(F) = 0 /\ p[m] = k
  <3>1. Held(F) = 0 BY <1>2, <1>3, <2>2 DEF Placed, Ending, m
  <3>2. p[m] + Held(F) = k BY <1>1, <1>2, <1>3, <2>2, TopReader DEF m, k
  <3>3. p[m] \in Nat BY <1>3, <1>11
  <3> QED BY <3>1, <3>2, <3>3
 <2>4. ASSUME NEW f \in 1 .. m - 1
       PROVE  /\ f \in 1 .. m /\ f # m /\ f + 1 \in 1 .. m /\ q[f] = p[f] /\ frames'[f] = frames[f]
              /\ p[f] \in 1 .. k /\ p[f] < k
              /\ q[f] + Held(frames'[f]) = p[f + 1]
  <3>1. /\ f \in 1 .. m /\ f # m /\ f + 1 \in 1 .. m /\ q[f] = p[f] /\ frames'[f] = frames[f]
    BY <1>3, <1>4, <1>7, <1>12
  <3>2. p[f] \in 1 .. k /\ p[f] + Held(frames[f]) <= k /\ Held(frames[f]) \in Nat \ {0}
    BY <1>9, <1>11, <3>1
  <3>3. p[f] < k BY <1>3, <3>2
  <3>4. p[f] + Held(frames[f]) = p[f + 1] BY <2>2, <3>1 DEF Stacked, m
  <3> QED BY <3>1, <3>2, <3>3, <3>4
 <2>5. Stacked(q)'
  <3>1. IF frames' = <<>> THEN k = 1 ELSE q[1] = 1
   <4>1. p[1] = 1 BY <1>3, <2>2 DEF Stacked
   <4>2. CASE m = 1
    <5>1. frames' = <<>> BY <1>7, <4>2
    <5> QED BY <2>3, <4>1, <4>2, <5>1
   <4>3. CASE m # 1
    <5>1. 1 \in 1 .. m - 1 /\ m - 1 # 0 BY <1>3, <4>3
    <5>2. frames' # <<>> BY <1>7, <5>1
    <5> QED BY <2>4, <4>1, <5>1, <5>2
   <4> QED BY <4>2, <4>3
  <3>2. ASSUME NEW f \in 1 .. m - 1
        PROVE  q[f] + Held(frames'[f]) = IF f = m - 1 THEN k ELSE q[f + 1]
   <4>1. CASE f = m - 1
    <5>1. f + 1 = m BY <1>3, <4>1
    <5> QED BY <2>3, <2>4, <4>1, <5>1
   <4>2. CASE f # m - 1
    <5>1. f + 1 \in 1 .. m - 1 BY <1>3, <4>2
    <5> QED BY <2>4, <4>2, <5>1
   <4> QED BY <4>1, <4>2
  <3>3. readers'[1].frame = 0
   <4>1. 1 \in 1 .. k /\ readers[1].frame = 0 BY <1>3, <2>2 DEF Stacked
   <4> QED BY <1>8, <4>1
  <3>4. ASSUME NEW f \in 1 .. m - 1, NEW h \in 1 .. Held(frames'[f])
        PROVE  readers'[q[f] + h].frame = f /\ readers'[q[f] + h].kind = HeldKind(frames'[f], h)
   <4>1. f \in 1 .. m /\ q[f] = p[f] /\ frames'[f] = frames[f] /\ h \in 1 .. Held(frames[f])
     BY <2>4
   <4>2. readers[p[f] + h].frame = f /\ readers[p[f] + h].kind = HeldKind(frames[f], h)
     BY <2>2, <4>1 DEF Stacked, m
   <4>3. p[f] + h \in 1 .. k
    <5>1. p[f] \in Nat /\ Held(frames[f]) \in Nat /\ p[f] + Held(frames[f]) <= k
      BY <1>9, <1>11, <4>1
    <5> QED BY <1>3, <4>1, <5>1, SMTT(30)
   <4> QED BY <1>8, <4>1, <4>2, <4>3
  <3>5. ASSUME NEW j \in 2 .. k
        PROVE  /\ readers'[j].frame \in 1 .. m - 1
               /\ j - q[readers'[j].frame] \in 1 .. Held(frames'[readers'[j].frame])
   <4>1. /\ readers[j].frame \in 1 .. m
         /\ j - p[readers[j].frame] \in 1 .. Held(frames[readers[j].frame])
     BY <2>2 DEF Stacked, m, k
   <4>2. readers'[j].frame = readers[j].frame BY <1>3, <1>8
   <4>3. readers[j].frame # m
    <5>1. SUFFICES ASSUME readers[j].frame = m PROVE FALSE OBVIOUS
    <5>2. j - p[m] \in 1 .. 0 BY <1>3, <2>3, <4>1, <5>1
    <5> QED BY <5>2
   <4>4. readers[j].frame \in 1 .. m - 1 BY <1>3, <4>1, <4>3
   <4> QED BY <2>4, <4>1, <4>2, <4>4
  <3>6. Len(frames') = m - 1 BY <1>7
  <3> QED BY <1>8, <3>1, <3>2, <3>3, <3>4, <3>5, <3>6 DEF Stacked
 <2>6. Counted(q)'
  <3>1. ASSUME NEW f \in 1 .. m - 1, readers'[q[f]].kind # "decrypt"
        PROVE  readers'[q[f]].alength = frames'[f].header + frames'[f].read
   <4>1. q[f] = p[f] /\ p[f] \in 1 .. k /\ p[f] # k /\ frames'[f] = frames[f] /\ f \in 1 .. m
     BY <1>3, <2>4
   <4>2. readers[p[f]].kind # "decrypt" /\ readers'[q[f]].alength = readers[p[f]].alength
     BY <1>8, <3>1, <4>1
   <4>3. readers[p[f]].alength = frames[f].header + frames[f].read
     BY <2>2, <4>1, <4>2 DEF Counted, m
   <4> QED BY <4>1, <4>2, <4>3
  <3>2. Len(frames') = m - 1 BY <1>7
  <3> QED BY <3>1, <3>2 DEF Counted
 <2>7. Placed'
  <3>1. \A f \in 1 .. m - 1 : frames'[f].sub = Inside(frames'[f])
   <4>1. \A f \in 1 .. m : f # m => frames[f].sub = Inside(frames[f])
     BY <2>2 DEF Placed, Inside, m
   <4> QED BY <2>4, <4>1
  <3>2. Len(frames') = m - 1 /\ ~At("parse")' BY <1>6, <1>7 DEF At
  <3> QED BY <1>5, <1>6, <1>8, <3>1, <3>2 DEF Placed, Inside
 <2> QED BY <2>5, <2>6, <2>7
<1>15. q \in [1 .. Len(frames') -> 1 .. Top'] /\ Arranged(q)'
 <2>1. Len(frames') = m - 1 BY <1>7
 <2> QED BY <1>8, <1>12, <1>13, <1>14, <2>1 DEF Arranged
<1> QED BY <1>10, <1>15 DEF ParseInv

-----------------------------------------------------------------------------
(* The theorems. *)

\* At the start there is one reader and no packet.
LEMMA StartsArranged == Init => ParseInv
<1>1. SUFFICES ASSUME Init PROVE ParseInv OBVIOUS
<1> DEFINE base == [kind |-> "base", frame |-> 0, left |-> StreamLen, opened |-> FALSE,
                    alength |-> 0]
<1>2. /\ mode = "tag" /\ frames = <<>> /\ readers = <<base>> /\ errors = FALSE /\ failed = FALSE
      /\ accumulate \in BOOLEAN /\ decrypt \in BOOLEAN /\ result = 1
  BY <1>1 DEF Init
<1>3. base \in ReaderSet /\ base.kind = "base" /\ base.frame = 0 /\ base.alength = 0
  BY DEF ReaderSet, ReaderKinds
<1> HIDE DEF base
<1>4. /\ readers \in Seq(ReaderSet) /\ readers # <<>> /\ Top = 1 /\ readers[1] = base
      /\ frames \in Seq(FrameSet) /\ Len(frames) = 0
  BY <1>2, <1>3 DEF Top
<1>5. Typed
 <2>1. mode \in Modes /\ ~(mode = "body" \/ Ending) BY <1>2 DEF Modes, Ending
 <2>2. \A f \in 1 .. Len(frames) : FALSE BY <1>4
 <2>3. readers[1].kind = "base" BY <1>3, <1>4
 <2> QED BY <1>2, <1>4, <2>1, <2>2, <2>3 DEF Typed
<1>6. PICK p \in [1 .. 0 -> 1 .. 1] : TRUE
 <2>1. [f \in 1 .. 0 |-> 1] \in [1 .. 0 -> 1 .. 1] OBVIOUS
 <2> QED BY <2>1
<1>7. Laid(p)
 <2>1. p \in [1 .. 0 -> Nat \ {0}] OBVIOUS
 <2> QED BY <1>4, <2>1 DEF Laid
<1>8. Stacked(p) /\ Counted(p) BY <1>2, <1>3, <1>4 DEF Stacked, Counted
<1>9. Placed
 <2>1. ~Ending /\ ~At("parse") /\ mode # "length" /\ mode \notin {"again", "finish"}
   BY <1>2 DEF Ending, At
 <2> QED BY <1>3, <1>4, <2>1 DEF Placed
<1>10. p \in [1 .. Len(frames) -> 1 .. Top] /\ Arranged(p) BY <1>4, <1>7, <1>8, <1>9 DEF Arranged
<1> QED BY <1>5, <1>10 DEF ParseInv

\* Every step keeps the packets and readers arranged.
LEMMA NextArranged == ParseInv /\ [Next]_vars => ParseInv'
<1>1. SUFFICES ASSUME ParseInv, [Next]_vars PROVE ParseInv' OBVIOUS
<1>2. CASE UNCHANGED vars
 <2>1. /\ frames' = frames /\ readers' = readers /\ mode' = mode /\ failed' = failed
       /\ F' = F /\ Top' = Top
   BY <1>2 DEF vars, F, Top
 <2>2. Typed BY <1>1 DEF ParseInv
 <2>3. mode' \in Modes /\ TypedFlags' /\ (frames = <<>> => mode' # "body" /\ ~Ending')
   BY <1>2, <2>1, <2>2 DEF vars, Typed, TypedFlags, Ending
 <2>4. frames # <<>> /\ mode' \in {"tag", "length", "return"} =>
         F.i <= Len(F.script) /\ F.script[F.i] = "parse"
   BY <2>1, <2>2, TypedFacts DEF Typed, Waits
 <2>5. ASSUME NEW p, Arranged(p), Clean' PROVE Clean /\ Placed'
  <3>1. Clean BY <2>1, <2>5 DEF Clean, Ending
  <3>2. Placed BY <2>5, <3>1 DEF Arranged
  <3> QED BY <2>1, <3>1, <3>2 DEF Placed, Ending, At, Step
 <2> QED BY <1>1, <2>1, <2>3, <2>4, <2>5, StayStep
<1>3. CASE Next
 <2>1. ReadTag \/ ReadLength \/ HandlerStep \/ ConsumeRest \/ ConsumeFailed \/ Finish
       \/ Return \/ UNCHANGED vars
   BY <1>3 DEF Next, Stopped
 <2>2. CASE ReadTag \/ ReadLength BY <1>1, <2>2, TagStep, LengthStep
 <2>3. CASE HandlerStep BY <1>1, <2>3, HandlerKeeps
 <2>4. CASE ConsumeRest \/ ConsumeFailed BY <1>1, <2>4, EndStep
 <2>5. CASE Finish BY <1>1, <2>5, FinishStep
 <2>6. CASE Return BY <1>1, <2>6, ReturnsStep
 <2> QED BY <1>2, <2>1, <2>2, <2>3, <2>4, <2>5, <2>6
<1> QED BY <1>1, <1>2, <1>3

\* The packets and their readers are arranged as the layouts say, for streams, packets and
\* nesting of any size.
THEOREM ParseInvariant == Spec => []ParseInv
<1>1. Init => ParseInv BY StartsArranged
<1>2. ParseInv /\ [Next]_vars => ParseInv' BY NextArranged
<1> QED BY <1>1, <1>2, PTL DEF Spec

\* Every variable holds a value of its type, and no more packets are open than may be.
THEOREM ParseTypes == Spec => []TypeOK
<1>1. ASSUME ParseInv PROVE TypeOK
 <2>1. Typed BY <1>1 DEF ParseInv
 <2>2. Len(frames) \in Nat /\ Top \in Nat BY <2>1, TypedFacts
 <2>3. Len(frames) <= MaxNest + 1
  <3>1. CASE Len(frames) <= 1 BY <2>2, <3>1
  <3>2. CASE Len(frames) > 1
   <4> DEFINE f == Len(frames) - 1
   <4>1. f \in 1 .. Len(frames) /\ f < Len(frames) /\ f \in Nat BY <2>2, <3>2
   <4> HIDE DEF f
   <4>2. /\ frames[f].script \in Scripts /\ frames[f].i \in 1 .. Len(frames[f].script) + 1
         /\ frames[f].i <= Len(frames[f].script) /\ frames[f].script[frames[f].i] = "parse"
         /\ Nests(frames[f].script) => f <= MaxNest
     BY <2>1, <4>1, TypedFacts DEF Typed, Waits
   <4>3. frames[f].script \in Seq(Steps) /\ Len(frames[f].script) \in Nat BY <4>2, LayoutFits
   <4>4. Nests(frames[f].script)
    <5>1. frames[f].i \in DOMAIN frames[f].script BY <4>2, <4>3
    <5> QED BY <4>2, <5>1 DEF Nests, ToSet
   <4>5. f <= MaxNest BY <4>2, <4>4
   <4> QED BY <2>2, <4>5 DEF f
  <3> QED BY <2>2, <3>1, <3>2
 <2>4. ASSUME NEW f \in 1 .. Len(frames)
       PROVE  /\ frames[f].script \in Seq(Steps)
              /\ frames[f].i \in 1 .. Len(frames[f].script) + 1
              /\ frames[f].len \in 0 .. MaxLen /\ frames[f].read \in Nat
              /\ frames[f].ret \in {-1, 0, 1} /\ frames[f].indet \in BOOLEAN
  <3>1. frames[f] \in FrameSet /\ frames[f].script \in Scripts BY <2>1, TypedFacts
  <3>2. frames[f].i \in 1 .. Len(frames[f].script) + 1 BY <2>1 DEF Typed
  <3> QED BY <3>1, <3>2, LayoutFits, FrameTypes
 <2>5. \A j \in 1 .. Top : readers[j].left \in Int /\ readers[j].alength \in Nat
   BY <2>1, TypedFacts DEF ReaderSet
 <2>6. {errors, failed, accumulate, decrypt} \subseteq BOOLEAN BY <2>1 DEF Typed
 <2> QED BY <2>1, <2>3, <2>4, <2>5, <2>6 DEF TypeOK, Typed
<1> QED BY <1>1, ParseInvariant, PTL

\* As long as no packet has failed, a packet that succeeds was read to its end and no
\* further and is handed out as it was accumulated, header and body.
THEOREM ParsedWhole == Spec => []PacketWhole
<1>1. ASSUME ParseInv PROVE PacketWhole
 <2>1. SUFFICES ASSUME mode = "finish", F.ret = 1, ~failed
                PROVE  /\ ~F.indet => F.read = F.len
                       /\ readers[Top].kind # "decrypt" =>
                            readers[Top].alength = F.header + F.read
   BY DEF PacketWhole, PacketConsumed, PacketEndWhole
 <2>2. Typed /\ frames # <<>> BY <1>1, <2>1 DEF ParseInv, Typed, Ending
 <2>3. PICK p \in [1 .. Len(frames) -> 1 .. Top] : Arranged(p) BY <1>1 DEF ParseInv
 <2>4. Stacked(p) /\ Counted(p) /\ Placed BY <2>1, <2>3 DEF Arranged, Clean
 <2>5. Len(frames) \in 1 .. Len(frames) /\ F = frames[Len(frames)] /\ Top \in Nat
   BY <2>2, TypedFacts
 <2>6. p[Len(frames)] = Top
  <3>1. Held(F) = 0 BY <2>1, <2>4, <2>5 DEF Placed, Ending
  <3>2. p[Len(frames)] + Held(F) = Top BY <2>2, <2>4, TopReader
  <3>3. p[Len(frames)] \in Nat BY <2>5
  <3> QED BY <3>1, <3>2, <3>3
 <2>7. readers[Top].kind # "decrypt" => readers[Top].alength = F.header + F.read
   BY <2>4, <2>5, <2>6 DEF Counted
 <2>8. ~F.indet => F.read = F.len BY <2>1, <2>4 DEF Placed
 <2> QED BY <2>7, <2>8
<1> QED BY <1>1, ParseInvariant, PTL

\* As long as no packet has failed, a tag is read from the reader of the innermost open
\* packet, and the readers below belong to open packets in order of nesting.
THEOREM ReadersMatch == Spec => []ReadersMatchPackets
<1>1. ASSUME ParseInv PROVE ReadersMatchPackets
 <2>1. SUFFICES ASSUME mode \in {"tag", "length"}, ~failed
                PROVE  /\ readers[Top].frame = Len(frames) /\ readers[Top].kind # "hash"
                       /\ \A j \in 2 .. Top : readers[j].frame - readers[j - 1].frame \in {0, 1}
   BY DEF ReadersMatchPackets
 <2>2. Typed BY <1>1 DEF ParseInv
 <2>3. PICK p \in [1 .. Len(frames) -> 1 .. Top] : Arranged(p) BY <1>1 DEF ParseInv
 <2>4. Stacked(p) BY <2>1, <2>3 DEF Arranged, Clean, Ending
 <2>5. Len(frames) \in Nat /\ Top \in Nat \ {0} BY <2>2, TypedFacts
 <2>6. ASSUME NEW f \in 1 .. Len(frames)
       PROVE  /\ Held(frames[f]) \in 1 .. 2 /\ HeldKind(frames[f], Held(frames[f])) # "hash"
              /\ p[f] \in Nat /\ Held(frames[f]) \in 1 .. Held(frames[f])
  <3>1. Waits(f) BY <2>1 DEF Waits
  <3>2. Held(frames[f]) \in 1 .. 2 /\ HeldKind(frames[f], Held(frames[f])) # "hash"
    BY <2>2, <3>1, WaitingOwn
  <3> QED BY <2>5, <3>2
 <2>7. readers[Top].frame = Len(frames) /\ readers[Top].kind # "hash"
  <3>1. CASE frames = <<>>
   <4>1. Top = 1 /\ readers[1].frame = 0 /\ readers[1].kind = "base" /\ Len(frames) = 0
     BY <2>2, <2>4, <3>1 DEF Stacked, Typed
   <4> QED BY <4>1
  <3>2. CASE frames # <<>>
   <4>1. Len(frames) \in 1 .. Len(frames) /\ F = frames[Len(frames)] BY <2>2, <3>2, TypedFacts
   <4>2. Held(F) > 0 /\ HeldKind(F, Held(F)) # "hash" BY <2>6, <4>1
   <4> QED BY <2>2, <2>4, <3>2, <4>2, TopReader
  <3> QED BY <3>1, <3>2
 <2>8. ASSUME NEW j \in 2 .. Top PROVE readers[j].frame - readers[j - 1].frame \in {0, 1}
  <3> DEFINE f == readers[j].frame
             h == j - p[f]
  <3>1. f \in 1 .. Len(frames) /\ h \in 1 .. Held(frames[f]) BY <2>4 DEF Stacked
  <3>2. p[f] \in Nat /\ Held(frames[f]) \in 1 .. 2 /\ j \in Nat BY <2>5, <2>6, <3>1
  <3>3. j = p[f] + h /\ h \in Nat BY <3>1, <3>2
  <3>4. readers[j].frame = f OBVIOUS
  <3> HIDE DEF f, h
  <3>5. CASE h > 1
   <4>1. h - 1 \in 1 .. Held(frames[f]) /\ j - 1 = p[f] + (h - 1) BY <3>1, <3>2, <3>3, <3>5
   <4>2. readers[p[f] + (h - 1)].frame = f BY <2>4, <3>1, <4>1 DEF Stacked
   <4> QED BY <3>1, <3>4, <4>1, <4>2
  <3>6. CASE h = 1
   <4>1. j - 1 = p[f] BY <3>2, <3>3, <3>6
   <4>2. CASE f = 1
    <5>1. frames # <<>> BY <2>5, <3>1
    <5>2. p[1] = 1 /\ readers[1].frame = 0 BY <2>4, <5>1 DEF Stacked
    <5> QED BY <3>4, <4>1, <4>2, <5>2
   <4>3. CASE f # 1
    <5> DEFINE g == f - 1
    <5>1. g \in 1 .. Len(frames) /\ g # Len(frames) /\ g + 1 = f BY <2>5, <3>1, <4>3
    <5> HIDE DEF g
    <5>2. p[g] + Held(frames[g]) = p[g + 1] BY <2>4, <5>1 DEF Stacked
    <5>3. Held(frames[g]) \in 1 .. Held(frames[g]) BY <2>6, <5>1
    <5>4. readers[p[g] + Held(frames[g])].frame = g BY <2>4, <5>1, <5>3 DEF Stacked
    <5>5. readers[j - 1].frame = g BY <4>1, <5>1, <5>2, <5>4
    <5> QED BY <2>5, <3>4, <5>1, <5>5
   <4> QED BY <4>2, <4>3
  <3>7. h > 1 \/ h = 1 BY <3>1, <3>3
  <3> QED BY <3>5, <3>6, <3>7
 <2> QED BY <2>7, <2>8
<1> QED BY <1>1, ParseInvariant, PTL

==============================================================================
