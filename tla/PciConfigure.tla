----------------------------- MODULE PciConfigure -----------------------------
(***************************************************************************)
(* LinuxBIOS finds what is on the PCI buses (lib/linuxpci.c: pci_scan_bus) *)
(* and gives it addresses (lib/newpci.c: compute_allocate_resources,       *)
(* assign_resources, enable_resources).  Both walk the tree of bridges,    *)
(* recursively; here each call is a frame on a stack, with what its loop   *)
(* has still to go through.                                                *)
(*                                                                         *)
(* The hardware is what the PCI specification makes of it: a bridge passes *)
(* on what its registers say, and an address register keeps only the bits  *)
(* above its size.  A bus is named by the bridge in front of it.           *)
(***************************************************************************)
EXTENDS Integers, Sequences, FiniteSets, SequencesExt

CONSTANTS N,             \* functions in the machine
          Kinds,         \* of functions: "device", "bridge", "left alone"
          BarSets,       \* what a function may have: sequences of space and size
          PowerUp,       \* bus numbers a bridge may come up with
          LastBus,       \* 0xff
          IoAlign, IoBridgeAlign, MemAlign, OneMeg,
          IoStart, MemStart,
          IoSpace,       \* what a bridge decodes of an I/O address: 16 bits
          Space          \* unsigned long has 32 bits

Fns == 1 .. N
Root == 0
Buses == {Root} \cup Fns
Spaces == {"io", "mem", "pref"}
Sizes == UNION {{bs[i] : i \in DOMAIN bs} : bs \in BarSets}

ASSUME PciAssumption ==
  /\ N \in Nat /\ LastBus \in Nat /\ LastBus > N
  /\ {IoAlign, MemAlign, IoStart, MemStart, IoSpace, Space} \subseteq Nat \ {0}
  /\ {IoBridgeAlign, OneMeg} \subseteq Nat \ {0, 1}
  /\ IoStart < Space /\ MemStart < Space
  /\ \A bs \in BarSets : \E k \in 0 .. 6 : bs \in [1 .. k -> [space : Spaces, size : Nat \ {0}]]
  /\ PowerUp \subseteq [secondary : 0 .. LastBus, subordinate : 0 .. LastBus]

\* Alignments, sizes of registers and where the allocation starts are powers of two.
ASSUME PciAlignment ==
  /\ IoBridgeAlign % IoAlign = 0 /\ IoStart % IoBridgeAlign = 0 /\ IoSpace % IoBridgeAlign = 0
  /\ MemStart % OneMeg = 0
  /\ \A s \in Sizes : LET align == IF s.space = "io" THEN IoAlign ELSE MemAlign
                      IN  s.size % align = 0 \/ align % s.size = 0

VARIABLES on, kind, bars,   \* the machine: where a function is, what it is and needs
          path,             \* the bridges on the way to a bus, the one in front of it included
          numbers,          \* bus number registers of a bridge: secondary, subordinate
          windows,          \* address registers of a bridge
          bar,              \* what the address registers of a function decode
          cmd,              \* command register
          phase, stack,     \* the walk under way, and its frames
          number, subordinate, children, devices,    \* struct pci_bus
          base, limit,      \* iobase, membase, prefmembase and their limits
          address, command, \* base_address and command of struct pci_dev
          wrapped           \* an address has been larger than unsigned long or a register holds

machine == <<on, kind, bars, path>>
hardware == <<numbers, windows, bar, cmd>>
tree == <<number, subordinate, children, devices>>
resources == <<base, limit, address, command, wrapped>>
pciVars == <<machine, hardware, phase, stack, tree, resources>>

Off == -1
Shut == <<1, 0>>

\* Functions are numbered bus by bus, in the order of their devfn.  A bridge has
\* two address registers.
Machines ==
  {m \in [on : [Fns -> 0 .. N], kind : [Fns -> Kinds], bars : [Fns -> BarSets]] :
     \A f \in Fns :
       /\ m.on[f] < f /\ (f > 1 => m.on[f - 1] <= m.on[f])
       /\ m.on[f] # Root => m.kind[m.on[f]] # "device"
       /\ m.kind[f] # "device" => DOMAIN m.bars[f] \subseteq 1 .. 2}

\* The least set with the bus and, with every bus, the one its bridge is on.
Closed(S) == \A b \in S \ {Root} : on[b] \in S
Way(b) == {a \in Fns : \A S \in SUBSET Buses : b \in S /\ Closed(S) => a \in S}

\* Some bridges come up with numbers already, which are overwritten before another
\* bus is looked at if no bridge comes before it on its bus.
Unnumbered == [secondary |-> 0, subordinate |-> 0]
FirstBridge(f) == kind[f] = "bridge" /\ \A g \in 1 .. f - 1 : on[g] = on[f] => kind[g] = "device"

\* The address registers, of all functions.
Registers == {r \in [fn : Fns, i : 1 .. 6] : r.i \in DOMAIN bars[r.fn]}
SpaceOf(r) == bars[r.fn][r.i].space
SizeOf(r) == bars[r.fn][r.i].size

PciInit ==
  /\ \E m \in Machines : on = m.on /\ kind = m.kind /\ bars = m.bars
  /\ path = [b \in Buses |-> Way(b)]
  /\ \E odd \in PowerUp : numbers = [f \in Fns |-> IF FirstBridge(f) THEN odd ELSE Unnumbered]
  /\ windows = [f \in Fns |-> [p \in Spaces |-> Shut]]
  /\ bar = [r \in Registers |-> Off]
  /\ cmd = [f \in Fns |-> {}]
  /\ phase = "scan" /\ stack = <<[bus |-> Root, probed |-> FALSE, max |-> 0, rest |-> {}]>>
  /\ number = [b \in Buses |-> 0] /\ subordinate = [b \in Buses |-> 0]
  /\ children = [b \in Buses |-> {}] /\ devices = [b \in Buses |-> {}]
  /\ base = [b \in Buses |-> [p \in Spaces |-> 0]] /\ limit = [b \in Buses |-> [p \in Spaces |-> 0]]
  /\ address = [r \in Registers |-> 0]
  /\ command = [f \in Fns |-> {}] /\ wrapped = FALSE

Top == stack[Len(stack)]
Calls(frame) == Append([stack EXCEPT ![Len(stack)].rest = @ \ {frame.bus}], frame)

-----------------------------------------------------------------------------
(* pci_scan_bus *)

\* The buses a configuration access to bus n comes out on.
Reached(n) ==
  IF n = 0 THEN {Root}
  ELSE {b \in Fns :
          /\ kind[b] # "device" /\ numbers[b].secondary = n
          /\ \A a \in path[b] : /\ a # b => numbers[a].secondary < n
                                /\ n <= numbers[a].subordinate}

Found(n) == {f \in Fns : on[f] \in Reached(n)}

Probe ==
  /\ phase = "scan" /\ ~Top.probed
  /\ LET found == Found(number[Top.bus])
     IN  /\ devices' = [devices EXCEPT ![Top.bus] = found]
         /\ stack' = [stack EXCEPT ![Len(stack)] =
                        [@ EXCEPT !.probed = TRUE, !.max = number[Top.bus],
                                  !.rest = {f \in found : kind[f] # "device"}]]
  /\ UNCHANGED <<machine, hardware, phase, number, subordinate, children, resources>>

\* The list of a bus is in the order of devfn.
IsNext(b) == b \in Top.rest /\ \A c \in Top.rest : b <= c

\* Some chipsets' bridges are taken for peers of the first bus.
SkipBridge ==
  /\ phase = "scan" /\ Top.probed
  /\ \E b \in Top.rest :
       /\ IsNext(b) /\ kind[b] = "left alone"
       /\ stack' = [stack EXCEPT ![Len(stack)].rest = @ \ {b}]
  /\ UNCHANGED <<machine, hardware, phase, tree, resources>>

\* Mutant: the number behind which buses are searched is not opened up.
Opened_Exact(n) == [secondary |-> n, subordinate |-> n]
Opened(n) == [secondary |-> n, subordinate |-> LastBus]

\* The command register is cleared while the bus is scanned; here it is clear.
ScanBehind ==
  /\ phase = "scan" /\ Top.probed
  /\ \E b \in Top.rest :
       /\ IsNext(b) /\ kind[b] = "bridge"
       /\ number' = [number EXCEPT ![b] = Top.max + 1]
       /\ subordinate' = [subordinate EXCEPT ![b] = LastBus]
       /\ children' = [children EXCEPT ![Top.bus] = @ \cup {b}]
       /\ numbers' = [numbers EXCEPT ![b] = Opened(Top.max + 1)]
       /\ stack' = Calls([bus |-> b, probed |-> FALSE, max |-> 0, rest |-> {}])
  /\ UNCHANGED <<machine, windows, bar, cmd, phase, devices, resources>>

ReturnFromBus ==
  /\ phase = "scan" /\ Top.probed /\ Top.rest = {} /\ Top.bus # Root
  /\ subordinate' = [subordinate EXCEPT ![Top.bus] = Top.max]
  /\ numbers' = [numbers EXCEPT ![Top.bus].subordinate = Top.max]
  /\ stack' = [Front(stack) EXCEPT ![Len(stack) - 1].max = Top.max]
  /\ UNCHANGED <<machine, windows, bar, cmd, phase, number, children, devices, resources>>

\* Which address registers of a bus are of a space: a walk goes through them.
Needs(bus, p) == {r \in Registers : r.fn \in devices[bus] /\ SpaceOf(r) = p}
Frame(bus, p, from) == [bus |-> bus, used |-> from, rest |-> children[bus], todo |-> Needs(bus, p)]

\* The allocation starts at fixed addresses.
ScanDone ==
  /\ phase = "scan" /\ Top.probed /\ Top.rest = {} /\ Top.bus = Root
  /\ subordinate' = [subordinate EXCEPT ![Root] = Top.max]
  /\ base' = [base EXCEPT ![Root] = [p \in Spaces |-> IF p = "io" THEN IoStart ELSE MemStart]]
  /\ phase' = "io" /\ stack' = <<Frame(Root, "io", IoStart)>>
  /\ UNCHANGED <<machine, hardware, number, children, devices, limit, address, command, wrapped>>

-----------------------------------------------------------------------------
(* compute_allocate_io, compute_allocate_mem, compute_allocate_prefmem *)

\* Without regard to the width, and the same in an unsigned long.
RoundUp(val, to) == ((val + to - 1) \div to) * to
\* Mutant: addresses are wider.
Ulong_Wide(val) == val
Ulong(val) == val % Space

Granularity(p) == IF p = "io" THEN IoBridgeAlign ELSE OneMeg

\* First the buses behind bridges, each from where the last one ended.  A bridge
\* was put in front of the others: the last one found comes first.
Descend ==
  /\ phase \in Spaces
  /\ \E b \in Top.rest :
       /\ \A c \in Top.rest : c <= b
       /\ base' = [base EXCEPT ![b][phase] = Top.used]
       /\ stack' = Calls(Frame(b, phase, Top.used))
  /\ wrapped' = (wrapped \/ (phase = "io" /\ Top.used >= IoSpace))
  /\ UNCHANGED <<machine, hardware, phase, tree, limit, address, command>>

\* Mutant: memory is not aligned to its size.
Placed_Unaligned(used, p, size) == used
\* Memory is aligned to its size; I/O is not.
Placed(used, p, size) == IF p = "io" THEN used ELSE RoundUp(used, RoundUp(size, MemAlign))
Taken(p, size) == RoundUp(size, IF p = "io" THEN IoAlign ELSE MemAlign)
Bit(p) == IF p = "io" THEN "io" ELSE "mem"

\* Then the devices of the bus itself, one address register after the other.
Place ==
  /\ phase \in Spaces /\ Top.rest = {}
  /\ \E r \in Top.todo :
       LET at == Placed(Top.used, phase, SizeOf(r))
           end == at + Taken(phase, SizeOf(r))
       IN  /\ \A s \in Top.todo : r.fn < s.fn \/ (r.fn = s.fn /\ r.i <= s.i)
           /\ address' = [address EXCEPT ![r] = Ulong(at)]
           /\ command' = [command EXCEPT ![r.fn] = @ \cup {Bit(phase)}]
           /\ stack' = [stack EXCEPT ![Len(stack)].used = Ulong(end), ![Len(stack)].todo = @ \ {r}]
           /\ wrapped' = (wrapped \/ end >= Space)
  /\ UNCHANGED <<machine, hardware, phase, tree, base, limit>>

\* Mutant: what does not fill a window is cut off.
Limit_Down(p, used) == (used \div Granularity(p)) * Granularity(p) - 1
Limit(p, used) == RoundUp(used, Granularity(p)) - 1

WalkEnds ==
  LET last == Limit(phase, Top.used)
  IN  /\ phase \in Spaces /\ Top.rest = {} /\ Top.todo = {}
      /\ limit' = [limit EXCEPT ![Top.bus][phase] = Ulong(last)]
      /\ wrapped' = (wrapped \/ last >= Space - 1 \/ (phase = "io" /\ last >= IoSpace))

\* The next one behind the window that has been computed.
After(p, last) == Ulong(RoundUp(last, Granularity(p)))

Ascend ==
  /\ WalkEnds /\ Top.bus # Root
  /\ stack' = [Front(stack) EXCEPT ![Len(stack) - 1].used = After(phase, limit'[Top.bus][phase])]
  /\ UNCHANGED <<machine, hardware, phase, tree, base, address, command>>

IoDone ==
  /\ phase = "io" /\ WalkEnds /\ Top.bus = Root
  /\ phase' = "mem" /\ stack' = <<Frame(Root, "mem", MemStart)>>
  /\ UNCHANGED <<machine, hardware, tree, base, address, command>>

\* Prefetchable memory starts after the other; I/O is on its own.
MemDone ==
  /\ phase = "mem" /\ WalkEnds /\ Top.bus = Root
  /\ LET start == After("mem", limit'[Root]["mem"])
     IN  /\ phase' = "pref" /\ stack' = <<Frame(Root, "pref", start)>>
         /\ base' = [base EXCEPT ![Root]["pref"] = start]
  /\ UNCHANGED <<machine, hardware, tree, address, command>>

PrefDone ==
  /\ phase = "pref" /\ WalkEnds /\ Top.bus = Root
  /\ phase' = "assign" /\ stack' = <<>>
  /\ UNCHANGED <<machine, hardware, tree, base, address, command>>

-----------------------------------------------------------------------------
(* assign_resources, enable_resources *)

\* A base register holds the upper bits of the address, an I/O one of 16 bits.
Kept(p, val) == LET v == (val \div Granularity(p)) * Granularity(p)
                IN  IF p = "io" THEN v % IoSpace ELSE v
WindowOf(b, p) == <<Kept(p, base[b][p]), Kept(p, limit[b][p]) + Granularity(p) - 1>>

\* The loop is over the bridges of the first bus; it does not go down.
Programmed == children[Root]

\* Mutant: what has been collected for the bridge's own registers is forgotten, and
\* nothing else is put in its place.
BridgeCommand_Master(b) == {"master"}
BridgeCommand(b) ==
  {"master"} \cup (IF base[b]["io"] # 0 THEN {"io"} ELSE {})
             \cup (IF base[b]["mem"] # 0 \/ base[b]["pref"] # 0 THEN {"mem"} ELSE {})

\* pci_devices: all that has been found.
Chain == UNION {devices[b] : b \in Buses}

\* A base of 0 means that there is nothing to set.
Assign ==
  /\ phase = "assign"
  /\ windows' = [f \in Fns |-> [p \in Spaces |->
       IF f \in Programmed /\ base[f][p] # 0 THEN WindowOf(f, p) ELSE windows[f][p]]]
  /\ command' = [f \in Fns |-> IF f \in Programmed THEN BridgeCommand(f) ELSE command[f]]
  /\ bar' = [r \in Registers |->
       IF r.fn \in Chain /\ address[r] # 0 THEN (address[r] \div SizeOf(r)) * SizeOf(r) ELSE bar[r]]
  /\ phase' = "enable"
  /\ UNCHANGED <<machine, numbers, cmd, stack, tree, base, limit, address, wrapped>>

Enable ==
  /\ phase = "enable"
  /\ cmd' = [f \in Fns |-> IF f \in Chain THEN cmd[f] \cup command[f] ELSE cmd[f]]
  /\ phase' = "done"
  /\ UNCHANGED <<machine, numbers, windows, bar, stack, tree, resources>>

\* The rest of LinuxBIOS uses what is there.
Boots == phase = "done" /\ UNCHANGED pciVars

-----------------------------------------------------------------------------

PciNext ==
  \/ Probe \/ SkipBridge \/ ScanBehind \/ ReturnFromBus \/ ScanDone
  \/ Descend \/ Place \/ Ascend \/ IoDone \/ MemDone \/ PrefDone
  \/ Assign \/ Enable
  \/ Boots

PciSpec == PciInit /\ [][PciNext]_pciVars

\* Values stay in their ranges; numbers are given to as many buses as there are
\* bridges and no frame is lower than the machine is deep.
Bits == {"io", "mem", "master"}
PciTypeOK ==
  /\ phase \in {"scan", "assign", "enable", "done"} \cup Spaces
  /\ \A f \in Fns : /\ numbers[f].secondary \in 0 .. LastBus /\ numbers[f].subordinate \in 0 .. LastBus
                    /\ cmd[f] \subseteq Bits /\ command[f] \subseteq Bits
  /\ \A b \in Buses : /\ number[b] \in 0 .. N /\ subordinate[b] \in 0 .. LastBus
                      /\ devices[b] \subseteq Fns /\ children[b] \subseteq devices[b]
                      /\ \A p \in Spaces : base[b][p] \in 0 .. Space - 1 /\ limit[b][p] \in 0 .. Space - 1
  /\ \A r \in Registers : address[r] \in 0 .. Space - 1 /\ bar[r] \in Off .. Space - 1
  /\ Len(stack) <= N + 1 /\ wrapped \in BOOLEAN

\* A bus that is scanned is the only one its configuration accesses come out on,
\* and stays so, whatever is found and numbered after it; so every function is
\* found, once, except behind a bridge that has been left alone.
Scanned == {b \in Fns : number[b] # 0} \cup {Root}
Behind(b) == {c \in Scanned : b \in path[c] \/ b = Root}
Numbered ==
  /\ \A b \in Scanned : Reached(number[b]) = {b}
  /\ \A b, c \in Buses : b # c => devices[b] \cap devices[c] = {}
  /\ phase # "scan" =>
       /\ Chain = {f \in Fns : \A b \in path[on[f]] : kind[b] = "bridge"}
       /\ \A b \in Scanned : /\ \E c \in Behind(b) : number[c] = subordinate[b]
                             /\ \A c \in Behind(b) : number[c] <= subordinate[b]

\* While nothing has wrapped: what is computed for a bus contains what is placed on
\* it and what is computed for the buses behind it, which keep apart.
Within(lo, hi, b, p) == base[b][p] <= lo /\ hi <= limit[b][p]
Empty(b, p) == limit[b][p] < base[b][p]
WindowsNest ==
  phase \in {"assign", "enable", "done"} /\ ~wrapped =>
    \A b \in Scanned, p \in Spaces :
      /\ \A r \in Needs(b, p) : Within(address[r], address[r] + SizeOf(r) - 1, b, p)
      /\ \A c \in children[b] :
           ~Empty(c, p) => /\ Within(base[c][p], limit[c][p], b, p)
                           /\ \A d \in children[b] \ {c} :
                                limit[c][p] < base[d][p] \/ limit[d][p] < base[c][p] \/ Empty(d, p)

\* Buses and windows are a tree as the bridges are.
TreeLaidOut == Numbered /\ WindowsNest

\* What answers to memory or I/O on a bus, when its command register lets it: an
\* address register, or a window of a bridge.
Ranges(bit) == {p \in Spaces : Bit(p) = bit}
Registered(b, bit) ==
  {r \in UNION {Needs(b, p) : p \in Ranges(bit)} : bit \in cmd[r.fn] /\ bar[r] # Off}
Bridged(b, bit) ==
  {w \in children[b] \X Ranges(bit) : bit \in cmd[w[1]] /\ windows[w[1]][w[2]][1] <= windows[w[1]][w[2]][2]}
Decoded(r) == <<bar[r], bar[r] + SizeOf(r) - 1>>
Passed(w) == windows[w[1]][w[2]]
Apart(x, y) == x[2] < y[1] \/ y[2] < x[1]

\* In the end no address is answered twice on a bus.
OneClaimant ==
  phase = "done" /\ ~wrapped =>
    \A b \in Scanned, bit \in {"io", "mem"} :
      /\ \A r, s \in Registered(b, bit) : r # s => Apart(Decoded(r), Decoded(s))
      /\ \A v, w \in Bridged(b, bit) : v # w => Apart(Passed(v), Passed(w))
      /\ \A r \in Registered(b, bit), w \in Bridged(b, bit) : Apart(Decoded(r), Passed(w))

\* What is on the first two levels answers and is passed on to.
PassedOn(r, bus) ==
  /\ Bit(SpaceOf(r)) \in cmd[r.fn] /\ bar[r] # Off
  /\ \A b \in path[bus] : /\ Bit(SpaceOf(r)) \in cmd[b]
                          /\ windows[b][SpaceOf(r)][1] <= Decoded(r)[1]
                          /\ Decoded(r)[2] <= windows[b][SpaceOf(r)][2]
Answers ==
  phase = "done" /\ ~wrapped =>
    \A r \in Registers : on[r.fn] \in children[Root] \cup {Root} => PassedOn(r, on[r.fn])

\* One answer to every address that was given out, all the way from the root.  I/O
\* is not aligned to its size: this is for regions that are not larger than IoAlign.
SmallIo == \A s \in Sizes : s.space = "io" => s.size <= IoAlign
AddressesAnswer == SmallIo => OneClaimant /\ Answers
=============================================================================
