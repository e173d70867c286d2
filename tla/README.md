# OpenPGP:SDK in TLA+

This directory specifies and checks OpenPGP:SDK (`src/pgp`), the OpenPGP
library of this repository: a C library that parses streams of OpenPGP packets
through stacks of readers, writes them through stacks of writers, and keeps,
signs and verifies keys and messages. The repository also holds LinuxBIOS
(`src/freebios-20010708`), a firmware that shares nothing with the library; how
it enumerates PCI buses and how it boots from the network are modelled too.

`PROJECT.json` lists components, runs, mutants, findings, hazards and theorems,
and maps every definition that models code to the lines it models.

1. [Inventory](#1-inventory)
2. [Modules and the code they model](#2-modules-and-the-code-they-model)
3. [Runs, bounds and what they show](#3-runs-bounds-and-what-they-show)
4. [Fairness](#4-fairness)
5. [Proofs](#5-proofs)
6. [Where the code does not do what it says](#6-where-the-code-does-not-do-what-it-says)
7. [Not modelled, and why](#7-not-modelled-and-why)
8. [Plan](#8-plan)

Everything runs inside this directory: `tlc -config X.cfg M` for a run,
`tlapm M.tla` for the proofs.

## 1. Inventory

The library has no threads. What makes it hard is that control is inverted in
every direction: the parser calls readers that call readers below them, hands
what it finds to a callback that may steer it, is entered again for packets
inside packets, and counts on several counters that different layers keep of
the same bytes. Readers may split and truncate, writers may fail at any write,
and every early return of a handler has to leave stacks and counters right.

| Component | State | Operations | What is hard | What makes it correct |
|---|---|---|---|---|
| Packet reading (`packet-parse.c` 150-470) | position, accumulated bytes, chain of regions | `sub_base_read`, `full_read`, `ops_limited_read`, `limited_skip`, subregions | partial answers, failure in the middle of a request, one byte charged to three regions | every byte charged once to each region, nothing lost silently, the raw packet is the packet |
| Packet parsing (`packet-parse.c`) | frames of handlers, reader stack, error stack | `ops_parse`, `ops_parse_one_packet`, one handler per packet type | packets inside packets, readers pushed and popped by hand on every path, errors that do not reach the caller | the next tag is read where the packet ends, readers match the open packets, parsing ends |
| Signature subpackets (`packet-parse.c` 1480-1880) | three regions, `alength`, hashed part | `parse_signature_subpackets`, `parse_one_signature_subpacket`, `parse_v4_signature` | lengths the stream declares, three levels deep; the hashed bytes are cut out afterwards | the hashed part and the sets are exactly what was declared |
| Decrypting readers (`reader_encrypted_se.c`, `symmetric.c`, `reader_encrypted_seip.c`) | read-ahead buffer, CFB register and offset, modes of the parser | push, pop, `encrypted_data_reader`, resynchronisation | read-ahead against exact reads, plain counts of version 3 keys, nesting | every unit decrypted once, with the pad of its place, across resynchronisations; nothing of the next packet read |
| Partial body writer (`writer_partial.c`, `writer_literal.c`) | buffer, first chunk written or not | write, finalise | any sizes of writes, powers of two, header and buffer and data in order, failures | the chunks are the data, once and in order, in a form the format allows |
| Clear-signed text (`writer_armour.c`, `reader_armoured.c`) | line state on both sides, held blanks, hash | `dash_escaped_writer`, `process_dash_escaped` | escaping decided by one side and undone by the other, CRs added and dropped, text hashed twice by different code | the text comes back, and signer and verifier hash the same |
| Keyring and key validation (`accumulate.c`, `keyring.c`, `validate.c`) | keys with their raw packets; what the callback remembers; result lists | reading a ring, validating every signature | a second parse over the packets of the first, callbacks that look at the reader's position | every signature judged once and against the right objects |
| Armour blocks (`reader_armoured.c`, `writer_armour.c`) | column and base64 group of the writer; block state, group, checksum and look-behind of the reader | `base64_writer`, `linebreak_writer`, finalisers; `armoured_data_reader`, `decode64`, `parse_headers` | groups cut across lines and reads, blocks that end early or badly, text between blocks | the blocks come back as written, in reads that stay inside one; damage is noticed |
| Writer stack (`writer.c`, the writers' push functions and finalisers, `create.c` for keys) | chain of writers, what each holds and has hashed, errors | set, push, pop, write, close, finalise, delete | finalisers that write through the writers below, writers that keep or drop results, early returns that leave a writer on the stack | everything between header and end of what it is in, hashes of just what they are of, no failure without an error |
| Encrypting writers (`writer_stream_encrypt_se_ip.c`, `writer_encrypt.c`, ...) | cipher, hash | push, write, finalise | preamble and MDC around what others write | the MDC is of all that went through, secret numbers are encrypted |
| Compression (`compress.c`) | zlib stream, its input and output buffers, offsets | two decompressing readers, one writer | fillings that end anywhere, ends of stream, of packet and of filling that do not coincide | the data comes back whole; damage is noticed where the code can |
| Message verification (`validate.c`) | the piece of data seen last, result lists | `validate_data_cb`, `ops_validate_file`, `ops_validate_mem` | callbacks in the order of the stream, data kept across them | valid is only what was signed and given whole |
| Signature creation (`signature.c`) | hash, subpackets under construction, two counts | `ops_signature_*`, `ops_sign_*` | order of calls, ignored results | what is signed is what is written |
| Packet creation, crypto, hash, memory, lists, errors, printing, command line | | | little control of their own | |
| LinuxBIOS: PCI enumeration (`linuxpci.c`, `newpci.c`) | tree of buses and devices, bus numbers, windows, address registers | `pci_scan_bus`, `compute_allocate_resources`, `assign_resources`, `enable_resources` | recursion that numbers, sizes and places in different orders, alignment of windows | numbers and windows nest, an address has one claimant that can be reached |
| LinuxBIOS: network boot (`rarp.c`, `netboot.c`, `tftp_fill_inbuf.c`) | transfer, block numbers, receive ring, retries | `rarp`, `tftp_fetchone`, `await_reply`, `fill_inbuf` | packets lost, repeated and late, timeouts at any time, block numbers that wrap | the file in order and whole; the boot goes on or gives up |
| LinuxBIOS: the rest | | allocator, chipsets, flash and disk boot | hardware | |

How they interact: a reader is called by the parser or by the reader on top of
it with a buffer and a length and returns how much it delivered, 0 at the end
and a negative number on failure. Errors go on a stack in `ops_parse_info_t`.
Contents go to a stack of callbacks. A writer is called with data and returns a
boolean; closing finalises every writer from the top.

## 2. Modules and the code they model

| Module | Extends / uses | Models |
|---|---|---|
| `RegionReader` | | `sub_base_read`, `full_read`, `base_read`, `ops_limited_read` on one base reader, and opening and closing of regions |
| `RegionReaderProofs` | `RegionReader` | theorems about it |
| `PacketParse` | | `ops_parse`, `ops_parse_one_packet`, all packet handlers, the reader stack, nested packets |
| `PacketParseProofs` | `PacketParse` | theorems about it |
| `SignatureSubpackets` | | `parse_v4_signature` up to the end of its second set, subpackets, `limited_skip` |
| `DecryptReader` | | `encrypted_data_reader` on its stack, the CFB offset and resynchronisation, the reads of secret keys and encrypted containers above it |
| `ByteStream` | | what any streaming writer promises: what is visible is a front part of what was written, and all of it after closing, unless a write failed |
| `PartialWriter` | `ByteStream` as `Stream` | `stream_partial_writer` with helpers and finaliser |
| `EncryptedDataProofs` | `PartialWriter`, `DecryptReader` | theorems about both, and that the first implements `ByteStream` |
| `ClearsignWriter`, `ClearsignReader` | | `dash_escaped_writer` and `ops_writer_switch_to_armoured_signature`; `process_dash_escaped` and `read_char` |
| `Clearsign` | both by INSTANCE, the reader's `input` being the writer's `wire` | a text written and then read; texts of other programs |
| `MessageValidation` | | `validate_data_cb`, the result lists, `validate_result_status` |
| `SignedMessage` | `Clearsign` and `MessageValidation` by INSTANCE | two signed messages of one stream, clear-signed or literal (`parse_literal_data`), read and judged |
| `SignatureProofs` | `SignatureSubpackets`, `SignedMessage` | theorems about both, and so about the modules the second is made of |
| `KeyValidation` | | `accumulate_cb`, `ops_add_packet_to_keydata`, `keydata_reader`, `ops_validate_key_cb`, the result lists, `ops_validate_all_signatures` |
| `ArmourText` | | characters and digits of armour for the next three |
| `ArmourWriter`, `ArmourReader` | `ArmourText` | `base64_writer`, `linebreak_writer`, finaliser and headers; `armoured_data_reader`, `read4`, `decode64`, `parse_headers`, `set_lastseen_headerline` |
| `Armour` | both by INSTANCE | a file of blocks and text, written, perhaps damaged, and read |
| `ArmouredKeysProofs` | `KeyValidation`, `Armour` | theorems about both |
| `CompressWriter` | `ByteStream` as `Stream` | the compressing writer and its finaliser, over an abstract deflate |
| `CompressReader` | | `zlib_compressed_data_reader` (the bzip2 one is a copy), over an abstract inflate |
| `Compress` | extends `CompressWriter`, `CompressReader` by INSTANCE | data compressed, perhaps damaged, and read in pieces |
| `CompressProofs` | `Compress` | theorems about the writer; that the composition implements it and `ByteStream`, and that the data comes back |
| `WriterStack` | `ByteStream` as `Stream` | `writer.c` and the ways in which the library pushes and finalises its writers |
| `WriterStackProofs` | `WriterStack` | theorems about it, and that it implements `ByteStream` |
| `NetBoot` | | `rarp`, `tftp_init`, `tftp_fetchone`, `await_reply` and the loops around them, with servers and network |
| `PciConfigure` | | `pci_scan_bus` and the walks of `newpci.c`, with the hardware's registers |
| `LinuxBIOSProofs` | `NetBoot`, `PciConfigure` | theorems about both |
| `MC...` | one of the above | what the configurations instantiate |

**RegionReader.** A byte is the number of its place in the stream, so that
buffers show which bytes are in them. `depth` and the functions over levels are
the chain of `ops_region_t`; `taken` is how far the stream is; `pc`, `want`,
`got`, `lim`, `cur` are the loop variables of the read in progress. Each turn of
a loop is an action, because the reader underneath answers in between:
`reader`, `ReaderFails`, `EndOfStream`. A caller may open a packet or a
subregion, read, close, or end the packet at any time, as the handlers do. The
history variables `dropped` and `uncharged` count bytes that a failing read
threw away.

**PacketParse.** A handler is a sequence of steps, one sequence for every way
its branches can go: reads, checks that fail with or without an error on the
stack, pushes and pops of readers, and `parse` for what is inside. `frames` is
the C stack of `ops_parse_one_packet` and its handlers, `readers` the chain of
`rinfo.next`, each with its own `alength`. `ConsumeRest` is `consume_packet`
after the handler, `Finish` the end of `ops_parse_one_packet`.

**SignatureSubpackets.** Three regions as records `[len, read]`; `ends` is where
a subpacket ends by its own length, whatever is read. The length of the hashed
part is computed as the code does, from `alength`. `Word` gives unsigned
arithmetic its width.

**DecryptReader.** A unit that has been read carries the pads that ciphers took
off it, and a pad names the encrypted register and the place in it, so that
"decrypted correctly" is an equation. A reader keeps, for the properties only, the
units it has decrypted since the last resynchronisation (`hist`), raw and as it
handed them on, the register that found (`start`), and whether it has been the only
user of its cipher (`alone`): `PadsRight` compares each unit with the pad of its
place in that stretch, worked out from the blocks of ciphertext (`ExpectedPad`), not
from `iv` and `num`. `calls` is the recursion through the
reader stack: a decrypting reader fills its buffer by a limited read of the
reader below (`Fetch`), whose units are then decrypted one by one
(`ops_decrypt_se_ip`). Scripts above it are the reads of `parse_secret_key` and
`ops_decrypt_se_data`; a secret key is a record of its version, where its
numbers end, how many of them are read before one is refused, and whether all
is well. The module's `DecryptInit`, `DecryptNext` and `DecryptSpec` have names
of their own because its proofs share a module with those of `PartialWriter`.

**PartialWriter.** Header and data are one sequence of units, counted from the
front; a chunk is where it begins, how long it is, and whether its length is
partial. `Store`, `WriteFirst` and `Flush` are the three ways of
`stream_partial_writer`, `WriteChunk` the loop of `write_partial_data`,
`Finalise` the finaliser. Any write below may fail; `intact` says that none has.

**Clearsign.** A character is one of dash, blank, CR, LF and another. The
writer's state does not end with a call, so an action stands for a character
however the application cut its text. The reader is a loop over `read_char`,
one turn an action: a text character, an escaped one, or the dash that ends the
text. `own` says whether the text came from `ClearsignWriter` or from another
program, in which case it is any sequence of characters.

**MessageValidation, SignedMessage.** `data` and `use` are those of
`validate_data_cb_arg_t`. They are replaced by every body and cleared by
nothing, so a second message begins with what the first has left. A signature is
a record: over what, by a known signer or not, damaged or not, of a type that is
checked or not. A literal packet is cut into bodies as `parse_literal_data` does.

**KeyValidation.** Keys carry their raw packets. `keydata_reader` has `packet`
and `offset`, the parser has `got` and `content`: two counts of the same bytes,
kept apart because the callback uses the reader's and the content is the
parser's. A cryptographic check is an equation between what the signature was
made over and what is hashed, and it needs the signature's own raw packet. The
lists are arrays whose elements are written where the code writes them; a write
outside is undefined in C, and is lost in the model.

**Armour.** An octet is four crumbs of two bits, a base64 digit three of them,
so that regrouping and padding are the code's and octets need not be numbers.
The check sum (`crc24`) is idealised: it is the sequence it was made of. The
writer is a base64 writer on a linebreak writer; the reader has one action for
each state of `armoured_data_reader`, and `buffered`, `eof64` and `lastseen` as
in `dearmour_arg_t`. Damage takes out characters or puts others in their place;
neither it nor the text between blocks has names of headers in it or digits of
octets (`Plain`), as the checksum is taken to tell all octets apart and a text
that looks like a block is one. What a file's characters are is said by position
or as the characters that are of a kind (`Bytes`, `Only`), which can be reasoned
about for a file of any length.

**Compress.** The compressed stream is a sequence of units, each of which says
how far (`upto`) inflating it gets and whether it is the last; how much deflate
puts out at a call is open. Two units stand for zlib's trailer. The writer's
packet has partial lengths, which the library's reader takes for an error
(`packet-parse.c:647`), so what lies between is framed anew, with a length or
without.

**WriterStack.** A piece that is written carries the writers it has gone through
(`through`) and, for a check sum, MDC or signature, the pieces it was made over
(`seen`). Writers that buffer keep what they have or pass it on, by choice, and
the base writer may fail at any piece; after that what is held is not followed
any more. One writer is finalised per step. `Usual` says which writer may be
pushed on which, and the run's choice is what the library's own functions do.
Keys are armoured only where no writer below waits for its end (see 6), and
after a key that failed the stack is only closed.

**NetBoot.** Files are numbers of units, packets are records on the way up and
in a receive ring that drops when it is full. Servers do what RFC 903, 1350 and
2347 say, a packet may be lost or sent again, and a wait may time out whenever
the client looks. Block numbers are modulo `Blocks`. `got` is the blocks the
reader has been given, `taken` how many units it has had in all: where the code
keeps a pointer into the image, or what gunzip has asked for.

**PciConfigure.** A call of a recursive walk is a frame on a stack; what its
loops have still to go through, bridges (`rest`) and address registers (`todo`),
is a set that is taken in the order of the list. Bridges and devices have the
registers the code writes; a bus is named by the bridge in front of it, and
`path` is the bridges on the way to it, the machine's own and fixed. Sizes of
address registers are powers of two, and addresses are small numbers with the
alignments scaled down. `wrapped` remembers that an address has been larger than
an `unsigned long`, or than an I/O register of a bridge, holds.
Only the first bridge of a bus comes up with bus numbers of its own
(`FirstBridge`): those of a later one would still be there, and could answer for
a bus, while what is behind the first is scanned (`linuxpci.c:406` says that such
hardware exists, and the code for it is compiled out).

## 3. Runs, bounds and what they show

Bounds are the sizes of data; where a real size is a constant of the code
(buffers of 8192, partial lengths of 512 and more) the model has a constant of
the same role, small enough that the boundary is met.

| Run | Bounds | Distinct states | Shows |
|---|---|---|---|
| `region_reader` | 6 bytes, requests and regions up to 3, reads capped at 2 | 277 000 | `BytesAccounted`: every byte is charged once to each of three nested regions, and nothing is lost silently; `BytesDelivered`: the raw packet and what a read delivers; every read returns. A request of 3 takes at least two reads, and a packet, a set and a subpacket fit and overrun |
| `packet_parse` | 6 units, packets up to 4, one packet inside another | 226 000 | packet ends and raw packets (`PacketWhole`), reader stacks (`ReadersMatchPackets`) for every sequence of packets and failures; `ops_parse` ends |
| `signature_subpackets` | lengths up to 5, buffer 8, words of 16 values | 110 000 | `SetsExact`: sets and hashed part tile as declared, the next subpacket is aligned; parsing ends |
| `decrypt_reader` | blocks of 3, buffer 4, 18 units, 2 numbers of up to 3 per key, containers of 8, 3 packets, nested up to 2 | 401 000 | `DataDecrypted`: no read-ahead beyond the packet or before plain data, counts of version 3 keys plain, the stream taken in order, and the pads of every reader that is alone with its cipher. Numbers of 1 to 3 units resynchronise in a block and between two, a container of 8 reads two blocks after it has, and a second reader alone with its cipher is one of a secret key in a container |
| `partial_writer` | lengths 1 to 16, minimum 4, buffer 8, header 2, 18 units | 183 000 | `PacketFormed`: chunks are well formed and are the data in order; failures are reported by the first and last call; `ByteStream` is implemented |
| `clearsign` | texts up to 6 characters, bodies of 4, a second message up to 2 | 1 283 000 | the text comes back and only the block ends it; canonical form is signed, both sides hash the same, and a signature is judged valid only over what was signed and given whole. Six characters hold an empty line, an escaped line, CR LF and a full body |
| `key_validation` | 5 packets of 11 kinds, 2 units each | 1 642 000 | keys partition the stream, every signature is judged once, in order and against what precedes it. Five packets hold a key with a user ID, an attribute, and signatures on both |
| `armour` | lines of 11, buffer 3, two blocks of up to 3 octets, one of up to 42, reads of 2 | 348 000 | `FileReadBack`: blocks come back, reads stay inside one, text between is handed on, damage is noticed, and at every step all octets are in their place (`OctetsAccounted`). 42 octets fill a line and end in every way on the next |
| `compress` | output buffer 2, up to 6 octets, codes of 2, input buffer 3, reads up to 4 | 198 000 | the packet is one deflate stream (`StreamWhole`), the data comes back or the damage is noticed (`DataRestored`), `ByteStream` is implemented, every read returns |
| `writer_stack` | 7 writers, 2 pieces of data | 217 000 | `Enclosed`: proper nesting, hashes, ends, encryption of secrets; `ErrorsKept`; the stack is one `ByteStream`. Seven writers are an armoured, encrypted, compressed and signed message |
| `net_boot` | blocks of 2 or 3 units, one retry, ring of 2, block numbers modulo 8, one foreign packet | 315 000 | `BlocksAgree`: blocks in order, acknowledged is received, ended is whole; `ImageProceeds`: the boot gets on or gives up |
| `pci_configure` | 4 functions, 16-bit I/O as 24, memory as 256 | 436 000 | `TreeLaidOut`: bus numbers and windows nest; `AddressesAnswer`: every register has an address of its own that the bridges pass on. Four functions are two bridges behind each other with a device on each side |

Every property of a passing run has a mutant in the module of the code it is
about (comments begin with `Mutant:`), a plausible slip in one definition that
TLC then finds.

Conditions in properties. `TextRecovered`, `OnlyBlockEndsText` and
`SignedIsCanonical` are for texts in which CR only stands before LF: the reader
skips every CR and so sees a line start where the writer did not, and a dash
after LF CR is not escaped. `HashesAgree` is for texts without blanks at line
ends: the writer leaves them out of the hash ("trailing whitespace isn't
included in the signature", `writer_armour.c:101`) and the reader does not.
`NextSubpacketAligned` excuses subpackets that were delivered without a check of
their length. `PacketEndWhole` excuses packets inside symmetrically encrypted
data. Both parts of `PacketWhole`, and `ReadersMatchPackets`, speak of what
happens as long as no packet has failed: some failures leave a reader on the
stack (section 6). `DataGiven`, part of
`DataRestored`, is for reads that do not span two fillings of the reader's
buffer. `EndedIsWhole`, part of `BlocksAgree`, is for transfers whose block size
both sides agree on. `BlocksReadBack` leaves out blocks whose headers the reader
hides and those whose padding the writer splits across lines. `Framed` excuses
clear-signed text that is closed without its signature. `JudgedRight`, part of
`HashesRight`, says nothing of a good signature over a text of several lines,
which the code finds invalid. Each condition is where the code differs; section
6 lists them.

`CHECK_DEADLOCK FALSE` is set where the modelled program stops: after the last
packet, at the end of a message, at an assertion.

## 4. Fairness

One sequential program: a call that has begun goes on until it returns.
`RegionReader` has weak fairness on the steps of a read in progress and none on
the caller. `PacketParse` and `SignatureSubpackets` have weak fairness on
`Next`: the only thread keeps running, and every step depends on finite input.
No fairness is assumed for choices: readers may always fail or split, handlers
may always take the failing branch. `Compress` has weak fairness on the steps of
a read in progress, as `RegionReader`.

`NetBoot` has two parties and a network. The client is one thread (weak fairness
on its steps, timeouts apart: they may come at any time and need not come), its
polling gets a packet that is there again and again (strong fairness on
`FetchArrives`), a server handles what reaches it (weak) and keeps sending what
has not been answered (strong). Nothing is assumed of the network beyond that:
`ImageProceeds` is about runs in which losses end.

The other modules state safety only.

## 5. Proofs

`RegionReaderProofs` (constants: any stream length, request size, region size
and cap on reads; only naturals, requests and cap positive, are assumed):
`ReaderInv` is inductive. The properties alone are not: that a byte is charged
once to each region (`ChainAccounting`) needs the shape of the chain
(`RegionShape`), the raw packet (`AccumulatedIsPacket`) needs that the
destination holds consecutive bytes (`DestInOrder`), and that needs the loop
variables of the read in progress (`CallShape`, `ReadFits`). One lemma per
action, with one step per conjunct that the action disturbs; two lemmas carry
the arithmetic, `ChargeFacts` (a charge changes every level by the same amount)
and `AccumulatedInOrder`. From the invariant follow `AccountsBalance` and
`DeliveryCorrect`, the run's properties for every value of the constants, their
parts as theorems of their own, and the assertion in the loop of
`ops_limited_read` (`AssertionHolds`).

`PacketParseProofs` (any number of units and packets, packets of any size, any
depth of nesting; a reader may fail or stop at any read): `ParseInv`. The handlers
are finitely many sequences of steps, and each has a layout (`Layout`): how many
readers of its own it has on the stack before each step, of which kinds, and
whether it reads into a region of its own there. `LayoutFits` shows that pushes,
pops and subregions of every handler fit its layout, that it leaves no reader of
its own when it runs to its end, and that the packets inside it are read through
a reader that charges it. The invariant says where the readers of every open
packet begin (`p`): `Laid`, that there are enough of them for what the handlers
will still pop, holds even after failures; `Stacked`, that there are no others and
that they are of the right kinds, `Counted`, that what has been read of a packet is
what has been accumulated under it, and `Placed`, where the innermost packet is,
hold as long as no packet has failed. `PacketWhole` is not inductive, because the
count of a packet is moved by reads of packets inside it, through readers that
charge it; and which readers do is what `Stacked` says. One lemma per action;
`DeliverKeeps`, `ChargedOwn` and `MovesArranged` are what they share. Then
`ParseTypes`, `ParsedWhole` and `ReadersMatch` are the run's safety properties.

`SignatureProofs`, the subpackets (any lengths, buffer and word; a word counts past
the four octets in front of the first set): `LengthInv` adds two facts to
`TypeOK`. `Extent` relates what has been read of the packet to the lengths of
the sets that are done and of the one that is open, which `HashedPartExact` and
`SetsTile` need because the code measures with `alength` what it read through
regions. `Subpacket` relates what is left of a subpacket to where it ends, for
`NextSubpacketAligned`. With them `SubpacketSetsExact` is the run's property.

`SignatureProofs`, signed messages (any body of two characters or more, any
lengths of the first message and of the second): `MessageInv` follows a message
from its writer to its verdict. `Reading` carries the argument for the text: there is a function
`pos` that says where on the wire each character of the text is, behind the dash
and the blank or the CR that the writer put in front of it (`Spans`), and the
reader is in front of one of these places, or of the end (`InPlace`), having handed over
the characters before it. What it does there is one step of the same function
(`PlaceIs`, `Advances`), and what it finds behind the last one is the header of
the signature (`Stops`); a lone CR is what would break it. `Signing` says which
blanks the writer still holds: what it has signed is the canonical text so far,
and with the blanks it holds the text as it would be if its line went on
(`Pending`), one lemma for each kind of character that may come
(`BlanksAppendBlank`, `BlanksAppendEnd`, `BlanksAppendOther`). `Hashing` keeps
the hash of the reader equal to what it handed over, `Handing` and `Keeping` say
which bodies there are and what of them validate.c still has, and `Judging` that
the verdict is about that. None of the properties is inductive: `TextReadBack`
and `HashesAgree` speak of the end only, and `JudgedRight` needs that no body has
a CR while a signed text of several lines has one (`OneLineIsKept`), which is why
such a text is never found valid by mistake. `MessageAlwaysTyped`,
`TextAlwaysReadBack` and `HashesAlwaysRight` are the run's properties. The texts
are built with `FlattenSeq`, a recursive definition; what it does with one element
more (`FlattenAppend`) is shown from its definition, by the least place where it
would not (`Smallest`).

`EncryptedDataProofs`, the partial writer (any set of partial lengths that covers the data, minimum
and buffer among them, a header shorter than the minimum): `WriterInv` adds the
shape of the program counter to `TypeOK`, `ChunksTile` and `NothingLost`. What
has been decoded, what the loop still has, what follows it, and the buffer are
consecutive pieces of what was accepted; each action moves a piece from one to
the next. `WriterPacketFormed` and `WriterReports` are the run's safety
properties. `ImplementsByteStream` is the refinement: every step either shows
more of the data in order, closes the stream, breaks it, or stutters.

The second part is about the decrypting readers (any size of blocks, of the
buffer, of numbers and keys, any number of packets and any nesting; blocks have
more than two units). What they do depends on who steers them, so the
invariant `DecryptInv` begins with the handlers: `Scripted` says what each of
them can still have to do, and what is so meanwhile. A container's reader is on the
stack while its script is one of `OpenScripts`; a secret key (`SecretTop`) is at
one of the places of its script, before its reader is there (`KeyBegun`) or with
it (`KeyRead`), and in a version 3 key nothing is in the buffer that has not been
asked for (`Sparing`), what is left of the packet is what its numbers still need and
two units of checksum (`Accounted`), and what is on its way to the parser has as
many pads as it should (`PadsAre`). `Chained` says that the reads in progress are
of one reader after the other, each with room for it in the packet and the buffer
above. `FirstReader` is about the reader at the bottom: the positions of what it
has decrypted grow (`InOrder`). `LoneReaders` is about every reader that is alone
with its cipher, wherever it is: the cipher's register and offset are those of what
the reader has decrypted since the last resynchronisation, from the register that
found (`InStep`, `Fed`), which is what makes the next pad the one of its place
(`FedUnit`); a resynchronisation, at any offset, begins such a stretch (`InStepFresh`,
`InStepBegins`). `DecryptTypeOK` and
`DataDecrypted` are not inductive without these: that the buffer is empty when a
cipher is resynchronised, for instance, follows from what an exact read has
fetched, which is a fact about the reads in progress. There is one lemma per
action for each part of the invariant, and a few for what they share
(`SteadyCalls`, `ChainedPut`, `FirstKept`). `DecryptAlwaysTyped` and
`DataAlwaysDecrypted` are the run's properties.

`CompressProofs`, the writer (any buffer, amount of data and of output per call): what
deflate has put out, what is in the output buffer and what has been written are
one sequence of units whose `upto` grows (`InOrder`), whose last unit is where
it says it is (`Lasts`), and whose counts are those of the buffer (`Counts`).
`CompressorImplementsByteStream` follows as for the partial writer.
The second part carries both over to the composition with the reader: a step of
the reader is a stutter of the writer (`ComposedWriter`), hence `StreamsWhole`
and `ComposedByteStream` are the properties of the run. For the reader
(`CompressInvariance`; any buffer and any size of reads): `Delivered` says that
what inflate has put out is what has been given, what the read in progress has
copied and what is still in the filling, unless the file ended before its packet,
after which every read fails (`Stuck`); `InPlace` says that all of these are the
octets in their order as long as no read takes from two fillings; `Inflated` says
where inflate stands in the packet and what it can restore there, for which the
units of what is sent must be in order up to the end (`BodyInv`, `PacketOK`); and
`Noticed` says which errors have been seen. How far inflate gets is the greatest
number of a set, so the lemma `Greatest` shows that there is one.
`CompressTypeCorrect` and `CompressedDataRestored` are the run's properties.

`ArmouredKeysProofs`, key validation (any packets of the modelled kinds, of any number
and size, identifiers of any set): `KeyInv` rests on two facts. `ReaderOK`: the two
counts of the same units, the reader's and the parser's, agree, so that the place
of `keydata_reader` says which packet has just been parsed (`Pos`).
`RemembersLast`: what the callback remembers is the last key, user ID or
attribute before that place. From them `SignaturesJudgedRight` follows: a
signature is found valid exactly when it was made over what is before it, each is
judged once and in order, and the counts of the lists are what is returned.
`KeysShareTheStream` is about the reading alone. `PacketsAssumption` says of the
packets what `ops_signature_t` can hold.

`LinuxBIOSProofs`, network boot (any files, packet sizes, retries and receive ring; any loss,
repetition and delay): the agreement is about three places at once, and `IInv`
says of each what it may hold in terms of what the reader has. A session of the
server is not ahead of the reader by more than a block (`SessionsOK`), a packet
on its way down is a block that some session sent (`PacketOK`), an
acknowledgement on its way up is of a block the reader has (`UpOK`). `TakenOK`
counts the units for the end of a file. `BlocksAlwaysAgree` and `TypeCorrect`
are for files with fewer blocks than there are block numbers
(`FewerThanBlocks`, 65536 in the code). The hypothesis is needed: with more, the
number comes round to 0, which `tftp_fetchone` takes for in order, and TLC finds
a repeated block taken twice. The run's constants satisfy it.

`WriterStackProofs` (any number of writers, any of them on any other, any number
of writes, every choice of what is kept back): `Enclosed` and `IsByteStream` are
about what the base writer has got, and that says nothing of what a partial or
compressing writer still holds; the end of a packet has to be behind both. So the
invariant `WrittenInv` is about all that has been written: `Flow` puts what is
out and what each writer holds into one sequence, in the order in which it will
come out, each piece with the writers it will then have gone through. Writing to
a writer adds to the end of that sequence whatever the writers below keep (the
lemma `FlowOfWrite`), so that keeping back needs no thought after it. What has to hold of the sequence is `Good`: what the
properties say (`Framed`, `Covering`, `SecretsOnly`), and what makes it
inductive: writers that are live have not ended and what has ended is not written
to (`NotEnded`, `Shut`), all that was opened is either live or ended (`WillEnd`,
`WillSign`), the text of a clear-signed message goes on (`TextOpen`), and numbers
of writers that are not made yet occur nowhere (`Old`). `SeenAll` says that each
hash is of what has gone through its writer up to now, `SignSeen` that the one of
a signature still is when the packet under it is finalised. `TypeInv` says what
the stack is (`Stacked`), who is pending while it is finalised, and where the
armour of a key is (`KeyInv`). One lemma per operation; two pieces of a kind,
what opens (`OpeningGood`) and what ends (`EndGood`), cover what the operations
write. What is out is the start of the sequence (`FlowStarts`), and all that is
in order in a sequence is so in its start (`GoodStarts`), from which
`AlwaysEnclosed` follows; with nothing held when all is finalised also that all
has ended, and `WritersAreByteStream`. The types of `TypesAlwaysOK` hold after a
failure as well, and with them the two assertions of `writer.c`.
`ErrorsAlwaysKept` has an invariant of its own, with the result of
`writer_info_finalise` in it, which is collected over several steps before a call
returns it; the lemma `FalseIsReported` carries the argument: a write below
returns false only where no partial writer drops what it returns, and there its
error has not been dropped either.

`LinuxBIOSProofs`, PCI (any number of functions below 255, any tree of bridges, any
registers and sizes; alignments, sizes and where the allocation starts divide
each other as powers of two do, `PciAlignment`): `PciIInv` has a part for each
walk. While the buses are scanned (`ScanInv`), the calls are a way down the tree
(`Line`), every bus that has a number is being scanned or has been gone through
(`Explored`), the numbers that have been given are one for each bridge and none is
left out, and what is behind a bridge that is open has higher numbers than it.
That a number leads to one bus (`ReachedIs`) needs more than that: a bridge which
comes up with numbers of its own answers as well, and `ScanJunk` shows that there
is one only on the bus with the highest number so far, so that what it claims is
out of its reach. While addresses are given out (`WalkInv`), `FrameLaid` says of
each call what it has laid out between the base of its bus and where it stands, `Complete` of
each bus that is done that all behind it lies in its window, and `Laid` what both
mean: windows first, registers behind them, none over another. The windows nest
because a bridge's starts where its bus stands (`DescendWalks`) and the bus goes on
behind it (`AscendWalks`); they are in the registers without loss because both
ends are aligned (`WindowIs`). `AddressesAnswer` is not inductive, as it is about
the end only; it also needs that all prefetchable memory lies behind all other
memory (`SpacesApart`), because one command bit lets both answer.
`PciAlwaysTyped`, `TreeAlwaysLaidOut` and `AddressesAlwaysAnswer` are the run's
properties, their conditions on `wrapped` and `SmallIo` included. The invariant has
been checked with TLC on the run's instance, too.

The invariant fixed the model in one place. An I/O window that starts just past
the last address (I/O is full, and a bridge with nothing behind it follows) has a
base that its register holds as 0, so that it is a window over everything
(`newpci.c:457`, `690`). `wrapped` is set for that as well.

`ArmouredKeysProofs`, armour (any lines, files, block lengths and lengths of reads,
any texts and any damage): `ArmourInv` has a part for each side. `WriterInv` counts
what is on its way: three crumbs for each digit that went out and those that are
pending are four for each octet, and the octets are those under the checksum; the
lines are a fold over the digits, for which `BreakFold` shows that the column stays
within `BreakPos` whatever goes through. `ReaderInv` says where the octets under the
reader's checksum are (`Accounted`): given, in the hands of the call, or in
`buffer`, which is filled from behind and given from its end (`Held`), so that
the step that gives an octet has to show that the order stays (`GiveOctetKeeps`).
It ends where the code itself ends it, at a reported error or an assertion.
`ArmourAlwaysTyped` and `OctetsAlwaysAccounted` follow; the first is the run's
property, the second a part of `FileReadBack`.

`BlocksAlwaysGenuine` is the point of the checksum: octets that are not those of one
block as it was written never pass for a block, whatever is lost or changed. It is
not about where things are in the file, which damage moves, but about what there
can be in it: every digit, wherever it stands, is made of crumbs of octets, of
padding or of the checksum of a block that is finished (`Known`, `FileInv`). The
writer keeps to that for lines of any length (`LinesKnown`, `StackedKnown`),
damage cannot break it (`DamageKnown`), and of what is known the reader can only
take parts and put parts back (`StepKnown`). So a checksum that `decode64` finds
equal to its own is that of a block written (`SumOkIs`), and `BlockInv` carries
that to the trailer: from there on `eof64` and the state say that the comparison
has been made (`SumTrusted`), with `Accounted` what was given is what was
compared, and `lastseen` is the header of the block that is open (`NameTrusted`),
so that `set_lastseen_headerline` compares the right two names. That a name or a
block is read again behind the end of the file is excluded by there being nothing
left. The theorem assumes of damage what `ArmourAssumption` says, and that the
checksum tells octets apart, as the whole model does; it does not need that
there is only one damaged place.

With TLC only: the other parts of `FileReadBack`, and all liveness (`ReadReturns`,
`Terminates`, `ImageProceeds`), which the proof system does not reach. That a file is
read back as it was written, and that the type of a block is that of the very block
its octets are of (the rest of `DamageNoticed`), is about where everything is in the
file: the reader's search and its regrouping of lines into digits and digits into
octets have to undo the writer's, for texts of any shape around a block. That has
not been proved. Where the theorems do need what a
recursive definition gives for every input, the library's induction theorems do
not serve, as their operator parameters cannot be instantiated here; induction is
done by the least counterexample instead (`Least` in `CompressProofs`,
`WriterStackProofs` and `LinuxBIOSProofs`, `Smallest` in `SignatureProofs` and
`ArmouredKeysProofs`), where the recursion is over numbers or takes a sequence one
element at a time; the bridges on the way to a bus are the least set with those of
the bus in front (`WayFacts`), for the same reason.

## 6. Where the code does not do what it says

The models do what the code does here; no property is stated that it could not
hold, and the properties have conditions where these are met (section 3).

| Code | What it does | What the source says |
|---|---|---|
| `packet-parse.c:3039` | the result is 1 when `pinfo->errors` is empty, which it is after many failures | "1 on success in all packets, 0 on error in any packet" (`packet-parse.c:2999`) |
| `packet-parse.c:421` | a skip of 8192 bytes or more makes no progress | "Skip over length bytes of this packet." (`packet-parse.c:403`) |
| `compress.c:155` | the destination is not moved on, so that in a read that spans two fillings the second part overwrites the first | "Read length bytes into the buffer pointed to by *dest." (`packet-parse.c:309`) |
| `writer_partial.c:106` | results of writes are dropped | "return 1 if OK, otherwise 0" (`writer.c:64`) |
| `symmetric.c:60` | `std_resync` rearranges `civ` and `siv` and resets `num`, but data is decrypted by `cfb_decrypt`, which goes on from `iv`. When the block was not full `iv` still ends in pads, and the first block after it, of every number of a version 3 key behind one that does not end a block and of all legacy encrypted data, is decrypted wrongly | "(The resynchronization step) FR is loaded with C[3] through C[BS+2]." (`src/pgp/ref/rfc4880.txt:4395`); "in order to support v3's weird resyncing we have to implement CFB mode ourselves" (`symmetric.c:586`, in `ops_decrypt_se`, which has no caller) |
| `reader_armoured.c:436` | a full body is not hashed | "will have seen all the cleartext data in canonical form" (`packet.h:752`) |
| `validate.c:148` | the index of a list is scaled twice | "result holds the details of all keys which have passed, failed and not been recognised" (`validate.c:625`) |
| `validate.c:366`, `372` | a signature is checked against the last body only, so that a clear-signed text of several lines, or literal data of more than 8192 octets, is never found valid | "ops_true if signature validates successfully" (`validate.c:701`) |

Without a sentence to hold them against, in the order of the modules:

- Parsing: a version 4 secret key whose checksum does not match is an error for
  the callback only, and its decrypting reader stays on the stack
  (`packet-parse.c:2427`, `2449`). When the key is inside encrypted data the packet around
  it goes on, pops that reader for its own, and what is left of it is read
  through a reader that charges its region as well: the packet is read beyond
  its end and returns 1.
- Regions: a subregion that is opened late in its parent overruns it
  (`packet-parse.c:339`; how far, the theorem `OverrunBounded` says).
- Decryption: a container inside a container restarts the cipher they share
  (`reader_encrypted_se.c:198`), so that pads are stated only for readers alone with
  their cipher; `reading_v3_secret` survives the early returns of `parse_secret_key`
  (`packet-parse.c:2183`), and counts in encrypted data that follows are copied as they
  stand; a version 3 key or a container inside legacy encrypted data finds more
  read ahead than it asks for and stops at an assertion (`reader_encrypted_se.c:91`).
- Keys: a secret subkey is reported as a secret key, and its binding signature
  then stops at an assertion (`signature.c:345`).
- Armour: padding `==` is split across lines in blocks of 280, 505, 730 and so
  on octets, which the reader does not take (`writer_armour.c:302`, `244`);
  `armoured_data_reader` returns -1 for data that ends early
  (`reader_armoured.c:908`), while errors of `decode64` come out as the end of
  the data; two assertions can be reached (`688`, `791`); a line of just five
  dashes hides the block behind it (`824`); a last line without a line end is
  not handed on; an END line outside of a block opens one, with an error.
- Compression: a filling that is only the end of the stream stops at an
  assertion (`compress.c:151`); an error is reported where there is none
  (`91`); damage behind the stream but in the same filling is not noticed (`139`).
- Writer stack: after an armoured key `create.c:483` and `565` finalise every
  writer below, drop the result and pop one of the two writers that were pushed;
  early returns of `write_secret_key_body` leave an encrypting writer whose
  cipher is gone (`create.c:370-402`); `create.c:467` and `549` write `sigs[i]`
  in a loop over `j`, and `472` and `554` return `!rtn`, success, when such a write has
  failed (the model has the call fail there, which is harder for `ErrorsKept`, as a
  failed call has to leave an error and one that succeeds need not); `ops_encrypt_stream` ignores that `ops_writer_push_signed`
  has failed (`crypto.c:264`); `ops_sign_file` returns success whatever its
  writes return (`signature.c:1186`).
- Verification: text outside of armour and compressed data are called back and
  stop at the assertion of `validate_data_cb` (`validate.c:468`).
- Network boot: packets of a session that has been given up lead the
  acknowledgement astray, after which client and server can wait for each other.
- PCI: regions of I/O are not aligned to their size (`newpci.c:476`), a bridge
  behind a bridge gets no windows (`newpci.c:682`), and one that comes when I/O
  is just full passes on all of it (`newpci.c:690`).

## 7. Not modelled, and why

- Cryptography and compression proper are OpenSSL's, zlib's and bzip2's; a model
  keeps what flows in and out. RSA and DSA arithmetic is out of TLC's reach.
- Printing and the tables of names have no state. The command line program
  makes one library call per command.
- Packet creation writes fields one after the other. The encrypted packet that
  is written at once (`writer_encrypt_se_ip.c`) has no state between calls, and
  the check sum writer (`writer_skey_checksum.c`) is only pushed alone on a
  memory writer, for the four numbers of a new key, and closed.
- In PacketParse the contents of fields: a check may fail or not. Callbacks are
  left out; the one that asks for a passphrase is a choice between branches.
- In DecryptReader the integrity check of `reader_encrypted_seip.c` is one read
  of the whole packet.
- In KeyValidation packets whose parse fails: `accumulate_cb` stops at an
  assertion or leaves them out of the key. Keys are found by key ID, and equal
  IDs mean equal keys. Key creation and freeing.
- The order of calls that build a signature packet: in SignedMessage a signature
  is a record of what it is over.
- In NetBoot ARP beyond foreign requests, BOOTP and NFS, and the driver of the
  network card but for its ring. In PciConfigure the access methods and what
  particular chipsets need.
- Memory that cannot be allocated.
- LinuxBIOS: the allocator only moves a pointer, boot from flash and disk read
  one source from front to back. Chipset and board setup are register writes
  whose meaning is in the hardware.
- Vendored code, examples, reference code, tests and documents.

## 8. Plan

The order is by how much rests on a part. Done: the read path, parsing,
subpackets, decryption, armour, compression, the partial writer and the writer
stack, signed messages, key validation, PCI enumeration and network boot.

1. `SignatureCreation`: the order of calls and the two counts of subpackets,
   composed with `SignatureSubpackets`.
2. `Keyring`: building keys, growing arrays and the pointers into them.
3. The encrypted packet that is written at once, composed with `DecryptReader`
   and its integrity check.

Worth proving next: that armoured blocks come back as they were written.
