# Formal models of the Minitel ROM emulator

A Raspberry Pico 2 sits in the ROM socket of a Minitel and serves its 8052 CPU's instruction
fetches. In interactive mode it first serves a menu program, talks to it through the ROM's
own address space, lets the user and a command line program choose, store and erase ROMs in
flash, and finally swaps the menu for the chosen ROM. This directory models that software in
TLA+, checks the models with TLC and proves their main invariants with TLAPS.

`FW` below stands for `src/rom-emulation/firmware`.

## 1. The system

| Part | State it keeps | Operations | What is hard |
|---|---|---|---|
| **Data partition** `FW/src/partition.cpp` (`ConfigurationPartition`) | flash: 16 superblock sectors, 16 ROM areas; RAM: a copy of the current superblock, the index of the next sector, `write_status`, the sector buffer | `open`, `write_begin/data/end`, `erase`, `set_wireless_config`, `flush_superblock_contents` | power cuts between any two flash operations; one buffer for everything; round robin and recovery must agree |
| **Main loop** `FW/src/main.cpp` | `in_menu`, `can_accept_boot_command`, `selected_boot_slot_num`, `write_token`, `ota_token` | `handle_packet` for three sources, signals of the menu, `load_rom_from_data_partition` | packets of several programs, keys and resets in any order; decisions on state that changes before they take effect |
| **Command line program** `FW/scripts/rom-emulator-cli.py` | the packet it waits on | `boot`, `store`, `erase`, `wl-set`, `ota` | killed, or its link lost, between two packets |
| **Menu program** `FW/menu` | the phase it is in | main menu, client mode, error screens, trampoline | looks at the desired state at certain points only |
| **Magic I/O** `FW/src/magic-io.cpp`, `FW/common/magic-io-definitions.h`, `FW/menu/magic-io.c` | fields in the ROM's address space; byte queue to the Minitel | one handshake per request: the menu polls a field until the firmware, which only sees addresses fetched, clears it | two processors, single-byte writes, order of the writes, lost notifications, Minitel reset at any time |
| **Packet codec** `FW/src/cli-protocol.cpp` | decoder state, buffer, checksum | `push`, `reset`, encoder | lost or stray bytes, resynchronisation; data that looks like a packet; replies to a program that is gone |
| **Firmware update** `OtaPartition` in `FW/src/partition.cpp` | A/B images, update cursor | `ota_begin/data/end` | power cut at any point must leave a bootable image |
| **Memory emulation** `FW/src/mememu.cpp`, PIO programs | emulated ROM/RAM array, DMA, state machines | `setup`, `start`, `stop`, `write_rom`, core 1's RAM writes | the CPU fetches while the ROM is replaced; two drivers on one bus at power-on |
| **TCP server** `TcpClient` in `main.cpp` | one connection, one decoder | accept, receive, close | a new client takes over from the old |
| **Keyboard** `src/lib/board`, `src/lib/keyboard` | bit-banged serial decoder | interrupt handler, poll | not modelled; handler and poller share data in `__critical` sections |
| **Examples** `src/examples` | FIFO between interrupt and main loop (`video_stream`) | | not modelled; the FIFO is read in a `__critical` section |
| Generators, boards | none (offline) | | not modelled |

Interactions. The command line program sends packets over USB, TCP or the Minitel's serial
port; the latter are carried byte by byte through magic I/O while the menu is in client mode.
The main loop decodes them and calls `handle_packet`, which calls the data partition and sets
the desired state in magic I/O. The menu reads the desired state, and signals keys through
magic I/O. On the way out it jumps to a trampoline; the firmware sees only trampoline
addresses, stops the emulation, copies the selected slot and starts again.

## 2. The modules

| Module | Models | Role |
|---|---|---|
| `RomCatalog` | what the data partition promises | abstract specification, also the storage inside `MainLoop` |
| `ConfigurationPartition` | `partition.cpp`, class `ConfigurationPartition` | detailed; refines `RomCatalog` |
| `MCConfigurationPartition` | | instance for TLC |
| `ConfigurationPartition_proofs` | | theorems and proofs |
| `RomCatalog_proofs` | | the refinements of `RomCatalog`, and what a ROM holds |
| `MainLoop` | `main.cpp` with `rom-emulator-cli.py` and the phases of `menu/main.c` | composition over `RomCatalog` |
| `MainLoop_proofs` | | theorems and proofs |
| `Mailbox` | what magic I/O promises | abstract specification |
| `MagicIo` | `magic-io.cpp`, its callers in `main.cpp`, `menu/magic-io.c`, the loops of `menu/main.c` | detailed; refines `Mailbox` |
| `MCMagicIo` | | instance for TLC |
| `MagicIo_proofs` | | theorems and proofs, the refinement of `Mailbox` among them |
| `OtaPartition` | `partition.cpp`, class `OtaPartition`, the OTA packets of `main.cpp`, `do_ota` | composition of device, programs and boot ROM |
| `OtaPartition_proofs` | | theorems and proofs |
| `MCOtaPartition` | | instance for TLC |
| `CliProtocol` | `cli-protocol.cpp`, and the packets of `rom-emulator-cli.py` | the codec, as operators |
| `CliProtocol_proofs` | | theorems about the codec |
| `CliLink` | `transfer_packet` and `main` of `rom-emulator-cli.py`, the byte loops of `main.cpp`, `TcpClient` | composition of programs, link and codec |
| `MCCliLink` | | instance for TLC |
| `CliLink_proofs` | | theorems and proofs |
| `RomSwitch` | `mememu.cpp`, the PIO programs, `main` up to its loop, the trampoline | composition of firmware, emulated memory and CPU |
| `RomSwitch_proofs` | | theorems about `RomSwitch` |
| `MCRomSwitch` | | instance for TLC |

### ConfigurationPartition

*State.* `sb` (the superblock sectors) and `rom` (the ROM areas) are the flash;
`superblock_contents`, `superblock_write_index`, `write_status` and `buffer` are the members of
the same names; `op` says which call is in progress and which flash operation it makes next.
`upload` and `committed` are history: what the caller has uploaded since `write_begin`, and
what each commit stored.

*Steps.* A call starts with an action of its own (`WriteBegin`, `WriteData`, `WriteEnd`,
`Erase`, `SetWirelessConfig`) that does everything up to the first flash operation. Each flash
operation is a step: `EraseSector`, one `ProgramNextPage`/`ProgramLastPage` per page of a
superblock, `BlockErase` and `BlockProgram` for a sector of ROM contents. `PowerCut` may come
before any of them; `Open` is the restart. A superblock is 2198 bytes and
`flash_range_program` writes pages of 256, in order, so `SlotPage` says on which page the size
of a slot lies. A flush erases first only if some bit would go from 0 to 1 (`NeedsErase`), as
`erase_and_write_from_buffer` does, on `WordWidth`-bit words.

*Abstractions.* ROM bytes are members of a small set; the names of ROMs are left out, and a
ROM block counts as needing an erase whenever it changes. A sector is erased at once, and a ROM
block being written holds junk until it is complete. A flush stops at `LastGeneration`
(2^32 flushes outlive the flash). A wireless configuration that is not set has its type byte
0xFF and zeros after it, as `wl-unset` and the factory image store it (`NotConfigured`), and so
differs from the all ones of an erased sector (`Erased`).

*Refinement.* What open() would find in a slot is `Stored`. The slots whose size is on the page of
the generation counter (`AtomicSlots`, 2 of the firmware's 16) implement `RomCatalog` whatever the
power does. The others do not: a cut between two pages of a superblock takes committed ROMs
from them, which is the finding of `torn_superblock`. But every other step, such a cut's aftermath
included, is a step of `RomCatalog` over all the slots (`ImplementsUnlessTorn`), in which a call
takes effect with the first page of its superblock (`InEffect`).

*Caller.* With `CallerDisciplined` a caller that erases a slot gives up its upload. That is what
`MainLoop` shows of the real one: `UploadFollowsToken` says that whoever may continue an upload
has had nothing done to it since.

### MainLoop

*State.* `write_token`, `can_accept_boot_command`, `selected_boot_slot_num` and `desired_state`
are the variables of `main.cpp` and `magic-io.cpp`; `user_requested_boot` the request fields of
magic I/O; `menu` the place the menu program has reached (`in_menu` of the firmware is
`menu # "rom"`); `running` what the firmware loaded in its place; `job` the program at the other
end of each source; `catalogue` and `upload` come from `RomCatalog`. `accepted` is history.

*Steps.* One action per packet type, since `handle_packet` runs to completion in one thread and
sends one reply; one per signal of the menu; `MenuDispatch` and `MenuLeave` for the menu's looks
at the desired state. `StartJob` is a new program, after its ping; `QuitJob` one that dies with
its packet undelivered or of no effect (a wireless configuration sent to a board without wireless
is answered NOTW, takes no token, and the program ends); `GoOn` lets it die after delivery.
`MinitelReset` resets the CPU but not the Pico, `PowerCycle` both.

*Abstractions.* A ROM is a sequence of chunks, the last chunk uploaded being the one in the
sector buffer, which `HandleErase` ruins if another source is uploading. Data-partition calls are
atomic here because `ConfigurationPartition` implements `RomCatalog`: for all its slots, unless
the power goes between two pages of a superblock. `PowerCycle` stands for all the other cuts; what
that one does to the catalogue is `torn_superblock`'s. PING and TRACE change
nothing; OTA is `OtaPartition`'s. The data partition is valid.

### MagicIo

*State.* `area` is the part of the emulated ROM that holds `MAGIC_IO_t`, one value per field;
`serial_*` and `configuration_load_last_address` are the statics of `magic-io.cpp`; `todo` the
writes the running function of the firmware has yet to do and `signal` what it returns then.
`phase` is the place in the menu program, `polling` the fields that the current call of
`magic-io.c` has still to poll, `screen` the bytes of configuration blocks drawn so far. `served`,
`taken` and `received` are history.

*Steps.* A handler of `magic_io_analyze_traces` (`Handle...`) may run when the Minitel polls its
field (`Sampled`); it changes RAM and leaves its writes in `todo`, in the order of the code.
`WriteNext` does one; array loops count as one. Then the main loop acts on the signal. Meanwhile
the Minitel polls (`PollDone`), draws, and moves on. `MinitelReset` may come at any moment.

*Why `Sampled` may ask for a field that is still being waited for.* The firmware acts on three or
more reads of one active field in a window that begins after its last write. The menu reads a
field it no longer waits for once, and leaves a field only when the firmware has written it. (In
its idle loop it may read `configuration_changed` three times while it is 0; the answer is to
write 0.) A window with two fields in it is ignored by the code and is no step.

*Refinement.* `Outgoing` is the signal being returned followed by the request the menu is making;
`Queued` reads the ring buffer. `Mailbox` then says: once each, in order, dropped only when the
queue is full, and a Minitel that has reset finds nothing of the session before.

### OtaPartition

*State.* `flash` is the two firmware partitions, in pieces; `current` the one the firmware runs
from; `write_cursor` (in `write_status`) and `buffer` the members of the same names; `ota_token`
that of `main.cpp`; `job` the program at each source; `todo` the flash operations that the packet
being handled has still to do and `serving` the reply it then gets.

*Steps.* One action per OTA packet, each with what it does in RAM; its flash operations follow one
by one in `FlashOperation` (erase a sector, program a page, zero the end marker of the running
image), then `Reply`. `PowerCycle` may come before any of them; `BootChoice` is what the boot ROM
then does, as far as the code relies on it: it looks at the start and the end of an image only, and
prefers A. `QuitJob` kills a program at any point.

*Abstractions.* A packet of 128 bytes and a flash page of 256 are both one piece. Images fit in the
partition. Partition A holds nothing after the factory image; what B held before the installation
is arbitrary, but for its first sector.

### CliProtocol and CliLink

*State.* `decoder` is a `CliProtocolDecoder`; the checksum is the real one (`MCCliLink` asserts its
published check value), since what matters is what the decoder makes of bytes that were never
meant to be where they are. `up` and `down` are the bytes under way on each wire: one serial wire
that programs use one after the other, or one connection per program. `pc` and `answers` say how
far a program is, `curr_client` and `pcb` are those of `TcpClient`. `pending`, `log`, `undisturbed`
and `deaf` are history. A behaviour is over one kind of link; the firmware keeps a decoder for
each, and they share nothing.

*Steps.* The firmware takes one byte at a time (`IngestSerial`, `OnRecv`) and replies at once. A
program reads a reply in one step (`Receive`, `ReceiveError`), but may be killed or time out at any time,
with its packet sent whole (`Kill`) or in part (`KillMidPacket`); the rest of the reply to it may
reach the next program, since only what has arrived is flushed (`StartSerial`). Bytes are lost in
both directions, and another program may write to the serial port. `StartTcp` is a new
connection: the one before is aborted and the decoder reset.

*Abstractions.* Commands are WRITE_DATA packets, always answered OK: what `handle_packet` does is
in `MainLoop`. The maximum length of data is a constant. Left out: a TCP reset from the program's
side (the firmware registers no error callback), a full send buffer (the result of `tcp_write` is
ignored), and data that holds a whole packet with a right checksum. On the serial
link a decoder that lost step would accept that one, so there `OnlySentPackets` and `RepliesAreOwn`
are stated of data that holds none (`PlainData`); the code's 128 bytes of a ROM may.

### RomSwitch

*State.* `mem` is the emulated ROM; `emitted`, `pins`, `out_runs`, `dir_runs`, `bus_enabled` and
`nops_disabled` are what decides who drives the bus, and with what; `latch` is the phase of the PIO
program that passes addresses on, `fifo` and `dma` the way to the output register. `cpu` is an 8052
at the level of fetches: one-byte instructions fetch the next byte and drop it, the trampoline's
jump fetches its operand and twice what follows, which is why the trampoline has a third byte.
`at` and `i` are where the firmware is; `high` counts the samples in a row that were of the
trampoline. `running` and `torn` are history.

*Steps.* Each register access and each byte written by the firmware is a step, from `mememu_setup`
to the loop and from the trampoline to the user's ROM, interleaved with `Fetch`, `Transfer` and
`Read`. `board` is one that parks the CPU on zeros from a 74HCT541 (and runs the menu), or one that
holds it in reset (and runs the embedded ROM). The Minitel may restart at any moment; commands
may write a field of magic I/O whenever the main loop gets to them.

*Abstractions.* Code of the menu, or of the user's ROM, is a byte that may jump anywhere in its
program. Timing is left out but for three things. The DMA answers within a fetch, and before
the next register access of `mememu_stop`, which takes longer than a PIO cycle. The address
is still sampled in the fetch in which the latch is set going (see the hazard at
`mememu-common.pio:31` for when it is not). And `sleep_us(200)`, some 470 fetches, lasts at least
`Sleep` of them. RAM is left out, with the second core that writes it.

## 3. What is checked

| Run | Bounds | Shows |
|---|---|---|
| `partition_power_cuts` | 2 slots on 2 pages, 2 sectors in the ring, 2 blocks of 2 bytes, 2 byte values, 3 flushes | a power cut anywhere leaves a catalogue of complete ROMs; RAM and flash agree between calls; the current superblock is never the one erased; `RomCatalog` is implemented for the slots on the counter's page, and in every step but a cut between two pages for all slots |
| `torn_superblock` | as above, 1 block | **violation** of `PowerCutTolerated` |
| `erase_during_upload` | undisciplined caller, 5 flushes | **violation** of `RomIntact` |
| `main_loop` | 2 slots, 1 image of 2 chunks, the tunnel and USB | ROMs are whole, the token guards the upload, success reports are true, the menu is left exactly on an accepted request, and an accepted request gets there |
| `busy_boot` | same | **violation** of `BusyBootChangesNothing` |
| `lost_boot` | same | **violation** of `AcceptedBootStands` |
| `magic_io` | 1 slot, 2 blocks of 2 bytes, 1 change of each, 2 byte values, a queue of 2, generations modulo 2 | the code's "should never happen" branches never do; lines on screen are whole and no change goes unnoticed; `Mailbox` is implemented |
| `magic_io_progress` | 1 byte value, blocks and queue of 1 | every handshake ends; the screen catches up |
| `ota_update` | partitions of 3 sectors of 2 pieces, images of 6 and 3 pieces, 2 programs, any number of power sessions | the boot ROM always finds a whole image; a reported update is started next; an update is one program's from begin to end |
| `ota_twice` | same, without `OncePerSession` | **violation** of `MagicValueExpected` |
| `cli_link` | 3 programs, data of up to 4 bytes, a ping of 2 bytes and 2 commands each, 1 fault | the firmware handles what was sent and nothing else, in order (no data of the run holds a packet); it is deaf for no longer than the longest packet; no program takes another's reply; one TCP client at a time; a program that starts in step is answered to the end |
| `rom_switch` | 8 addresses, 3 sizes of ROM, 7 samples, pauses of 1 fetch, 2 restarts | the bus is always driven, and never by two with different values; the CPU runs zeros, the trampoline and whole programs; the user's ROM starts at address 0, complete, and stays so; it does start |

Why the bounds suffice. *Partition*: two sectors are the smallest ring in which the current and
the next superblock differ, and make it wrap at every second flush; two pages give slots on the
counter's page and off it; two blocks with two bytes give every position of the cursor (start,
inside and end of a block, end of the ROM); three flushes are a write_begin, a write_end and one
more to overwrite a used sector. *Main loop*: two slots so that one is erased while the other is
written, two chunks so that an upload has a middle, two programs so that one interferes with the
other; a program restarts any number of times. One image is enough to see a mixture, since a
chunk twice or out of order is no image. The proofs cover all other values.
*Magic I/O*: two blocks so that one could be shown in place of the other, two bytes so that a
block can be torn, two byte values so that order shows, a queue of two so that an answer finds it
empty, half full and full and the ring wraps; two generations are the hardest case, since the
count repeats at once. One change per block is enough to make any line stale at any moment.
*Firmware update*: three sectors give a first, a last and one that the boot ROM does not look at;
two sizes make images end in different sectors, at the end of one and inside one, and leave
remnants of the longer after the shorter. The programs are symmetric.
*Links*: the first program leaves the link in any state, the second meets it, the third shows what
is left. The first command has the longest data the decoder takes, so that the buffer is full and
a torn packet swallows the next ping, and begins like a packet; one ping contains the first byte
of the magic, as does the stray byte. One fault, anywhere, and any number of kills. The bound on
deafness, 2 pings here, is tight (1 is violated), but three programs have the pings to reach it
only when the fault is in the first one's; the theorem `Deafness` covers the rest. For the real
sizes it is 1 + (1024 + 6) / 17 + 1 = 62 pings.
*ROM switch*: five ordinary addresses are enough for a first one, some in the middle and the magic
I/O field; sizes are the smallest, one that ends before the field, and the whole memory. Seven
samples are the fewest that a CPU running through the end of the memory cannot produce
(`SizesAssumption`), where the code takes 128. Pauses of one fetch are the hardest case; with none
the jump's operand is executed (`NoStrayExecution` fails), so the code's pauses are needed.

Fairness (`MainLoop!Fairness`). Weak fairness of `MenuDispatch` and `MenuLeave`: the menu's loops
have no blocking calls and come back to the desired state. Strong fairness of `InTrampoline`: in
the trampoline the CPU does nothing but fetch it, so the firmware sees it within two windows,
unless someone resets the Minitel over and over just before. Programs, users, resets and power
cycles have no fairness.

`MagicIo!Fairness`. Weak fairness of the firmware's loop and of the menu's: neither blocks. Strong
fairness of `PollDone`: the menu polls every few instructions, so it cannot miss every one of the
moments in which a field has been changed and not changed back; and of `TestChanged`: a scan of
the keyboard is finite. Keys, packets, serial bytes and resets have no fairness.

`CliLink!Fairness`. Weak fairness of `IngestSerial` and `OnRecv`: the main loop polls all its sources
on every turn. Weak fairness of `Receive` for a program to which nothing has happened since it
started: it blocks in a read. `RomSwitch!FairSpec`. Weak fairness of the firmware, the CPU and the
DMA, none of which waits for another but as modelled; restarts are bounded.

`ConfigurationPartition` and `OtaPartition` have safety properties only.

### Disagreements found

* **A power cut during an update can lose ROMs** (`torn_superblock`). The superblock is programmed
  in nine pages and its generation counter is in the first; `open()` looks at the counter alone.
  Cut between pages, the newest counter stands over an incomplete catalogue. `partition.h:65`
  says that the scheme is there to tolerate this.
* **`erase()` during an upload** (`erase_during_upload`). `set_wireless_config` aborts an upload
  because it clobbers the buffer (`partition.cpp:288`); `erase` clobbers it too and does not. The
  write token keeps the programs of this repository from going on with such an upload
  (`UploadFollowsToken`), so this is a trap in the class, not in the product.
* **A refused boot command changes what is booted** (`busy_boot`, `main.cpp:127`): a second command,
  answered BUSY, leaves its own slot selected in place of the accepted one's. A key pressed then
  does the same (`main.cpp:492`), without an answer.
* **Client mode cancels an accepted boot** (`lost_boot`, `main.cpp:505`), and no boot command is
  accepted until the power is cycled.
* **A second firmware update without a power cycle stops the firmware** (`ota_twice`,
  `partition.cpp:371`): its own end marker is already zeroed and `hard_assert` fails. While the
  second update is being written, the only bootable image is the one it overwrites.

## 4. What is proved

`ConfigurationPartition_proofs`, for every number of slots, sectors (two or more), pages and byte
values and every layout: `TypeCorrect`, `HalfWrittenInvisible`, `DurableBetweenCalls`,
`FlushesSpareCurrent`. The inductive invariant `IInv` has to say what holds in the middle of a
flush, which the properties do not: before page 0 is programmed the sector being written is not
the current one and its new generation is one less than the current (`FlushBefore`); from page 0
on it is the current one and holds the pages programmed so far (`FlushAfter`); outside a flush RAM
and flash agree (`InSync`); and a sector being programmed lists nothing that RAM does not
(`FlushHides`). `CurrentUnique` and `RecoveredCurrent` say that what `open()` finds is well
defined; `Successor` that its modulo and the flush's comparison are the same round robin.

`RomCatalog_proofs`, for the same constants and a caller that gives up an upload whose slot it
erases (`CallerDisciplined`, which `MainLoop!UploadFollowsToken` shows of the real one): what a slot
holds was committed to it, and `ConfigurationPartition` implements `RomCatalog`. Both are proved
twice. `AtomicSlotsIntact` and `AtomicSlotsRefinement` are of `Spec`, and only of the slots on the
page of the generation counter: 2 of the 16. The others are of all slots, but exclude a power cut
between two pages of one superblock, since `PowerCutTolerated` fails there: `Refinement` (every other
step of `Spec` is one of the catalogue), and for a partition to which that never happens
(`WholeSpec`) `ListedRomsIntact` and `WholeRefinement`.

`CInv` adds to `IInv` where the bytes of an upload are: those of complete
blocks in the ROM area, the others in the buffer (`UploadKept`), both while the next block is
being written (`BlockKept`), and while `write_end` flushes the superblock that will list the ROM
all in the ROM area (`FlushPending`, `FlushUpload`). The steps are of two kinds. Those that program
no page of a superblock are `Quiet`: no slot changes, and the upload grows, is given up or stays.
Page 0 of a superblock makes of the catalogue what the call announced (`NewListing`): open() finds
that at once in the slots on its page (`AtomicFirstPage`), and in the others when the later pages
have followed (`PageInEffect`), which they do if the power stays (`BetweenPages`).

`OtaPartition_proofs`, for every number of sectors, pieces and programs and every set of sizes:
`TypeCorrect` without further assumption; with one update per power session (`OncePerSession`;
what happens without it is the finding of `ota_twice`), `AlwaysStartable`, `MarkerFound`, `FollowsToken`
and the action property `TakesEffect`. `IInv` has to say where an update is while its flash
operations are under way: pieces before the cursor are the image's (`UploadOf`), then the last
piece, then the end marker of the running image (`FinishOf`); until that marker is zeroed the
running image is intact, and from then on its replacement is (`Startable`). `MarkerFound` is what
the code asserts in `ota_end` (`partition.cpp:371`).

`MainLoop_proofs`, for every number of slots, images, chunks and sources: `TypeCorrect`,
`RomsAreWhole`, `TokenGuardsUpload`, `BootsOnRequest`, `DeadKeys` and the action property
`StoreReportsTruth`. `WholeRoms` is inductive only together with `UploadFollowsToken`: a commit is
whole because the token holder's upload is all it has sent, and END comes after the last chunk.
`BootInv` adds that a trampoline is wanted only after an accepted request.

`MagicIo_proofs`, for every number of slots, bytes, blocks, cells and generations and any size of
the queue: `TypeCorrect`, `NoRecovery`, `WholeLines`, `NoChangeMissed`. What the menu's next poll
finds depends on writes the firmware has yet to do, so the invariant speaks of a field together
with the rest of `todo`: the field keeps a value, comes to have it (`Settles`), or has one write
left that turns it (`Turns`), before another's (`Before`); every write the firmware goes on to do
leaves these true (`WriteKeeps`). A handshake on two fields is then at one of four stages (`Rest`,
`Taken`, `Seen`, `Done`), which is what `TxInv`, `RxInv` and `LoadInv` say of the three of them,
with the RAM that belongs to each. The invariants hold in an open session only (`Open`):
`Preparing` says that `magic_io_prepare_rom` runs outside one and writes the generation last, so
that a session opens with all fields at rest (`Opens`), wherever the Minitel was when it
restarted. `CellInv` follows a block from its request to its last byte on the screen: the version
it is filled with is the latest, or `configuration_changed` is set and stays so until the menu asks
for it to be cleared (`ChangedInv`). `Sparing` sorts the steps by the fields they touch. The
proofs need that `None` is told from values (`NoneAssumption`) and that no reply is a reply
(`AnswersAssumption`).

The same module proves `Implementation`: magic I/O implements `Mailbox`. Its invariant `MailInv`
adds to the one above what ties the two halves of a request together. In an open session the
fields of a request that nobody is making are at rest (`SyncInv`, `BootInv`). A request in the main
loop's hands has its last field cleared, or about to be (`SignalInv`), and the field the menu polls
last has a write to come only when that is so (`EndsInv`). So `Asking` gives up a request in the
very step in which the firmware takes it, which is why none is lost or acted on twice; that also
holds for a request whose Minitel restarts between two writes. `HeldInv` says that the byte the
menu is about to read is the one that was popped for it, `AwayInv` that a restarted Minitel holds
none, and `ReadyInv` that it finds the queue empty and the firmware idle once the generation has
changed. With them every step is one of `Mailbox` or unseen by it (`MailNext`); `WindowMoved` and
`WindowFilled` say that taking from the ring buffer and adding what fits of an answer are that on
the queue, wherever it wraps.

`RomSwitch_proofs`, for every size of memory and ROM, any `Sleep` of at least one fetch, more than
six `Samples` and any number of restarts: `TypeCorrect`, `AlwaysDriven`, `StaysWhole` and the action
properties `StartsAtZero` and `NoStray`.
`RomStaysWhole` follows from where the firmware is (`Phases`) and what it has written by then
(`Contents`). `EntersAtZero` needs the path of a byte: one of the user's ROM is only emitted while
the latch passes on all the addresses (`Emitting`), and is then what the memory holds at the
address on the bus (`Fetching`). So the first such byte the CPU executes comes after the latch saw
address 0, which leaves the CPU at 0 or at the last address on its way to 0 (`Entering`), unless
it fetched address 0 in the middle of a jump or of the menu's code: `Executing` says where those
are. That `mememu_stop` leaves no byte of the old ROM in the register rests on the pause after the
last write (`Sleeping`), hence the assumption on `Sleep`.

`NoStrayExecution` needs in addition what the CPU does before that (`ExecutionInv`). Before the
latch has seen address 0 it reads zeros (`Zeros`) and walks from address to address (`Walk`). On its
way through the trampoline it is sampled there once a fetch, six times at most (`Passing`). From
address 0 on it is in the menu or in the jump (`Serves`). So the firmware, when it starts to clear
the ROM, has a CPU in the jump before it, which is `TraceIsRight`; with six samples or fewer it could
be one that passes, hence the assumption on `Samples`. `Overwriting` says where the CPU can be at
each of the firmware's writes from then on, a restarted one included, and `Stale` which byte it can
read that is no longer in memory: the jump's operand or, after the last write, its opcode. The
order of the two writes is what keeps the operand from being executed.

`CliProtocol_proofs`, for every maximum length of data: `DecoderInvertsEncoder`, whatever the data
of a packet looks like, its checksum included. `Midway` says what the decoder holds after k bytes of
a packet, and `OneByteMore` that the next byte takes it from k to k + 1, or to its error state at
the length of a packet that is too long. The checksum and the decoder are loops; both are followed
by looking at the first turn at which the claim would fail (`LeastElement`, from the library's
well-foundedness of the natural numbers), which needs no induction rule. `ChecksumByByte` is that a
checksum is its last byte's step from the checksum before, so that the two ends, one with the whole
packet and one byte by byte, come to the same value.

`CliLink_proofs`, for any number of programs and commands and all data: `TypeCorrect` (no byte is
stored past the decoder's buffer, on either link, whatever is lost, torn or strays in) and
`LastClientOnly`; and over TCP `TcpOnlySentPackets` and `TcpRepliesAreOwn`, the action properties
`OnlySentPackets` and `RepliesAreOwn`. Over TCP a program has at most one packet or reply under
way, and `Connection` says where: taken by the decoder up to byte k, with the next bytes on the
wire (`InPart`, and `Rest`, since a program that dies may leave any part of them), or answered
(`Replied`), or lost with the connection (`Lost`). A new connection finds the decoder reset and
the old one aborted, which is why a packet torn by one program is never completed by the next.
Data is anything whose length fits the two bytes that `transfer_packet` packs it in
(`JobAssumption`, `PingDataAssumption`).

`Deafness` is `BoundedDeafness` over the serial link, where nothing resets the decoder between two
programs. Once a ping went without an answer, nothing comes back and only pings are sent, so the
wire holds pings and the end of one (`Pings`), and the decoder is in one of the four places of
`Somewhere`, which it visits in order: it takes the pings for the rest of an old packet
(`Swallowing`), looks for begin magic in the middle of one (`Searching`), and then is where one
begins (`AtStart`) or in one (`Midst`), which it answers, by `OneByteMore`. What it swallows is paid
from `Left`, the bytes that it can still take before it is at the end of a packet or at a mismatch:
every byte takes at least one (`OneLess`), and every ping that got no answer had to be sent first. A
program that is killed with its ping taken (`OneMore`) is the only step that counts, and one program
uses the port at a time (`Alone`). The hypothesis `PlainPings` is about the data of pings only: they
have one length (the code sends 8 random bytes), which the decoder accepts, and do not contain the
two bytes of begin magic. The last is not certain of random data, only likely (some nine chances in
65536 that one does). It is needed: a decoder that takes the middle of a ping for the beginning of a
packet swallows the next ones, and with other such pings it could go on without end.

The proofs use the named assumptions on the constants and no others. Only model-checked:

* `BootHappens`, `CallsEnd`, `ScreenCatchesUp`, `Answered` and `BootCompletes`: liveness is out of
  the prover's reach.
* Over the serial link, `OnlySentPackets` and `RepliesAreOwn`. They are not true of data that holds a
  whole packet, hence `PlainData`: a byte lost in front of it makes the decoder accept that one. Nor
  of all other data: a checksum of two bytes may fit a beginning of a packet and what was not its
  end. TLC checks them for the data of `MCCliLink`.
* That the checksum is the CRC of the standard; `MCCliLink` asserts its check value. The proofs
  need only that both ends compute the same function.

## 5. Not modelled

Not modelled, and why:

* *Keyboard scanning* (`src/lib/board`, `src/lib/keyboard`) and the *examples* (`src/examples`). No part
  of the emulator runs them: the menu scans the keyboards of the other models with plain reads,
  and is not built for the 722039m. What their interrupt handlers share with the main loop is
  accessed in `__critical` sections.
* *Emulated RAM*: whether core 1 stores a byte while WR is low is a matter of its cycles alone.
* *TRACE*, the LED, and the mode without a valid partition.
* PIO cycle timing, lwIP and the wireless chip, video drawing, the generators' file formats, and
  the circuit boards: out of reach, or without state.
