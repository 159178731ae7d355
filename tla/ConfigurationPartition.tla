---------------------- MODULE ConfigurationPartition ----------------------
(***************************************************************************)
(* The data partition of the ROM emulator (class ConfigurationPartition of *)
(* partition.cpp): a ring of superblock sectors, each a whole catalogue of *)
(* the ROM slots, followed by the contents of the ROMs.                    *)
(*                                                                         *)
(* The firmware calls the class from one thread, so calls never overlap.   *)
(* What interrupts them is the power switch: every flash operation a call  *)
(* makes is a step of its own, and PowerCut may come between any two.      *)
(* A sector is erased in one step and programmed page by page, in order.   *)
(*                                                                         *)
(* upload and committed are history variables: what the caller has         *)
(* uploaded since its last write_begin, and what each commit stored.       *)
(***************************************************************************)
EXTENDS Integers, Sequences

CONSTANTS
  Slots,              \* the ROM slots
  Byte,               \* the values a byte of a ROM takes
  Networks,           \* the wireless configurations
  NotConfigured,      \* WirelessConfig::NotConfigured, and zeros
  NumSuperblocks,     \* NUM_SUPERBLOCKS
  NumPages,           \* program operations (pages) per sector
  SlotPage,           \* the page that holds rom_slots[s].size
  WirelessPage,       \* the page that holds the wireless configuration
  SectorSize,         \* FLASH_SECTOR_SIZE
  MaxMemSize,         \* MAX_MEM_SIZE
  WordWidth,          \* bits of generation_counter and of RomInfo.size
  LastGeneration,     \* bound: no flush starts at or below this generation
  Erased,             \* what an erased sector holds, all ones
  Junk,               \* a byte that was not meant to be part of a ROM
  None,               \* std::nullopt
  CallerDisciplined   \* TRUE: a caller that erases a slot gives up its upload

Pages == 0 .. NumPages - 1
Sectors == 0 .. NumSuperblocks - 1
AllOnes == 2 ^ WordWidth - 1
NotPresent == AllOnes               \* RomInfo.size of an absent ROM
InvalidGeneration == AllOnes        \* generation_counter of no superblock
Cell == Byte \cup {Erased, Junk}
BlockCells == 0 .. SectorSize - 1

ASSUME RingAssumption == NumSuperblocks \in Nat /\ NumSuperblocks >= 2
ASSUME PagesAssumption ==
  /\ NumPages \in Nat \ {0}
  /\ SlotPage \in [Slots -> Pages]
  /\ WirelessPage \in Pages
ASSUME MemoryAssumption ==
  /\ SectorSize \in Nat \ {0}
  /\ MaxMemSize \in Nat \ {0}
  /\ MaxMemSize % SectorSize = 0
ASSUME WordAssumption ==
  /\ WordWidth \in Nat /\ AllOnes \in Nat
  /\ MaxMemSize < AllOnes
  /\ LastGeneration \in Nat
ASSUME CellAssumption == Erased \notin Byte /\ Junk \notin Byte \cup {Erased}

WriteStatus == [slot : Slots, cursor : 0 .. MaxMemSize]
Upload == [slot : Slots, data : Seq(Byte)]
ASSUME NoneAssumption == None \notin Slots \cup Byte \cup WriteStatus \cup Upload

Size == 1 .. MaxMemSize
WirelessConfig == Networks \cup {NotConfigured, Erased}
Superblock == [gen : 0 .. AllOnes, size : [Slots -> Size \cup {NotPresent}],
               wireless : WirelessConfig]

\* A superblock of all ones: an erased sector, and the empty configuration.
Blank == [gen |-> InvalidGeneration, size |-> [s \in Slots |-> NotPresent],
          wireless |-> Erased]

VARIABLES
  sb,                      \* flash: the superblock sectors
  rom,                     \* flash: the ROMs' contents
  superblock_contents,     \* RAM: the superblock the firmware works on
  superblock_write_index,  \* RAM: the sector the next flush writes
  write_status,            \* RAM: the upload in progress, or None
  buffer,                  \* RAM: the sector buffer all flash writes share
  op,                      \* the call in progress and its next flash operation
  upload, committed        \* history

ram == <<superblock_contents, superblock_write_index, write_status, buffer>>
vars == <<sb, rom, ram, op, upload, committed>>

Calls == {"none", "write_begin", "write_data", "write_end", "erase", "set_wireless"}
Steps == {"off", "idle", "block_erase", "block_program", "erase", "program"}
Idle == [step |-> "idle", page |-> 0, call |-> "none", arg |-> None]
Off == [Idle EXCEPT !.step = "off"]

-----------------------------------------------------------------------------
(* Flash sectors.                                                          *)

BitsWithin(new, old) ==
  \A i \in 0 .. WordWidth - 1 : (new \div 2 ^ i) % 2 = 1 => (old \div 2 ^ i) % 2 = 1

\* NotPresent has all its bits set: it lies within NotPresent alone, and all in it.
SizeWithin(new, old) ==
  old = NotPresent \/ (new # NotPresent /\ BitsWithin(new, old))

\* Would writing superblock new over old turn a 0 into a 1?
NeedsErase(new, old) ==
  \/ ~ BitsWithin(new.gen, old.gen)
  \/ \E s \in Slots : ~ SizeWithin(new.size[s], old.size[s])
  \/ old.wireless \notin {Erased, new.wireless}

\* Sector contents after page p of new is programmed over old.
ProgramPage(old, new, p) ==
  [gen |-> IF p = 0 THEN new.gen ELSE old.gen,
   size |-> [s \in Slots |-> IF SlotPage[s] = p THEN new.size[s] ELSE old.size[s]],
   wireless |-> IF WirelessPage = p THEN new.wireless ELSE old.wireless]

IsCurrentLast(sbs, i) ==  \* mutated: the highest generation wins
  /\ i \in Sectors
  /\ sbs[i].gen # InvalidGeneration
  /\ \A j \in Sectors : sbs[j].gen # InvalidGeneration => sbs[i].gen >= sbs[j].gen

\* open() prefers the sector i: the lowest generation, the first if it is not alone.
IsCurrent(sbs, i) ==
  /\ i \in Sectors
  /\ sbs[i].gen # InvalidGeneration
  /\ \A j \in Sectors : IF j < i THEN sbs[i].gen < sbs[j].gen ELSE sbs[i].gen <= sbs[j].gen

\* The superblock and the write index open() finds in flash.
Recovered(sbs) ==
  IF \E i \in Sectors : IsCurrent(sbs, i)
  THEN sbs[CHOOSE i \in Sectors : IsCurrent(sbs, i)] ELSE Blank
RecoveredIndexSame(sbs) ==  \* mutated: write over the current superblock
  IF \E i \in Sectors : IsCurrent(sbs, i)
  THEN CHOOSE i \in Sectors : IsCurrent(sbs, i) ELSE 0
RecoveredIndex(sbs) ==
  IF \E i \in Sectors : IsCurrent(sbs, i)
  THEN ((CHOOSE i \in Sectors : IsCurrent(sbs, i)) + 1) % NumSuperblocks ELSE 0

-----------------------------------------------------------------------------
(* Initially the partition is as generate-data-partition.py makes it, with *)
(* no ROM, or all erased; the power is off.                                *)

FactoryImages ==
  {[i \in Sectors |-> Blank],
   [i \in Sectors |->
      IF i = 0 THEN [Blank EXCEPT !.gen = InvalidGeneration - 1, !.wireless = NotConfigured]
      ELSE Blank]}

Clobbered == [i \in BlockCells |-> Junk]

Init ==
  /\ sb \in FactoryImages
  /\ rom = [s \in Slots |-> [i \in 0 .. MaxMemSize - 1 |-> Erased]]
  /\ superblock_contents = Blank
  /\ superblock_write_index = 0
  /\ write_status = None
  /\ buffer = Clobbered
  /\ op = Off
  /\ upload = None
  /\ committed = [s \in Slots |-> <<>>]

Open ==
  /\ op = Off
  /\ superblock_contents' = Recovered(sb)
  /\ superblock_write_index' = RecoveredIndex(sb)
  /\ op' = Idle
  /\ UNCHANGED <<sb, rom, write_status, buffer, upload, committed>>

\* The power goes: RAM is lost, and with it the caller's upload.
PowerCut ==
  /\ op # Off
  /\ superblock_contents' = Blank
  /\ superblock_write_index' = 0
  /\ write_status' = None
  /\ buffer' = Clobbered
  /\ op' = Off
  /\ upload' = None
  /\ UNCHANGED <<sb, rom, committed>>

-----------------------------------------------------------------------------
(* flush_superblock_contents, up to its first flash operation. The counter *)
(* is decremented without a check; 2^32 flushes outlive the flash, and the *)
(* model stops flushing at LastGeneration. The generation being new,       *)
(* buffer and sector always differ.                                        *)

CanFlush == superblock_contents.gen > LastGeneration

StartFlush(contents, call, arg) ==
  LET image == [contents EXCEPT !.gen = @ - 1]
  IN /\ superblock_contents' = image
     /\ buffer' = Clobbered
     /\ op' = [step |-> IF NeedsErase(image, sb[superblock_write_index])
                        THEN "erase" ELSE "program",
               page |-> 0, call |-> call, arg |-> arg]

EraseSector ==
  /\ op.step = "erase"
  /\ sb' = [sb EXCEPT ![superblock_write_index] = Blank]
  /\ op' = [op EXCEPT !.step = "program"]
  /\ UNCHANGED <<rom, ram, upload, committed>>

\* With page 0 the new generation counter is in flash: the call takes effect.
Linearize ==
  \/ /\ op.page = 0 /\ op.call = "write_begin"
     /\ upload' = [slot |-> op.arg, data |-> <<>>]
     /\ UNCHANGED committed
  \/ /\ op.page = 0 /\ op.call = "write_end"
     /\ committed' = [committed EXCEPT ![upload.slot] = upload.data]
     /\ upload' = None
  \/ /\ op.page # 0 \/ op.call \in {"erase", "set_wireless"}
     /\ UNCHANGED <<upload, committed>>

ProgramSector ==
  /\ op.step = "program"
  /\ sb' = [sb EXCEPT ![superblock_write_index] =
                        ProgramPage(@, superblock_contents, op.page)]
  /\ Linearize
  /\ UNCHANGED <<rom, superblock_contents, buffer>>

ProgramNextPage ==
  /\ op.page < NumPages - 1
  /\ ProgramSector
  /\ op' = [op EXCEPT !.page = @ + 1]
  /\ UNCHANGED <<superblock_write_index, write_status>>

\* Round robin over the ring of superblocks.
NextIndexNoWrap == superblock_write_index + 1        \* mutated: off the end of the ring
NextIndexStuck == superblock_write_index             \* mutated: no round robin
NextIndex ==
  IF superblock_write_index + 1 = NumSuperblocks THEN 0 ELSE superblock_write_index + 1

\* The last page, the round robin, and what write_begin does after the flush.
ProgramLastPage ==
  /\ op.page = NumPages - 1
  /\ ProgramSector
  /\ superblock_write_index' = NextIndex
  /\ write_status' = IF op.call = "write_begin" THEN [slot |-> op.arg, cursor |-> 0]
                     ELSE write_status
  /\ op' = Idle

-----------------------------------------------------------------------------
(* The public operations.                                                  *)

WriteBeginKeepingSize(s) ==  \* mutated: the old ROM stays present
  /\ op = Idle
  /\ CanFlush
  /\ StartFlush(superblock_contents, "write_begin", s)
  /\ UNCHANGED <<sb, rom, superblock_write_index, write_status, upload, committed>>

WriteBegin(s) ==
  /\ op = Idle
  /\ CanFlush
  /\ StartFlush([superblock_contents EXCEPT !.size[s] = NotPresent], "write_begin", s)
  /\ UNCHANGED <<sb, rom, superblock_write_index, write_status, upload, committed>>

BlockNumOfCursor == write_status.cursor \div SectorSize  \* mutated: off by one
BlockNum == (write_status.cursor - 1) \div SectorSize

\* The cells of the ROM that block number BlockNum covers, and the buffer over them.
WriteBlock(contents, cells) ==
  [i \in 0 .. MaxMemSize - 1 |->
     IF i \div SectorSize = BlockNum THEN cells[i % SectorSize] ELSE contents[i]]

\* erase_and_write_from_buffer of the block, which nothing does if it is equal.
StartBlock(call, arg) ==
  op' = [step |-> IF WriteBlock(rom[write_status.slot], buffer) = rom[write_status.slot]
                  THEN "block_program" ELSE "block_erase",
         page |-> 0, call |-> call, arg |-> arg]

\* The byte goes to the buffer, which is blanked at the start of a block.
PushByte(v) ==
  LET block == IF write_status.cursor % SectorSize = 0
               THEN [i \in BlockCells |-> Erased] ELSE buffer
  IN /\ buffer' = [block EXCEPT ![write_status.cursor % SectorSize] = v]
     /\ write_status' = [write_status EXCEPT !.cursor = @ + 1]
     /\ upload' = [upload EXCEPT !.data = Append(@, v)]

\* The caller that gave its upload up does not come back to it.
CallerUploads == CallerDisciplined => upload # None

\* Past MaxMemSize, or with no upload in progress, the byte is dropped: no step.
WriteData(v) ==
  /\ op = Idle
  /\ CallerUploads
  /\ write_status # None
  /\ write_status.cursor < MaxMemSize
  /\ IF write_status.cursor % SectorSize = 0 /\ write_status.cursor # 0
     THEN StartBlock("write_data", v) /\ UNCHANGED <<buffer, write_status, upload>>
     ELSE PushByte(v) /\ UNCHANGED op
  /\ UNCHANGED <<sb, rom, superblock_contents, superblock_write_index, committed>>

WriteEnd ==
  /\ op = Idle
  /\ CallerUploads
  /\ write_status # None
  /\ write_status.cursor # 0
  /\ CanFlush
  /\ StartBlock("write_end", None)
  /\ UNCHANGED <<sb, rom, ram, upload, committed>>

\* While the block is erased and programmed its contents are anybody's guess.
BlockErase ==
  /\ op.step = "block_erase"
  /\ rom' = [rom EXCEPT ![write_status.slot] = WriteBlock(@, Clobbered)]
  /\ op' = [op EXCEPT !.step = "block_program"]
  /\ UNCHANGED <<sb, ram, upload, committed>>

BlockProgram ==
  /\ op.step = "block_program"
  /\ rom' = [rom EXCEPT ![write_status.slot] = WriteBlock(@, buffer)]
  /\ UNCHANGED <<sb, superblock_write_index, committed>>

BlockThenPush ==
  /\ op.call = "write_data"
  /\ BlockProgram
  /\ PushByte(op.arg)
  /\ op' = Idle
  /\ UNCHANGED superblock_contents

BlockThenCommit ==
  /\ op.call = "write_end"
  /\ BlockProgram
  /\ StartFlush([superblock_contents EXCEPT !.size[write_status.slot] = write_status.cursor],
                "write_end", write_status.slot)
  /\ write_status' = None
  /\ UNCHANGED upload

\* The only caller erases a slot only if it is present (main.cpp, ERASE).
Erase(s) ==
  /\ op = Idle
  /\ CanFlush
  /\ superblock_contents.size[s] # NotPresent
  /\ StartFlush([superblock_contents EXCEPT !.size[s] = NotPresent], "erase", s)
  /\ upload' = IF CallerDisciplined THEN None ELSE upload
  /\ UNCHANGED <<sb, rom, superblock_write_index, write_status, committed>>

SetWirelessConfig(cfg) ==
  /\ op = Idle
  /\ CanFlush
  /\ StartFlush([superblock_contents EXCEPT !.wireless = cfg], "set_wireless", None)
  /\ write_status' = None
  /\ upload' = None
  /\ UNCHANGED <<sb, rom, superblock_write_index, committed>>

Next ==
  \/ Open \/ PowerCut
  \/ EraseSector \/ ProgramNextPage \/ ProgramLastPage
  \/ BlockErase \/ BlockThenPush \/ BlockThenCommit
  \/ \E s \in Slots : WriteBegin(s) \/ Erase(s)
  \/ \E v \in Byte : WriteData(v)
  \/ WriteEnd
  \/ \E cfg \in Networks \cup {NotConfigured} : SetWirelessConfig(cfg)

Spec == Init /\ [][Next]_vars
-----------------------------------------------------------------------------
(* Properties.                                                             *)

TypeOK ==
  /\ sb \in [Sectors -> Superblock]
  /\ rom \in [Slots -> [0 .. MaxMemSize - 1 -> Cell]]
  /\ superblock_contents \in Superblock
  /\ superblock_write_index \in Sectors
  /\ write_status \in WriteStatus \cup {None}
  /\ buffer \in [BlockCells -> Cell]
  /\ op \in [step : Steps, page : Pages, call : Calls, arg : Slots \cup Byte \cup {None}]
  /\ upload \in Upload \cup {None}
  /\ committed \in [Slots -> Seq(Byte)]

Uploading(s) == write_status # None /\ write_status.slot = s

\* No flush erases or starts to program the sector a power cut would make the
\* firmware fall back on (partition.h: new versions go to a sector "different from
\* the current one"). Only the later pages of a flush, whose page 0 made its own
\* sector the current one, change the current sector.
FlushSparesCurrent ==
  [][op.page = 0 => \A i \in Sectors : IsCurrent(sb, i) => sb'[i] = sb[i]]_vars

\* Between calls the firmware's catalogue is what open() would find in flash: no
\* call returns before its change is durable, and no change is made in RAM alone.
Durable ==
  op.step = "idle" =>
    /\ superblock_contents = Recovered(sb)
    /\ superblock_write_index = RecoveredIndex(sb)

\* A slot that is being uploaded is absent in flash as well as in RAM, so that no
\* power cut, at any step of any call, leaves a half-written ROM in the catalogue.
UploadInvisible ==
  \A s \in Slots : Uploading(s) =>
    /\ superblock_contents.size[s] = NotPresent
    /\ Recovered(sb).size[s] = NotPresent

\* The slots whose size shares a page with the generation counter.
AtomicSlots == {s \in Slots : SlotPage[s] = 0}

RomData(s, n) == [i \in 1 .. n |-> rom[s][i - 1]]

\* Slot s of the superblock contents: the data of a ROM, or None.
Listing(contents, s) ==
  LET n == contents.size[s] IN IF n = NotPresent THEN None ELSE RomData(s, n)

\* What open() would find in slot s of flash.
Stored(s) == Listing(Recovered(sb), s)

\* Every ROM the flash catalogue lists holds exactly the bytes of the upload that
\* was committed to that slot last, whatever power cuts came between. (On a later
\* page a flush that needs no erase may be cut with the old size still in place.)
RomIntact == \A s \in AtomicSlots : Stored(s) \in {None, committed[s]}

\* The partition implements the catalogue of RomCatalog for the slots on the page
\* of the generation counter: a call takes effect when page 0 of its superblock is
\* programmed, and at no other step.
Catalogue == INSTANCE RomCatalog WITH
  Slots <- AtomicSlots,
  catalogue <- [s \in AtomicSlots |-> Stored(s)],
  upload <- IF upload = None \/ SlotPage[upload.slot] # 0 THEN None ELSE upload
ImplementsCatalogue == Catalogue!Spec

\* Not a power cut between two pages of a superblock.
FlushesWhole == op.page # 0 => op' # Off

\* What open() would find in slot s of flash when the flush under way is through.
InEffect(s) == Listing(IF op.page = 0 THEN Recovered(sb) ELSE superblock_contents, s)

\* The slots on the other pages share the promise in every step but a power cut between
\* two pages of a superblock (which is what PowerCutTolerated is about), also when the
\* power was cut in such a place before: every other step is one of the catalogue of all
\* the slots, or changes nothing there.
WholeCatalogue == INSTANCE RomCatalog WITH catalogue <- [s \in Slots |-> InEffect(s)]
ImplementsUnlessTorn ==
  WholeCatalogue!Init /\ [][FlushesWhole => WholeCatalogue!Next]_(WholeCatalogue!vars)

\* partition.h: a superblock goes to a sector of its own "in order to 1) tolerate
\* power cuts during updates". At every step of a flush a power cut would leave the
\* slots the call is not about as they are in the firmware's catalogue.
PowerCutTolerated ==
  op.step \in {"erase", "program"} =>
    \A s \in Slots \ {op.arg} : Recovered(sb).size[s] = superblock_contents.size[s]
=============================================================================
