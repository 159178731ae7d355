------------------------- MODULE RomCatalog_proofs -------------------------
(***************************************************************************)
(* Proofs that ConfigurationPartition keeps the promises of RomCatalog:    *)
(* what it lists is what was committed, and every step of it is a step of  *)
(* the catalogue or changes nothing there. For a caller that gives up its  *)
(* upload when it erases a slot (CallerDisciplined).                       *)
(*                                                                         *)
(* Twice: for the slots on the page of the generation counter, whatever    *)
(* the power does, and for all the slots, when the power does not go       *)
(* between two pages of a superblock. When it does, the other slots are    *)
(* not kept: PowerCutTolerated is violated.                                *)
(***************************************************************************)
EXTENDS ConfigurationPartition_proofs

-----------------------------------------------------------------------------
(* The inductive invariant, on top of that of the partition: where the     *)
(* bytes of an upload are.                                                 *)

\* The bytes before the sector in the buffer have gone to flash.
Filled(cursor) == IF cursor = 0 THEN 0 ELSE ((cursor - 1) \div SectorSize) * SectorSize
InRom(m) == \A k \in 1 .. m : rom[upload.slot][k - 1] = upload.data[k]
InBuffer(m, n) == \A k \in m + 1 .. n : buffer[(k - 1) % SectorSize] = upload.data[k]

UploadInStep ==
  write_status # None /\ write_status = [slot |-> upload.slot, cursor |-> Len(upload.data)]

\* Whatever the firmware has of an upload it has in flash and in the buffer.
UploadKept ==
  upload # None /\ ~ Flushing =>
    /\ op.step # "off" /\ UploadInStep
    /\ InRom(Filled(write_status.cursor))
    /\ InBuffer(Filled(write_status.cursor), write_status.cursor)

\* Blocks are written when they are full, or last.
BlockKept ==
  Blocking => /\ write_status.cursor # 0
              /\ op.call = "write_data" => write_status.cursor % SectorSize = 0

\* What a flush is about to put in the catalogue.
FlushPending ==
  Flushing /\ op.page = 0 =>
    /\ \A s \in Slots \ {op.arg} : superblock_contents.size[s] = Recovered(sb).size[s]
    /\ op.call \in {"write_begin", "erase"} =>
         op.arg \in Slots /\ superblock_contents.size[op.arg] = NotPresent
    /\ op.call = "write_end" =>
         /\ op.arg = upload.slot /\ Len(upload.data) \in Size
         /\ superblock_contents.size[op.arg] = Len(upload.data)
         /\ InRom(Len(upload.data))
    /\ op.call = "set_wireless" => op.arg = None

FlushUpload ==
  Flushing =>
    /\ op.call \in {"erase", "set_wireless"} => upload = None
    /\ op.page # 0 =>
         upload = IF op.call = "write_begin" THEN [slot |-> op.arg, data |-> <<>>] ELSE None

Kept == UploadKept /\ BlockKept /\ FlushPending /\ FlushUpload
CInv == IInv /\ Kept /\ RomIntact

-----------------------------------------------------------------------------
(* Blocks of a ROM.                                                        *)

LEMMA Division ==
  ASSUME NEW a \in Nat
  PROVE  /\ a \div SectorSize \in Nat /\ a % SectorSize \in 0 .. SectorSize - 1
         /\ (a \div SectorSize) * SectorSize \in Nat
         /\ a = (a \div SectorSize) * SectorSize + (a % SectorSize)
BY MemoryAssumption

LEMMA Multiples == ASSUME NEW a \in Nat, NEW b \in Nat, a <= b
                   PROVE  /\ a * SectorSize \in Nat /\ b * SectorSize \in Nat
                          /\ a * SectorSize <= b * SectorSize
BY MemoryAssumption

\* The block of a position is the number of whole blocks before it.
LEMMA BlockOf ==
  ASSUME NEW a \in Nat, NEW q \in Nat, q * SectorSize <= a, a < q * SectorSize + SectorSize
  PROVE  a \div SectorSize = q /\ a % SectorSize = a - q * SectorSize
<1>1. /\ a \div SectorSize \in Nat /\ a % SectorSize \in 0 .. SectorSize - 1
      /\ (a \div SectorSize) * SectorSize \in Nat
      /\ a = (a \div SectorSize) * SectorSize + (a % SectorSize)
  BY Division
<1>2. SectorSize \in Nat \ {0} /\ q * SectorSize \in Nat
  BY MemoryAssumption
<1>3. CASE a \div SectorSize < q
  <2>1. (a \div SectorSize + 1) * SectorSize <= q * SectorSize
    BY <1>1, <1>3, Multiples
  <2>2. (a \div SectorSize + 1) * SectorSize = (a \div SectorSize) * SectorSize + SectorSize
    BY <1>1, <1>2
  <2>. QED  BY <2>1, <2>2, <1>1, <1>2
<1>4. CASE q < a \div SectorSize
  <2>1. (q + 1) * SectorSize <= (a \div SectorSize) * SectorSize
    BY <1>1, <1>4, Multiples
  <2>2. (q + 1) * SectorSize = q * SectorSize + SectorSize
    BY <1>2
  <2>. QED  BY <2>1, <2>2, <1>1, <1>2
<1>. QED  BY <1>1, <1>2, <1>3, <1>4

\* The sector in the buffer is the last block; the bytes before it are in others.
LEMMA LastBlock ==
  ASSUME NEW c \in Nat \ {0}
  PROVE  /\ Filled(c) \in Nat /\ Filled(c) < c
         /\ \A k \in 1 .. Filled(c) : (k - 1) \div SectorSize # (c - 1) \div SectorSize
         /\ \A k \in Filled(c) + 1 .. c : /\ (k - 1) \div SectorSize = (c - 1) \div SectorSize
                                          /\ (k - 1) % SectorSize = k - 1 - Filled(c)
<1>. DEFINE n == (c - 1) \div SectorSize
<1>1. /\ c - 1 \in Nat /\ n \in Nat /\ n * SectorSize \in Nat
      /\ (c - 1) % SectorSize \in 0 .. SectorSize - 1
      /\ c - 1 = n * SectorSize + ((c - 1) % SectorSize)
      /\ SectorSize \in Nat \ {0}
  BY Division, MemoryAssumption
<1>2. Filled(c) = n * SectorSize
  BY DEF Filled
<1>. HIDE DEF n
<1>3. ASSUME NEW k \in 1 .. Filled(c) PROVE (k - 1) \div SectorSize # n
  <2>1. k - 1 \in Nat /\ k - 1 < n * SectorSize
    BY <1>1, <1>2
  <2>2. /\ (k - 1) % SectorSize \in 0 .. SectorSize - 1
        /\ k - 1 = ((k - 1) \div SectorSize) * SectorSize + ((k - 1) % SectorSize)
    BY <2>1, Division
  <2>. QED  BY <2>1, <2>2, <1>1
<1>4. ASSUME NEW k \in Filled(c) + 1 .. c
      PROVE  (k - 1) \div SectorSize = n /\ (k - 1) % SectorSize = k - 1 - Filled(c)
  <2>1. k - 1 \in Nat /\ n * SectorSize <= k - 1 /\ k - 1 < n * SectorSize + SectorSize
    BY <1>1, <1>2
  <2>. QED  BY <2>1, <1>1, <1>2, BlockOf
<1>. QED  BY <1>1, <1>2, <1>3, <1>4 DEF n

\* The next byte starts a block after a full one, or goes after those in the buffer.
LEMMA NextByte ==
  ASSUME NEW c \in Nat
  PROVE  /\ c % SectorSize = 0 => Filled(c + 1) = c
         /\ c % SectorSize # 0 => /\ c # 0 /\ Filled(c + 1) = Filled(c)
                                  /\ c % SectorSize = c - Filled(c)
<1>1. /\ c \div SectorSize \in Nat /\ c % SectorSize \in 0 .. SectorSize - 1
      /\ (c \div SectorSize) * SectorSize \in Nat
      /\ c = (c \div SectorSize) * SectorSize + (c % SectorSize)
      /\ SectorSize \in Nat \ {0}
  BY Division, MemoryAssumption
<1>2. Filled(c + 1) = (c \div SectorSize) * SectorSize
  BY DEF Filled
<1>3. ASSUME c % SectorSize # 0 PROVE c # 0 /\ Filled(c + 1) = Filled(c)
  <2>1. c # 0
    BY <1>1, <1>3
  <2>2. /\ c - 1 \in Nat /\ (c \div SectorSize) * SectorSize <= c - 1
        /\ c - 1 < (c \div SectorSize) * SectorSize + SectorSize
    BY <1>1, <1>3
  <2>3. (c - 1) \div SectorSize = c \div SectorSize
    BY <1>1, <2>2, BlockOf
  <2>. QED  BY <1>2, <2>1, <2>3 DEF Filled
<1>. QED  BY <1>1, <1>2, <1>3

-----------------------------------------------------------------------------
(* The bytes of an upload.                                                 *)

LEMMA UploadFields ==
  ASSUME TypeOK, upload # None
  PROVE  /\ upload.slot \in Slots /\ upload.data \in Seq(Byte) /\ Len(upload.data) \in Nat
         /\ UploadInStep => /\ write_status \in WriteStatus /\ write_status.slot = upload.slot
                            /\ write_status.cursor = Len(upload.data)
                            /\ Len(upload.data) <= MaxMemSize
<1>1. upload \in Upload
  BY DEF TypeOK
<1>2. upload.slot \in Slots /\ upload.data \in Seq(Byte) /\ Len(upload.data) \in Nat
  BY <1>1 DEF Upload
<1>3. ASSUME UploadInStep
      PROVE  /\ write_status \in WriteStatus /\ write_status.slot = upload.slot
             /\ write_status.cursor = Len(upload.data) /\ Len(upload.data) <= MaxMemSize
  <2>1. write_status \in WriteStatus
    BY <1>3 DEF TypeOK, UploadInStep
  <2>. QED  BY <1>2, <1>3, <2>1, MemoryAssumption DEF UploadInStep, WriteStatus
<1>. QED  BY <1>2, <1>3

\* What a byte pushed leaves, if the full block before it, if any, has been written.
LEMMA BytePlaced ==
  ASSUME TypeOK, upload # None, UploadInStep, NEW v \in Byte, PushByte(v),
         write_status.cursor < MaxMemSize,
         \A k \in 1 .. Filled(write_status.cursor) :
            rom'[upload.slot][k - 1] = upload.data[k],
         IF write_status.cursor % SectorSize = 0
         THEN \A k \in 1 .. write_status.cursor : rom'[upload.slot][k - 1] = upload.data[k]
         ELSE InBuffer(Filled(write_status.cursor), write_status.cursor)
  PROVE  /\ upload' # None
         /\ UploadInStep' /\ InRom(Filled(write_status.cursor))'
         /\ InBuffer(Filled(write_status.cursor), write_status.cursor)'
<1>. PICK c : c = write_status.cursor
  OBVIOUS
<1>1. /\ upload.slot \in Slots /\ upload.data \in Seq(Byte) /\ write_status \in WriteStatus
      /\ write_status.slot = upload.slot /\ c = Len(upload.data) /\ c \in Nat
      /\ upload \in Upload
  BY UploadFields DEF TypeOK
<1>2. /\ upload' = [upload EXCEPT !.data = Append(upload.data, v)]
      /\ write_status' = [write_status EXCEPT !.cursor = c + 1]
      /\ buffer' = [IF c % SectorSize = 0 THEN [i \in BlockCells |-> Erased] ELSE buffer
                       EXCEPT ![c % SectorSize] = v]
  BY DEF PushByte
<1>3. /\ upload' \in Upload /\ upload' # None
      /\ upload'.slot = upload.slot /\ upload'.data = Append(upload.data, v)
  <2>1. Append(upload.data, v) \in Seq(Byte)
    BY <1>1
  <2>. QED  BY <1>1, <1>2, <2>1, NoneAssumption DEF Upload
<1>4. /\ Len(upload'.data) = c + 1 /\ upload'.data[c + 1] = v
      /\ \A k \in 1 .. c : upload'.data[k] = upload.data[k]
  BY <1>1, <1>3
<1>5. /\ write_status' \in WriteStatus
      /\ write_status' = [slot |-> upload.slot, cursor |-> c + 1] /\ write_status'.cursor = c + 1
  <2>1. c + 1 \in 0 .. MaxMemSize
    BY <1>1, MemoryAssumption
  <2>. QED  BY <1>1, <1>2, <2>1 DEF WriteStatus
<1>6. UploadInStep'
  BY <1>3, <1>4, <1>5, NoneAssumption DEF UploadInStep
<1>7. /\ c % SectorSize \in BlockCells /\ buffer \in [BlockCells -> Cell]
      /\ buffer'[c % SectorSize] = v
      /\ c % SectorSize # 0 =>
           \A i \in BlockCells : i # c % SectorSize => buffer'[i] = buffer[i]
  <2>1. c % SectorSize \in BlockCells
    BY <1>1, InBlock
  <2>. QED  BY <1>2, <2>1 DEF TypeOK
<1>8. CASE c % SectorSize = 0
  <2>1. Filled(c + 1) = c
    BY <1>1, <1>8, NextByte
  <2>2. \A k \in 1 .. c : rom'[upload'.slot][k - 1] = upload'.data[k]
    <3>1. \A k \in 1 .. c : rom'[upload.slot][k - 1] = upload.data[k]
      BY <1>8
    <3>. QED  BY ONLY <1>3, <1>4, <3>1
  <2>3. InRom(Filled(write_status.cursor))'
    BY <1>5, <2>1, <2>2 DEF InRom, Filled
  <2>4. \A k \in c + 1 .. c + 1 : buffer'[(k - 1) % SectorSize] = upload'.data[k]
    <3>1. ASSUME NEW k \in c + 1 .. c + 1 PROVE k = c + 1 /\ k - 1 = c
      BY <1>1
    <3>. QED  BY <3>1, <1>4, <1>7
  <2>5. InBuffer(Filled(write_status.cursor), write_status.cursor)'
    BY <1>5, <2>1, <2>4 DEF InBuffer, Filled
  <2>. QED  BY <1>3, <1>6, <2>3, <2>5
<1>9. CASE c % SectorSize # 0
  <2>1. c # 0 /\ Filled(c + 1) = Filled(c) /\ c % SectorSize = c - Filled(c)
    BY <1>1, <1>9, NextByte
  <2>2. /\ Filled(c) \in Nat /\ Filled(c) < c
        /\ \A k \in Filled(c) + 1 .. c : (k - 1) % SectorSize = k - 1 - Filled(c)
    BY <1>1, <2>1, LastBlock
  <2>3. \A k \in 1 .. Filled(c) : rom'[upload'.slot][k - 1] = upload'.data[k]
    <3>1. \A k \in 1 .. Filled(c) : k \in 1 .. c
      BY <1>1, <2>2
    <3>. QED  BY <3>1, <1>3, <1>4
  <2>4. InRom(Filled(write_status.cursor))'
    BY <1>5, <2>1, <2>3 DEF InRom, Filled
  <2>5. ASSUME NEW k \in Filled(c) + 1 .. c + 1
        PROVE  buffer'[(k - 1) % SectorSize] = upload'.data[k]
    <3>1. CASE k = c + 1
      <4>1. k - 1 = c
        BY <1>1, <3>1
      <4>. QED  BY <4>1, <3>1, <1>4, <1>7
    <3>2. CASE k # c + 1
      <4>1. k \in Filled(c) + 1 .. c /\ k \in 1 .. c /\ k - 1 \in Nat
        BY <1>1, <2>2, <2>5, <3>2
      <4>2. (k - 1) % SectorSize = k - 1 - Filled(c) /\ k - 1 - Filled(c) # c - Filled(c)
        BY <1>1, <2>2, <4>1
      <4>3. (k - 1) % SectorSize \in BlockCells
        BY <4>1, InBlock
      <4>4. buffer'[(k - 1) % SectorSize] = buffer[(k - 1) % SectorSize]
        BY <1>7, <1>9, <2>1, <4>2, <4>3
      <4>5. buffer[(k - 1) % SectorSize] = upload.data[k]
        BY <1>9, <4>1 DEF InBuffer
      <4>. QED  BY <4>1, <4>4, <4>5, <1>4
    <3>. QED  BY <3>1, <3>2
  <2>6. InBuffer(Filled(write_status.cursor), write_status.cursor)'
    BY <1>5, <2>1, <2>5 DEF InBuffer, Filled
  <2>. QED  BY <1>3, <1>6, <2>4, <2>6
<1>. QED  BY <1>8, <1>9

\* What the bytes of an upload are in flash after its last block is changed there.
LEMMA BlockChanged ==
  ASSUME TypeOK, upload # None, UploadInStep, write_status.cursor # 0,
         InRom(Filled(write_status.cursor)), NEW cells,
         rom' = [rom EXCEPT ![write_status.slot] = WriteBlock(@, cells)]
  PROVE  /\ \A k \in 1 .. Filled(write_status.cursor) : rom'[upload.slot][k - 1] = upload.data[k]
         /\ \A k \in Filled(write_status.cursor) + 1 .. write_status.cursor :
               rom'[upload.slot][k - 1] = cells[(k - 1) % SectorSize]
<1>. PICK c : c = write_status.cursor
  OBVIOUS
<1>1. /\ upload.slot \in Slots /\ write_status.slot = upload.slot /\ c \in Nat \ {0}
      /\ c <= MaxMemSize /\ MaxMemSize \in Nat
      /\ rom \in [Slots -> [0 .. MaxMemSize - 1 -> Cell]]
  BY UploadFields, MemoryAssumption DEF TypeOK
<1>2. rom'[upload.slot] = WriteBlock(rom[upload.slot], cells)
  BY <1>1
<1>3. /\ Filled(c) \in Nat /\ Filled(c) < c
      /\ \A k \in 1 .. Filled(c) : (k - 1) \div SectorSize # (c - 1) \div SectorSize
      /\ \A k \in Filled(c) + 1 .. c : (k - 1) \div SectorSize = (c - 1) \div SectorSize
  BY <1>1, LastBlock
<1>4. ASSUME NEW i \in 0 .. MaxMemSize - 1
      PROVE  rom'[upload.slot][i] = IF i \div SectorSize = (c - 1) \div SectorSize
                                    THEN cells[i % SectorSize] ELSE rom[upload.slot][i]
  BY <1>2 DEF WriteBlock, BlockNum
<1>5. \A k \in 1 .. c : k - 1 \in 0 .. MaxMemSize - 1
  BY <1>1
<1>6. \A k \in 1 .. Filled(c) : k \in 1 .. c
  BY <1>1, <1>3
<1>7. \A k \in Filled(c) + 1 .. c : k \in 1 .. c
  BY <1>1, <1>3
<1>8. ASSUME NEW k \in 1 .. Filled(c) PROVE rom'[upload.slot][k - 1] = upload.data[k]
  BY <1>3, <1>4, <1>5, <1>6 DEF InRom
<1>. QED  BY <1>3, <1>4, <1>5, <1>7, <1>8

-----------------------------------------------------------------------------
(* What the steps do to the catalogue.                                     *)

SlotsSame == \A s \in Slots : Stored(s)' = Stored(s)
CatalogueSame == \A s \in AtomicSlots : Stored(s)' = Stored(s)

LEMMA SameIntact ==
  ASSUME RomIntact, CatalogueSame, UNCHANGED committed PROVE RomIntact'
BY DEF RomIntact, CatalogueSame, AtomicSlots

LEMMA FlashSame == ASSUME Recovered(sb') = Recovered(sb), UNCHANGED rom PROVE SlotsSame
BY DEF SlotsSame, Stored, Listing, RomData

\* Writing a ROM changes a slot that the catalogue does not list.
LEMMA RomWritten ==
  ASSUME IInv, write_status # None, UNCHANGED sb, NEW contents,
         rom' = [rom EXCEPT ![write_status.slot] = contents]
  PROVE  SlotsSame
<1>1. SUFFICES ASSUME NEW s \in Slots PROVE Stored(s)' = Stored(s)
  BY DEF SlotsSame
<1>2. CASE s = write_status.slot
  <2>1. Recovered(sb).size[s] = NotPresent
    BY <1>2 DEF IInv, UploadInvisible, Uploading
  <2>. QED  BY <2>1 DEF Stored, Listing
<1>3. CASE s # write_status.slot
  <2>1. rom'[s] = rom[s]
    BY <1>3 DEF IInv, TypeOK
  <2>2. PICK n : n = Recovered(sb).size[s]
    OBVIOUS
  <2>3. RomData(s, n)' = RomData(s, n)
    BY <2>1 DEF RomData
  <2>4. Stored(s) = IF n = NotPresent THEN None ELSE RomData(s, n)
    BY <2>2 DEF Stored, Listing
  <2>5. Stored(s)' = IF n = NotPresent THEN None ELSE RomData(s, n)'
    BY <2>2 DEF Stored, Listing
  <2>. QED  BY <2>3, <2>4, <2>5
<1>. QED  BY <1>2, <1>3

\* From page 0 on open() finds the sizes of the flush, on the page of the counter.
LEMMA PageFound ==
  ASSUME IInv, ProgramSector, NEW s \in AtomicSlots
  PROVE  /\ Recovered(sb').size[s] = superblock_contents.size[s]
         /\ op.page # 0 => Recovered(sb).size[s] = superblock_contents.size[s]
<1>1. op.page \in Nat /\ s \in Slots /\ SlotPage[s] = 0 /\ Flushing
  BY DEF IInv, TypeOK, ProgramSector, Flushing, AtomicSlots, Pages
<1>2. Recovered(sb').size[s] = superblock_contents.size[s]
  BY <1>1, PageProgrammed, RecoveredCurrent
<1>3. ASSUME op.page # 0 PROVE Recovered(sb).size[s] = superblock_contents.size[s]
  <2>1. /\ IsCurrent(sb, superblock_write_index) /\ sb \in Ring
        /\ sb[superblock_write_index].size[s] = superblock_contents.size[s]
    BY <1>1, <1>3 DEF IInv, TypeOK, Ring, FlushAfter
  <2>. QED  BY <2>1, RecoveredCurrent
<1>. QED  BY <1>2, <1>3

LEMMA LaterPage ==
  ASSUME IInv, ProgramSector, op.page # 0
  PROVE  CatalogueSame /\ UNCHANGED <<upload, committed>>
<1>1. UNCHANGED <<rom, upload, committed>>
  BY DEF ProgramSector, Linearize
<1>2. ASSUME NEW s \in AtomicSlots PROVE Stored(s)' = Stored(s)
  BY <1>1, PageFound DEF Stored, Listing, RomData
<1>. QED  BY <1>1, <1>2 DEF CatalogueSame

\* With page 0 the call takes effect: what it makes of the catalogue.
NewListing(s) ==
  IF s # op.arg THEN Stored(s) ELSE IF op.call = "write_end" THEN upload.data ELSE None
FirstPageEffect ==
  /\ \A s \in Slots : Listing(superblock_contents, s)' = NewListing(s)
  /\ \/ /\ op.call = "write_begin" /\ op.arg \in Slots
        /\ upload' = [slot |-> op.arg, data |-> <<>>] /\ UNCHANGED committed
     \/ /\ op.call = "write_end" /\ upload # None /\ op.arg = upload.slot /\ upload.data # <<>>
        /\ upload' = None /\ committed' = [committed EXCEPT ![op.arg] = upload.data]
     \/ /\ op.call = "erase" /\ op.arg \in Slots
        /\ upload = None /\ UNCHANGED <<upload, committed>>
     \/ /\ op.call = "set_wireless" /\ op.arg = None
        /\ upload = None /\ UNCHANGED <<upload, committed>>

LEMMA FirstPage ==
  ASSUME CInv, ProgramSector, op.page = 0
  PROVE  FirstPageEffect
<1>1. /\ Flushing /\ UNCHANGED <<rom, superblock_contents>> /\ Linearize
      /\ op.call \in {"write_begin", "write_end", "erase", "set_wireless"}
  BY DEF CInv, Kept, IInv, OpOK, ProgramSector, Flushing
<1>2. ASSUME NEW s \in Slots, s # op.arg
      PROVE  Listing(superblock_contents, s)' = NewListing(s)
  <2>1. superblock_contents.size[s] = Recovered(sb).size[s]
    BY <1>1, <1>2 DEF CInv, Kept, FlushPending
  <2>. QED  BY <1>1, <1>2, <2>1 DEF NewListing, Stored, Listing, RomData
<1>3. ASSUME NEW s \in Slots, s = op.arg, op.call # "write_end"
      PROVE  Listing(superblock_contents, s)' = NewListing(s)
  <2>1. op.arg # None
    BY <1>3, NoneAssumption
  <2>2. superblock_contents.size[s] = NotPresent
    BY <1>1, <1>3, <2>1 DEF CInv, Kept, FlushPending
  <2>. QED  BY <1>1, <1>3, <2>2 DEF NewListing, Listing
<1>4. ASSUME op.call = "write_end"
      PROVE  /\ upload # None /\ op.arg = upload.slot /\ upload.data \in Seq(Byte)
             /\ upload.data # <<>> /\ Len(upload.data) # NotPresent
  <2>1. upload # None /\ op.arg = upload.slot /\ Len(upload.data) \in Size
    BY <1>1, <1>4 DEF CInv, Kept, IInv, OpOK, FlushPending
  <2>2. upload.data \in Seq(Byte)
    BY <2>1, UploadFields DEF CInv, Kept, IInv
  <2>3. Len(upload.data) # 0 /\ Len(upload.data) # NotPresent
    BY <2>1, WordAssumption, MemoryAssumption DEF Size, NotPresent
  <2>. QED  BY <2>1, <2>2, <2>3
<1>5. ASSUME NEW s \in Slots, s = op.arg, op.call = "write_end"
      PROVE  Listing(superblock_contents, s)' = NewListing(s)
  <2>. PICK n : n = Len(upload.data)
    OBVIOUS
  <2>1. /\ superblock_contents.size[s] = n
        /\ \A k \in 1 .. n : rom[s][k - 1] = upload.data[k]
    BY <1>1, <1>4, <1>5 DEF CInv, Kept, FlushPending, InRom
  <2>2. superblock_contents'.size[s] = n
    BY <1>1, <2>1
  <2>3. RomData(s, n)' = RomData(s, n)
    BY <1>1 DEF RomData
  <2>4. RomData(s, n) = upload.data
    <3>1. upload.data \in [1 .. n -> Byte]
      BY <1>4, <1>5
    <3>2. upload.data = [k \in 1 .. n |-> upload.data[k]]
      BY <3>1
    <3>3. RomData(s, n) = [k \in 1 .. n |-> upload.data[k]]
      BY <2>1 DEF RomData
    <3>. QED  BY <3>2, <3>3
  <2>. QED  BY <2>2, <2>3, <2>4, <1>4, <1>5 DEF NewListing, Listing
<1>6. op.call = "write_begin" =>
        op.arg \in Slots /\ upload' = [slot |-> op.arg, data |-> <<>>] /\ UNCHANGED committed
  BY <1>1 DEF CInv, Kept, FlushPending, Linearize
<1>7. op.call = "write_end" =>
        upload' = None /\ committed' = [committed EXCEPT ![op.arg] = upload.data]
  BY <1>1, <1>4 DEF Linearize
<1>8. op.call = "erase" => op.arg \in Slots /\ upload = None /\ UNCHANGED <<upload, committed>>
  BY <1>1 DEF CInv, Kept, FlushPending, FlushUpload, Linearize
<1>9. op.call = "set_wireless" => op.arg = None /\ upload = None /\ UNCHANGED <<upload, committed>>
  BY <1>1 DEF CInv, Kept, FlushPending, FlushUpload, Linearize
<1>. QED  BY <1>1, <1>2, <1>3, <1>4, <1>5, <1>6, <1>7, <1>8, <1>9 DEF FirstPageEffect

\* The slots on the page of the counter are found as they are announced.
AtomicEffect == FirstPageEffect /\ \A s \in AtomicSlots : Stored(s)' = NewListing(s)
LEMMA AtomicFirstPage == ASSUME CInv, ProgramSector, op.page = 0 PROVE AtomicEffect
<1>1. FirstPageEffect /\ UNCHANGED superblock_contents
  BY FirstPage DEF ProgramSector
<1>2. ASSUME NEW s \in AtomicSlots PROVE Stored(s)' = NewListing(s)
  <2>1. s \in Slots /\ Recovered(sb').size[s] = superblock_contents'.size[s]
    BY <1>1, PageFound DEF CInv, AtomicSlots
  <2>2. Stored(s)' = Listing(superblock_contents, s)'
    BY <2>1 DEF Stored, Listing, RomData
  <2>. QED  BY <1>1, <2>1, <2>2 DEF FirstPageEffect
<1>. QED  BY <1>1, <1>2 DEF AtomicEffect

Appends ==
  /\ upload # None /\ Len(upload.data) < MaxMemSize
  /\ \E v \in Byte : upload' = [upload EXCEPT !.data = Append(@, v)]

\* The steps that program no page change nothing that is listed.
Quiet ==
  /\ SlotsSame /\ UNCHANGED committed
  /\ UNCHANGED upload \/ upload' = None \/ Appends
StepEffect ==
  \/ /\ CatalogueSame /\ UNCHANGED committed
     /\ UNCHANGED upload \/ upload' = None \/ Appends
  \/ AtomicEffect

LEMMA QuietEffect == ASSUME Quiet PROVE StepEffect
BY DEF Quiet, StepEffect, SlotsSame, CatalogueSame, AtomicSlots

\* What a call that begins with a flush announces.
LEMMA FlushAnnounced ==
  ASSUME NEW contents \in Superblock, NEW call, NEW arg, StartFlush(contents, call, arg)
  PROVE  /\ superblock_contents'.size = contents.size
         /\ op'.step \in {"erase", "program"} /\ op'.page = 0
         /\ op'.call = call /\ op'.arg = arg
BY DEF StartFlush, Superblock

LEMMA OpenKeeps == ASSUME CInv, Open PROVE Kept' /\ Quiet
<1>1. upload = None
  BY DEF CInv, Kept, UploadKept, Open, Off, Idle, Flushing
<1>2. Kept'
  BY <1>1 DEF Open, Idle, Kept, UploadKept, BlockKept, FlushPending, FlushUpload, Flushing, Blocking
<1>3. SlotsSame
  BY FlashSame DEF Open
<1>. QED  BY <1>2, <1>3 DEF Quiet, Open

LEMMA PowerCutKeeps == ASSUME CInv, PowerCut PROVE Kept' /\ Quiet
<1>1. Kept'
  BY DEF PowerCut, Off, Idle, Kept, UploadKept, BlockKept, FlushPending, FlushUpload,
         Flushing, Blocking
<1>2. SlotsSame
  BY FlashSame DEF PowerCut
<1>. QED  BY <1>1, <1>2 DEF Quiet, PowerCut

LEMMA EraseSectorKeeps == ASSUME CInv, EraseSector PROVE Kept' /\ Quiet
<1>1. /\ UNCHANGED <<rom, superblock_contents, write_status, upload, committed>>
      /\ Recovered(sb') = Recovered(sb) /\ Flushing /\ op.page = 0
      /\ op'.step = "program" /\ op'.page = 0 /\ op'.call = op.call /\ op'.arg = op.arg
  BY EraseKeeps DEF EraseSector, ram, CInv, IInv, TypeOK, OpOK, Flushing
<1>2. UploadKept' /\ BlockKept' /\ FlushUpload'
  BY <1>1 DEF CInv, Kept, UploadKept, BlockKept, FlushUpload, Flushing, Blocking
<1>3. FlushPending'
  BY <1>1 DEF CInv, Kept, FlushPending, InRom
<1>4. SlotsSame
  BY <1>1, FlashSame
<1>. QED  BY <1>1, <1>2, <1>3, <1>4 DEF Kept, Quiet

LEMMA PageEffect ==
  ASSUME CInv, ProgramSector
  PROVE  /\ StepEffect
         /\ upload' = IF op.call = "write_begin" THEN [slot |-> op.arg, data |-> <<>>] ELSE None
<1>1. Flushing
  BY DEF ProgramSector, Flushing
<1>2. CASE op.page = 0
  BY <1>2, AtomicFirstPage DEF StepEffect, AtomicEffect, FirstPageEffect
<1>3. CASE op.page # 0
  BY <1>1, <1>3, LaterPage DEF CInv, Kept, FlushUpload, StepEffect
<1>. QED  BY <1>2, <1>3

LEMMA ProgramNextPageKeeps == ASSUME CInv, ProgramNextPage PROVE Kept' /\ StepEffect
<1>1. /\ ProgramSector /\ op'.page # 0 /\ op'.call = op.call /\ op'.arg = op.arg
      /\ op'.step = "program"
  <2>1. op.page \in Nat
    BY DEF CInv, IInv, TypeOK, Pages
  <2>. QED  BY <2>1 DEF ProgramNextPage, ProgramSector, CInv, IInv, TypeOK
<1>2. Kept'
  BY <1>1, PageEffect DEF Kept, UploadKept, BlockKept, FlushPending, FlushUpload, Flushing, Blocking
<1>. QED  BY <1>1, <1>2, PageEffect

LEMMA ProgramLastPageKeeps == ASSUME CInv, ProgramLastPage PROVE Kept' /\ StepEffect
<1>1. /\ ProgramSector /\ op' = Idle
      /\ op.call = "write_begin" => write_status' = [slot |-> op.arg, cursor |-> 0]
  BY DEF ProgramLastPage
<1>2. BlockKept' /\ FlushPending' /\ FlushUpload'
  BY <1>1 DEF Idle, BlockKept, FlushPending, FlushUpload, Flushing, Blocking
<1>3. UploadKept'
  <2>1. SUFFICES ASSUME upload' # None
                 PROVE  /\ UploadInStep' /\ InRom(Filled(write_status.cursor))'
                        /\ InBuffer(Filled(write_status.cursor), write_status.cursor)'
    BY <1>1 DEF UploadKept, Idle
  <2>2. op.call = "write_begin" /\ upload' = [slot |-> op.arg, data |-> <<>>]
    BY <1>1, <2>1, PageEffect
  <2>3. op.arg \in Slots
    BY <1>1, <2>2 DEF CInv, IInv, OpOK, ProgramSector, Flushing
  <2>4. write_status' = [slot |-> op.arg, cursor |-> 0] /\ write_status'.cursor = 0
    BY <1>1, <2>2
  <2>5. write_status' # None
    BY <2>3, <2>4, NoneAssumption, MemoryAssumption DEF WriteStatus
  <2>6. UploadInStep'
    BY <2>2, <2>4, <2>5 DEF UploadInStep
  <2>7. 0 \in Nat /\ 1 .. 0 = {} /\ 0 + 1 .. 0 = {}
    OBVIOUS
  <2>8. InRom(Filled(write_status.cursor))'
    BY <2>4, <2>7 DEF InRom, Filled
  <2>9. InBuffer(Filled(write_status.cursor), write_status.cursor)'
    BY <2>4, <2>7 DEF InBuffer, Filled
  <2>. QED  BY <2>6, <2>8, <2>9
<1>. QED  BY <1>1, <1>2, <1>3, PageEffect DEF Kept

\* The calls that begin with a flush change nothing in flash yet.
LEMMA WriteBeginKeeps == ASSUME CInv, NEW s \in Slots, WriteBegin(s) PROVE Kept' /\ Quiet
<1>. DEFINE contents == [superblock_contents EXCEPT !.size[s] = NotPresent]
<1>1. /\ op = Idle /\ StartFlush(contents, "write_begin", s)
      /\ UNCHANGED <<sb, rom, upload, committed>>
  BY DEF WriteBegin
<1>2. superblock_contents = Recovered(sb) /\ superblock_contents \in Superblock
  BY <1>1 DEF CInv, IInv, TypeOK, InSync, Flushing, Idle
<1>3. /\ contents \in Superblock /\ contents.size[s] = NotPresent
      /\ \A t \in Slots \ {s} : contents.size[t] = Recovered(sb).size[t]
  BY <1>2 DEF Superblock
<1>. HIDE DEF contents
<1>4. /\ superblock_contents'.size = contents.size
      /\ op'.step \in {"erase", "program"} /\ op'.page = 0
      /\ op'.call = "write_begin" /\ op'.arg = s
  BY <1>1, <1>3, FlushAnnounced
<1>5. Kept'
  BY <1>1, <1>3, <1>4 DEF Kept, UploadKept, BlockKept, FlushPending, FlushUpload, Flushing, Blocking
<1>6. SlotsSame
  BY <1>1, FlashSame
<1>. QED  BY <1>1, <1>5, <1>6 DEF Quiet

LEMMA EraseCallKeeps ==
  ASSUME CInv, CallerDisciplined, NEW s \in Slots, Erase(s) PROVE Kept' /\ Quiet
<1>. DEFINE contents == [superblock_contents EXCEPT !.size[s] = NotPresent]
<1>1. /\ op = Idle /\ StartFlush(contents, "erase", s) /\ upload' = None
      /\ UNCHANGED <<sb, rom, committed>>
  BY DEF Erase
<1>2. superblock_contents = Recovered(sb) /\ superblock_contents \in Superblock
  BY <1>1 DEF CInv, IInv, TypeOK, InSync, Flushing, Idle
<1>3. /\ contents \in Superblock /\ contents.size[s] = NotPresent
      /\ \A t \in Slots \ {s} : contents.size[t] = Recovered(sb).size[t]
  BY <1>2 DEF Superblock
<1>. HIDE DEF contents
<1>4. /\ superblock_contents'.size = contents.size
      /\ op'.step \in {"erase", "program"} /\ op'.page = 0
      /\ op'.call = "erase" /\ op'.arg = s
  BY <1>1, <1>3, FlushAnnounced
<1>5. Kept'
  BY <1>1, <1>3, <1>4 DEF Kept, UploadKept, BlockKept, FlushPending, FlushUpload, Flushing, Blocking
<1>6. SlotsSame
  BY <1>1, FlashSame
<1>. QED  BY <1>1, <1>5, <1>6 DEF Quiet

LEMMA SetWirelessConfigKeeps ==
  ASSUME CInv, NEW cfg \in Networks \cup {NotConfigured}, SetWirelessConfig(cfg)
  PROVE  Kept' /\ Quiet
<1>. DEFINE contents == [superblock_contents EXCEPT !.wireless = cfg]
<1>1. /\ op = Idle /\ StartFlush(contents, "set_wireless", None) /\ upload' = None
      /\ UNCHANGED <<sb, rom, committed>>
  BY DEF SetWirelessConfig
<1>2. superblock_contents = Recovered(sb) /\ superblock_contents \in Superblock
  BY <1>1 DEF CInv, IInv, TypeOK, InSync, Flushing, Idle
<1>3. contents \in Superblock /\ contents.size = Recovered(sb).size
  BY <1>2 DEF Superblock, WirelessConfig
<1>. HIDE DEF contents
<1>4. /\ superblock_contents'.size = contents.size
      /\ op'.step \in {"erase", "program"} /\ op'.page = 0
      /\ op'.call = "set_wireless" /\ op'.arg = None
  BY <1>1, <1>3, FlushAnnounced
<1>5. Kept'
  BY <1>1, <1>3, <1>4 DEF Kept, UploadKept, BlockKept, FlushPending, FlushUpload, Flushing, Blocking
<1>6. SlotsSame
  BY <1>1, FlashSame
<1>. QED  BY <1>1, <1>5, <1>6 DEF Quiet

LEMMA PushAppends ==
  ASSUME IInv, upload # None, UploadInStep, write_status.cursor < MaxMemSize, NEW v \in Byte,
         PushByte(v)
  PROVE  Appends
BY UploadFields DEF Appends, PushByte, IInv

LEMMA WriteDataKeeps ==
  ASSUME CInv, CallerDisciplined, NEW v \in Byte, WriteData(v) PROVE Kept' /\ Quiet
<1>1. /\ op = Idle /\ upload # None /\ write_status.cursor < MaxMemSize
      /\ UNCHANGED <<sb, rom, superblock_contents, committed>>
  BY DEF WriteData, CallerUploads
<1>2. /\ UploadInStep /\ InRom(Filled(write_status.cursor))
      /\ InBuffer(Filled(write_status.cursor), write_status.cursor)
  BY <1>1 DEF CInv, Kept, UploadKept, Idle, Flushing
<1>3. SlotsSame
  BY <1>1, FlashSame
<1>4. CASE /\ write_status.cursor % SectorSize = 0 /\ write_status.cursor # 0
           /\ StartBlock("write_data", v) /\ UNCHANGED <<buffer, write_status, upload>>
  <2>1. op'.step \in {"block_erase", "block_program"} /\ op'.page = 0
    BY <1>4 DEF StartBlock
  <2>2. UploadKept'
    BY <1>1, <1>2, <1>4, <2>1 DEF UploadKept, UploadInStep, InRom, InBuffer
  <2>3. BlockKept' /\ FlushPending' /\ FlushUpload'
    BY <1>4, <2>1 DEF BlockKept, FlushPending, FlushUpload, Flushing
  <2>. QED  BY <1>1, <1>3, <1>4, <2>2, <2>3 DEF Kept, Quiet
<1>5. CASE /\ ~ (write_status.cursor % SectorSize = 0 /\ write_status.cursor # 0)
           /\ PushByte(v) /\ UNCHANGED op
  <2>1. \A k \in 1 .. Filled(write_status.cursor) : rom'[upload.slot][k - 1] = upload.data[k]
    BY <1>1, <1>2 DEF InRom
  <2>2. IF write_status.cursor % SectorSize = 0
        THEN \A k \in 1 .. write_status.cursor : rom'[upload.slot][k - 1] = upload.data[k]
        ELSE InBuffer(Filled(write_status.cursor), write_status.cursor)
    BY <1>2, <1>5
  <2>3. /\ UploadInStep' /\ InRom(Filled(write_status.cursor))'
        /\ InBuffer(Filled(write_status.cursor), write_status.cursor)'
    BY <1>1, <1>2, <1>5, <2>1, <2>2, BytePlaced DEF CInv, IInv
  <2>4. UploadKept'
    BY <1>1, <1>5, <2>3 DEF UploadKept, Idle
  <2>5. BlockKept' /\ FlushPending' /\ FlushUpload'
    BY <1>1, <1>5 DEF BlockKept, FlushPending, FlushUpload, Flushing, Blocking, Idle
  <2>6. Appends
    BY <1>1, <1>2, <1>5, PushAppends DEF CInv
  <2>. QED  BY <1>1, <1>3, <2>4, <2>5, <2>6 DEF Kept, Quiet
<1>. QED  BY <1>4, <1>5 DEF WriteData

LEMMA WriteEndKeeps == ASSUME CInv, CallerDisciplined, WriteEnd PROVE Kept' /\ Quiet
<1>1. /\ op = Idle /\ upload # None /\ write_status.cursor # 0
      /\ op'.step \in {"block_erase", "block_program"} /\ op'.page = 0 /\ op'.call = "write_end"
      /\ UNCHANGED <<sb, rom, superblock_contents, write_status, buffer, upload, committed>>
  BY DEF WriteEnd, CallerUploads, StartBlock, ram
<1>2. UploadKept'
  BY <1>1 DEF CInv, Kept, UploadKept, UploadInStep, InRom, InBuffer, Idle, Flushing
<1>3. BlockKept' /\ FlushPending' /\ FlushUpload'
  BY <1>1 DEF BlockKept, FlushPending, FlushUpload, Flushing
<1>4. SlotsSame
  BY <1>1, FlashSame
<1>. QED  BY <1>1, <1>2, <1>3, <1>4 DEF Kept, Quiet

\* What the steps that write a block start from.
LEMMA WritingBlock ==
  ASSUME CInv, Blocking
  PROVE  /\ upload # None /\ UploadInStep /\ write_status # None /\ write_status.cursor # 0
         /\ InRom(Filled(write_status.cursor))
         /\ InBuffer(Filled(write_status.cursor), write_status.cursor)
BY DEF CInv, Kept, IInv, OpOK, UploadKept, UploadInStep, BlockKept, Blocking, Flushing

LEMMA BlockEraseKeeps == ASSUME CInv, BlockErase PROVE Kept' /\ Quiet
<1>1. /\ Blocking /\ op.step = "block_erase" /\ op'.step = "block_program" /\ op'.call = op.call
      /\ rom' = [rom EXCEPT ![write_status.slot] = WriteBlock(@, Clobbered)]
      /\ UNCHANGED <<sb, superblock_contents, write_status, buffer, upload, committed>>
  BY DEF BlockErase, ram, Blocking, CInv, IInv, TypeOK
<1>2. \A k \in 1 .. Filled(write_status.cursor) : rom'[upload.slot][k - 1] = upload.data[k]
  BY <1>1, WritingBlock, BlockChanged DEF CInv, IInv
<1>3. UploadKept'
  BY <1>1, <1>2, WritingBlock DEF UploadKept, UploadInStep, InRom, InBuffer
<1>4. BlockKept' /\ FlushPending' /\ FlushUpload'
  BY <1>1 DEF CInv, Kept, BlockKept, FlushPending, FlushUpload, Flushing, Blocking
<1>5. SlotsSame
  <2>1. PICK contents : contents = WriteBlock(rom[write_status.slot], Clobbered)
    OBVIOUS
  <2>. QED  BY <1>1, <2>1, WritingBlock, RomWritten DEF CInv
<1>. QED  BY <1>1, <1>3, <1>4, <1>5 DEF Kept, Quiet

\* A block programmed, all bytes of the upload are in flash.
LEMMA AllInRom ==
  ASSUME CInv, BlockProgram
  PROVE  /\ SlotsSame /\ UNCHANGED <<sb, committed>>
         /\ \A k \in 1 .. write_status.cursor : rom'[upload.slot][k - 1] = upload.data[k]
<1>1. /\ Blocking /\ rom' = [rom EXCEPT ![write_status.slot] = WriteBlock(@, buffer)]
      /\ UNCHANGED <<sb, committed>>
  BY DEF BlockProgram, Blocking
<1>2. SlotsSame
  <2>1. PICK contents : contents = WriteBlock(rom[write_status.slot], buffer)
    OBVIOUS
  <2>. QED  BY <1>1, <2>1, WritingBlock, RomWritten DEF CInv
<1>3. /\ write_status.cursor \in Nat \ {0}
  BY <1>1, WritingBlock, UploadFields DEF CInv, IInv
<1>4. /\ \A k \in 1 .. Filled(write_status.cursor) : rom'[upload.slot][k - 1] = upload.data[k]
      /\ \A k \in Filled(write_status.cursor) + 1 .. write_status.cursor :
            rom'[upload.slot][k - 1] = upload.data[k]
  BY <1>1, WritingBlock, BlockChanged DEF CInv, IInv, InBuffer
<1>5. Filled(write_status.cursor) \in Nat
  BY <1>3, LastBlock
<1>6. \A k \in 1 .. write_status.cursor :
        \/ k \in 1 .. Filled(write_status.cursor)
        \/ k \in Filled(write_status.cursor) + 1 .. write_status.cursor
  BY <1>3, <1>5
<1>. QED  BY <1>1, <1>2, <1>4, <1>6

LEMMA BlockThenPushKeeps == ASSUME CInv, BlockThenPush PROVE Kept' /\ Quiet
<1>1. /\ BlockProgram /\ op.call = "write_data" /\ Blocking
      /\ PushByte(op.arg) /\ op' = Idle
  BY DEF BlockThenPush, BlockProgram, Blocking
<1>2. PICK v \in Byte : v = op.arg /\ PushByte(v)
  BY <1>1 DEF CInv, IInv, OpOK
<1>3. write_status.cursor < MaxMemSize /\ write_status.cursor % SectorSize = 0
  BY <1>1, WritingBlock DEF CInv, IInv, OpOK, Kept, BlockKept, CanFlush
<1>4. write_status.cursor \in Nat \ {0}
  BY <1>1, WritingBlock, UploadFields DEF CInv, IInv
<1>5. \A k \in 1 .. Filled(write_status.cursor) : k \in 1 .. write_status.cursor
  BY <1>4, LastBlock
<1>6. /\ UploadInStep' /\ InRom(Filled(write_status.cursor))'
      /\ InBuffer(Filled(write_status.cursor), write_status.cursor)'
  BY <1>1, <1>2, <1>3, <1>5, WritingBlock, AllInRom, BytePlaced DEF CInv, IInv
<1>7. UploadKept'
  BY <1>1, <1>6 DEF UploadKept, Idle
<1>8. BlockKept' /\ FlushPending' /\ FlushUpload'
  BY <1>1 DEF BlockKept, FlushPending, FlushUpload, Flushing, Blocking, Idle
<1>9. Appends
  BY <1>1, <1>2, <1>3, WritingBlock, PushAppends DEF CInv
<1>. QED  BY <1>1, <1>7, <1>8, <1>9, AllInRom DEF Kept, Quiet

LEMMA BlockThenCommitKeeps == ASSUME CInv, BlockThenCommit PROVE Kept' /\ Quiet
<1>. DEFINE slot == write_status.slot
            contents == [superblock_contents EXCEPT !.size[slot] = write_status.cursor]
<1>1. /\ BlockProgram /\ Blocking /\ ~ Flushing /\ op.step # "off"
      /\ StartFlush(contents, "write_end", slot) /\ UNCHANGED upload
  BY DEF BlockThenCommit, BlockProgram, Blocking, Flushing
<1>2. /\ upload # None /\ slot = upload.slot /\ slot \in Slots
      /\ write_status.cursor = Len(upload.data) /\ Len(upload.data) \in Size
  <2>1. /\ upload # None /\ slot = upload.slot /\ slot \in Slots
        /\ write_status.cursor = Len(upload.data) /\ write_status.cursor # 0
        /\ Len(upload.data) \in Nat /\ Len(upload.data) <= MaxMemSize
    BY <1>1, WritingBlock, UploadFields DEF CInv, IInv
  <2>. QED  BY <2>1, MemoryAssumption DEF Size
<1>3. superblock_contents = Recovered(sb) /\ superblock_contents \in Superblock
  BY <1>1 DEF CInv, IInv, TypeOK, InSync
<1>4. /\ contents \in Superblock /\ contents.size[slot] = Len(upload.data)
      /\ \A t \in Slots \ {slot} : contents.size[t] = Recovered(sb).size[t]
  BY <1>2, <1>3 DEF Superblock
<1>. HIDE DEF contents, slot
<1>5. /\ superblock_contents'.size = contents.size
      /\ op'.step \in {"erase", "program"} /\ op'.page = 0
      /\ op'.call = "write_end" /\ op'.arg = slot
  BY <1>1, <1>4, FlushAnnounced
<1>6. InRom(Len(upload.data))'
  BY <1>1, <1>2, AllInRom DEF InRom
<1>7. FlushPending'
  <2>1. \A s \in Slots \ {op'.arg} : superblock_contents'.size[s] = Recovered(sb').size[s]
    BY <1>1, <1>4, <1>5, AllInRom
  <2>2. /\ op'.arg = upload'.slot /\ Len(upload'.data) \in Size
        /\ superblock_contents'.size[op'.arg] = Len(upload'.data)
    BY <1>1, <1>2, <1>4, <1>5
  <2>. QED  BY <1>5, <1>6, <2>1, <2>2 DEF FlushPending
<1>8. UploadKept' /\ BlockKept' /\ FlushUpload'
  BY <1>5 DEF UploadKept, BlockKept, FlushUpload, Flushing, Blocking
<1>. QED  BY <1>1, <1>7, <1>8, AllInRom DEF Kept, Quiet

-----------------------------------------------------------------------------
(* The theorems.                                                           *)

LEMMA InitEmpty == ASSUME Init PROVE \A s \in Slots : Stored(s) = None
<1>1. IInv
  BY InitIInv
<1>2. \A i \in Sectors : sb[i].size = [s \in Slots |-> NotPresent]
  <2>1. Blank.size = [s \in Slots |-> NotPresent]
    BY DEF Blank
  <2>2. [Blank EXCEPT !.gen = InvalidGeneration - 1, !.wireless = NotConfigured].size = Blank.size
    BY DEF Blank
  <2>. HIDE DEF Blank
  <2>. QED  BY <2>1, <2>2 DEF Init, FactoryImages
<1>3. ASSUME NEW s \in Slots PROVE Recovered(sb).size[s] = NotPresent
  <2>1. CASE NoneValid(sb)
    BY <1>1, <2>1, RecoveredNone DEF IInv, TypeOK, Ring, Blank
  <2>2. CASE HasCurrent(sb)
    <3>1. PICK i \in Sectors : IsCurrent(sb, i)
      BY <2>2 DEF HasCurrent
    <3>2. Recovered(sb) = sb[i]
      BY <1>1, <3>1, RecoveredCurrent DEF IInv, TypeOK, Ring
    <3>. QED  BY <1>2, <3>2
  <2>. QED  BY <1>1, <2>1, <2>2 DEF IInv, RingOK
<1>. QED  BY <1>3 DEF Stored, Listing

LEMMA InitCInv == Init => CInv
<1>. SUFFICES ASSUME Init PROVE CInv
  OBVIOUS
<1>1. Kept
  BY DEF Init, Off, Idle, Kept, UploadKept, BlockKept, FlushPending, FlushUpload, Flushing, Blocking
<1>2. RomIntact
  BY InitEmpty DEF RomIntact, AtomicSlots
<1>. QED  BY <1>1, <1>2, InitIInv DEF CInv

PageStep == ProgramNextPage \/ ProgramLastPage
Quietly == Kept' /\ Quiet

LEMMA NextEffect ==
  ASSUME CInv, CallerDisciplined, [Next]_vars PROVE Kept' /\ (Quiet \/ PageStep)
<1>1. CASE Open               BY <1>1, OpenKeeps
<1>2. CASE PowerCut           BY <1>2, PowerCutKeeps
<1>3. CASE EraseSector        BY <1>3, EraseSectorKeeps
<1>4. CASE PageStep           BY <1>4, ProgramNextPageKeeps, ProgramLastPageKeeps DEF PageStep
<1>5. CASE BlockErase         BY <1>5, BlockEraseKeeps
<1>6. CASE BlockThenPush      BY <1>6, BlockThenPushKeeps
<1>7. CASE BlockThenCommit    BY <1>7, BlockThenCommitKeeps
<1>8. ASSUME NEW s \in Slots, WriteBegin(s) \/ Erase(s) PROVE Quietly
  BY <1>8, WriteBeginKeeps, EraseCallKeeps DEF Quietly
<1>9. ASSUME NEW v \in Byte, WriteData(v) PROVE Quietly
  BY <1>9, WriteDataKeeps DEF Quietly
<1>10. CASE WriteEnd          BY <1>10, WriteEndKeeps
<1>11. ASSUME NEW cfg \in Networks \cup {NotConfigured}, SetWirelessConfig(cfg) PROVE Quietly
  BY <1>11, SetWirelessConfigKeeps DEF Quietly
<1>12. CASE UNCHANGED vars
  <2>1. UNCHANGED <<sb, rom, superblock_contents, superblock_write_index, write_status, buffer,
                    op, upload, committed>>
    BY <1>12 DEF vars, ram
  <2>2. Kept'
    BY <2>1 DEF CInv, Kept, UploadKept, UploadInStep, InRom, InBuffer, BlockKept, FlushPending,
       FlushUpload, Flushing, Blocking
  <2>3. SlotsSame
    BY <2>1, FlashSame
  <2>. QED  BY <2>1, <2>2, <2>3 DEF Quiet
<1>. QED
  BY <1>1, <1>2, <1>3, <1>4, <1>5, <1>6, <1>7, <1>8, <1>9, <1>10, <1>11, <1>12
  DEF Next, PageStep, Quietly

LEMMA NextStepEffect == ASSUME CInv, CallerDisciplined, [Next]_vars PROVE Kept' /\ StepEffect
<1>1. PageStep => ProgramSector
  BY DEF PageStep, ProgramNextPage, ProgramLastPage
<1>. QED  BY <1>1, NextEffect, QuietEffect, PageEffect

\* What the first page puts in the catalogue is what was committed.
LEMMA NewIntact ==
  ASSUME IInv, FirstPageEffect, NEW s \in Slots, Stored(s) \in {None, committed[s]}
  PROVE  NewListing(s) \in {None, committed'[s]}
<1>1. committed \in [Slots -> Seq(Byte)]
  BY DEF IInv, TypeOK
<1>2. CASE s # op.arg
  BY <1>1, <1>2 DEF FirstPageEffect, NewListing
<1>3. CASE s = op.arg /\ op.call = "write_end"
  BY <1>1, <1>3 DEF FirstPageEffect, NewListing
<1>4. CASE s = op.arg /\ op.call # "write_end"
  BY <1>4 DEF NewListing
<1>. QED  BY <1>2, <1>3, <1>4

LEMMA EffectIntact == ASSUME CInv, StepEffect PROVE RomIntact'
<1>1. CASE CatalogueSame /\ UNCHANGED committed
  BY <1>1, SameIntact DEF CInv
<1>2. CASE AtomicEffect
  <2>1. SUFFICES ASSUME NEW s \in AtomicSlots PROVE Stored(s)' \in {None, committed'[s]}
    BY DEF RomIntact, AtomicSlots
  <2>2. Stored(s) \in {None, committed[s]} /\ s \in Slots
    BY DEF CInv, RomIntact, AtomicSlots
  <2>. QED  BY <1>2, <2>2, NewIntact DEF AtomicEffect, CInv
<1>. QED  BY <1>1, <1>2 DEF StepEffect

LEMMA NextCInv == ASSUME CInv, CallerDisciplined, [Next]_vars PROVE CInv'
<1>1. IInv'
  BY NextStep DEF CInv
<1>. QED  BY <1>1, NextStepEffect, EffectIntact DEF CInv

\* Where the bytes of an upload are, at every step.
THEOREM CatalogueInvariance == ASSUME CallerDisciplined PROVE Spec => []CInv
<1>1. CInv /\ [Next]_vars => CInv'
  BY NextCInv
<1>. QED  BY <1>1, InitCInv, PTL DEF Spec

\* A slot whose size is on the page of the generation counter (2 of the firmware's 16)
\* holds what was committed to it last, or nothing, at every flash operation of every
\* call and after a power cut at any step, between two pages of a superblock included.
THEOREM AtomicSlotsIntact == ASSUME CallerDisciplined PROVE Spec => []RomIntact
<1>1. CInv => RomIntact
  BY DEF CInv
<1>. QED  BY <1>1, CatalogueInvariance, PTL

Listed == [s \in AtomicSlots |-> Stored(s)]
Visible == IF upload = None \/ SlotPage[upload.slot] # 0 THEN None ELSE upload

LEMMA ListedSame == ASSUME CatalogueSame PROVE Listed' = Listed
<1>1. AtomicSlots' = AtomicSlots
  BY DEF AtomicSlots
<1>. QED  BY <1>1 DEF Listed, CatalogueSame

LEMMA AppendsRefines == ASSUME CInv, Appends, Listed' = Listed
                        PROVE  Catalogue!Next \/ UNCHANGED <<Listed, Visible>>
<1>1. upload \in Upload /\ upload # None /\ Len(upload.data) < MaxMemSize
  BY DEF Appends, CInv, IInv, TypeOK
<1>2. PICK v \in Byte : upload' = [upload EXCEPT !.data = Append(upload.data, v)]
  BY DEF Appends
<1>3. upload' \in Upload /\ upload'.slot = upload.slot
  <2>1. Append(upload.data, v) \in Seq(Byte)
    BY <1>1 DEF Upload
  <2>. QED  BY <1>1, <1>2, <2>1 DEF Upload
<1>4. upload' # None
  BY <1>3, NoneAssumption
<1>5. CASE SlotPage[upload.slot] # 0
  BY <1>1, <1>3, <1>4, <1>5 DEF Visible
<1>6. CASE SlotPage[upload.slot] = 0
  <2>1. Visible = upload /\ Visible' = upload'
    BY <1>1, <1>3, <1>4, <1>6 DEF Visible
  <2>2. Catalogue!Append1(v)
    BY <1>1, <1>2, <2>1 DEF Catalogue!Append1, Visible, Listed
  <2>. QED  BY <2>2 DEF Catalogue!Next
<1>. QED  BY <1>5, <1>6

LEMMA FirstPageRefines == ASSUME CInv, AtomicEffect
                          PROVE  Catalogue!Next \/ UNCHANGED <<Listed, Visible>>
<1>1. \A s \in AtomicSlots :
        Stored(s)' = IF s # op.arg THEN Stored(s)
                     ELSE IF op.call = "write_end" THEN upload.data ELSE None
  BY DEF AtomicEffect, NewListing
<1>. USE DEF AtomicEffect
<1>2. AtomicSlots' = AtomicSlots /\ \A s \in AtomicSlots : s \in Slots /\ SlotPage[s] = 0
  BY DEF AtomicSlots
<1>3. op.arg \notin AtomicSlots => CatalogueSame
  BY <1>1 DEF CatalogueSame
<1>4. ASSUME NEW s \in AtomicSlots, s = op.arg
      PROVE  Listed' = [Listed EXCEPT ![s] = IF op.call = "write_end" THEN upload.data ELSE None]
  BY <1>1, <1>2, <1>4 DEF Listed
<1>5. CASE op.call = "write_begin"
  <2>1. op.arg \in Slots /\ upload' = [slot |-> op.arg, data |-> <<>>]
    BY <1>5 DEF FirstPageEffect
  <2>2. upload' # None
    <3>1. [slot |-> op.arg, data |-> <<>>] \in Upload
      BY <2>1 DEF Upload
    <3>. QED  BY <2>1, <3>1, NoneAssumption
  <2>3. CASE op.arg \in AtomicSlots
    <3>1. PICK s \in AtomicSlots : s = op.arg
      BY <2>3
    <3>2. Visible' = [slot |-> s, data |-> <<>>]
      BY <1>2, <2>1, <2>2, <3>1 DEF Visible
    <3>3. Catalogue!Begin(s)
      BY <1>4, <1>5, <3>1, <3>2 DEF Catalogue!Begin, Listed, Visible
    <3>. QED  BY <3>3 DEF Catalogue!Next
  <2>4. CASE op.arg \notin AtomicSlots
    <3>1. Listed' = Listed
      BY <1>3, <2>4, ListedSame
    <3>2. Visible' = None
      BY <2>1, <2>2, <2>4 DEF Visible, AtomicSlots
    <3>3. Catalogue!Abandon
      BY <3>1, <3>2 DEF Catalogue!Abandon, Listed, Visible
    <3>. QED  BY <3>3 DEF Catalogue!Next
  <2>. QED  BY <2>3, <2>4
<1>6. CASE op.call = "write_end"
  <2>1. upload # None /\ op.arg = upload.slot /\ upload.data # <<>> /\ upload' = None
    BY <1>6 DEF FirstPageEffect
  <2>2. Visible' = None
    BY <2>1 DEF Visible
  <2>3. CASE op.arg \in AtomicSlots
    <3>1. PICK s \in AtomicSlots : s = op.arg
      BY <2>3
    <3>2. Visible = upload
      BY <1>2, <2>1, <3>1 DEF Visible
    <3>3. Listed' = [Listed EXCEPT ![upload.slot] = upload.data]
      BY <1>4, <1>6, <2>1, <3>1
    <3>4. Catalogue!Commit
      BY <2>1, <2>2, <3>2, <3>3 DEF Catalogue!Commit, Listed, Visible
    <3>. QED  BY <3>4 DEF Catalogue!Next
  <2>4. CASE op.arg \notin AtomicSlots
    <3>1. Listed' = Listed
      BY <1>3, <2>4, ListedSame
    <3>2. Catalogue!Abandon
      BY <2>2, <3>1 DEF Catalogue!Abandon, Listed, Visible
    <3>. QED  BY <3>2 DEF Catalogue!Next
  <2>. QED  BY <2>3, <2>4
<1>7. CASE op.call = "erase"
  <2>1. op.arg \in Slots /\ UNCHANGED upload
    BY <1>7 DEF FirstPageEffect
  <2>2. Visible' = Visible
    BY <2>1 DEF Visible
  <2>3. CASE op.arg \in AtomicSlots
    <3>1. PICK s \in AtomicSlots : s = op.arg
      BY <2>3
    <3>2. Catalogue!Erase(s)
      BY <1>4, <1>7, <2>2, <3>1 DEF Catalogue!Erase, Listed, Visible
    <3>. QED  BY <3>2 DEF Catalogue!Next
  <2>4. CASE op.arg \notin AtomicSlots
    BY <1>3, <2>2, <2>4, ListedSame
  <2>. QED  BY <2>3, <2>4
<1>8. CASE op.call = "set_wireless"
  <2>1. op.arg = None /\ UNCHANGED upload
    BY <1>8 DEF FirstPageEffect
  <2>2. op.arg \notin AtomicSlots
    BY <1>2, <2>1, NoneAssumption
  <2>. QED  BY <1>3, <2>1, <2>2, ListedSame DEF Visible
<1>. QED  BY <1>5, <1>6, <1>7, <1>8 DEF FirstPageEffect

LEMMA StepRefines ==
  ASSUME CInv, StepEffect PROVE [Catalogue!Next]_(Catalogue!vars)
<1>1. Catalogue!Next \/ UNCHANGED <<Listed, Visible>>
  <2>1. CASE CatalogueSame /\ UNCHANGED upload
    BY <2>1, ListedSame DEF Visible
  <2>2. CASE CatalogueSame /\ upload' = None
    <3>1. Listed' = Listed /\ Visible' = None
      BY <2>2, ListedSame DEF Visible
    <3>2. Catalogue!Abandon
      BY <3>1 DEF Catalogue!Abandon, Listed, Visible
    <3>. QED  BY <3>2 DEF Catalogue!Next
  <2>3. CASE CatalogueSame /\ Appends
    BY <2>3, ListedSame, AppendsRefines
  <2>4. CASE AtomicEffect
    BY <2>4, FirstPageRefines
  <2>. QED  BY <2>1, <2>2, <2>3, <2>4 DEF StepEffect
<1>. QED  BY <1>1 DEF Catalogue!vars, Listed, Visible

\* For the slots on the page of the generation counter, the partition implements the
\* catalogue: every call takes effect at one flash operation, and a power cut at any
\* step, between two pages of a superblock included, loses at most their upload.
THEOREM AtomicSlotsRefinement == ASSUME CallerDisciplined PROVE Spec => ImplementsCatalogue
<1>1. Init => Catalogue!Init
  <2>. SUFFICES ASSUME Init PROVE Catalogue!Init
    OBVIOUS
  <2>1. upload = None /\ \A s \in AtomicSlots : Stored(s) = None
    BY InitEmpty DEF Init, AtomicSlots
  <2>. QED  BY <2>1 DEF Catalogue!Init
<1>2. CInv /\ [Next]_vars /\ CallerDisciplined => [Catalogue!Next]_(Catalogue!vars)
  BY NextStepEffect, StepRefines
<1>. QED  BY <1>1, <1>2, CatalogueInvariance, PTL DEF Spec, ImplementsCatalogue, Catalogue!Spec

-----------------------------------------------------------------------------
(* All the slots, when the power does not go between two pages of a        *)
(* superblock: step by step, and for a partition to which that never       *)
(* happens (WholeSpec).                                                    *)

WholeSpec == Init /\ [][Next /\ FlushesWhole]_vars

\* Every slot holds exactly the bytes that were committed to it last, or nothing.
AllRomsIntact == \A s \in Slots : InEffect(s) \in {None, committed[s]}

InEffectSame == \A s \in Slots : InEffect(s)' = InEffect(s)

\* A step that programs no page starts and ends outside the pages of a superblock.
LEMMA BetweenPages ==
  ASSUME IInv, [Next]_vars, FlushesWhole, ~ PageStep
  PROVE  (op.page = 0 /\ op'.page = 0) \/ UNCHANGED <<sb, rom, superblock_contents, op>>
<1>1. Idle.page = 0 /\ Off.page = 0 /\ Idle # Off
  BY DEF Idle, Off
<1>2. Open => op.page = 0 /\ op'.page = 0
  BY <1>1 DEF Open
<1>3. PowerCut => op.page = 0 /\ op'.page = 0
  BY <1>1 DEF PowerCut, FlushesWhole
<1>4. EraseSector => op.page = 0 /\ op'.page = 0
  BY DEF EraseSector, IInv, OpOK, TypeOK, Flushing
<1>5. BlockErase => op.page = 0 /\ op'.page = 0
  BY DEF BlockErase, IInv, OpOK, TypeOK, Blocking
<1>6. BlockThenPush => op.page = 0 /\ op'.page = 0
  BY <1>1 DEF BlockThenPush, BlockProgram, IInv, OpOK, Blocking
<1>7. BlockThenCommit => op.page = 0 /\ op'.page = 0
  BY DEF BlockThenCommit, BlockProgram, StartFlush, IInv, OpOK, Blocking
<1>8. ASSUME NEW s \in Slots, WriteBegin(s) \/ Erase(s) PROVE op.page = 0 /\ op'.page = 0
  BY <1>1, <1>8 DEF WriteBegin, Erase, StartFlush
<1>9. ASSUME NEW v \in Byte, WriteData(v) PROVE op.page = 0 /\ op'.page = 0
  BY <1>1, <1>9 DEF WriteData, StartBlock
<1>10. WriteEnd => op.page = 0 /\ op'.page = 0
  BY <1>1 DEF WriteEnd, StartBlock
<1>11. ASSUME NEW cfg \in Networks \cup {NotConfigured}, SetWirelessConfig(cfg)
       PROVE  op.page = 0 /\ op'.page = 0
  BY <1>1, <1>11 DEF SetWirelessConfig, StartFlush
<1>12. UNCHANGED vars => UNCHANGED <<sb, rom, superblock_contents, op>>
  BY DEF vars, ram
<1>. QED
  BY <1>2, <1>3, <1>4, <1>5, <1>6, <1>7, <1>8, <1>9, <1>10, <1>11, <1>12 DEF Next, PageStep

\* A page programmed, the superblock the flush works on is in effect: what is left of
\* the flush follows, and after the last page flash holds all of it.
LEMMA PageInEffect ==
  ASSUME IInv, IInv', PageStep, NEW s \in Slots
  PROVE  InEffect(s)' = Listing(superblock_contents, s)'
<1>1. CASE ProgramNextPage
  <2>1. op.page \in Nat
    BY DEF IInv, TypeOK, Pages
  <2>2. op'.page # 0
    BY <1>1, <2>1 DEF ProgramNextPage, IInv, TypeOK
  <2>. QED  BY <2>2 DEF InEffect
<1>2. CASE ProgramLastPage
  <2>1. op' = Idle
    BY <1>2 DEF ProgramLastPage
  <2>2. Recovered(sb)' = superblock_contents'
    BY <2>1 DEF IInv, InSync, Flushing, Idle
  <2>. QED  BY <2>1, <2>2 DEF InEffect, Listing, Idle
<1>. QED  BY <1>1, <1>2 DEF PageStep

WholeEffect ==
  \/ /\ InEffectSame /\ UNCHANGED committed
     /\ UNCHANGED upload \/ upload' = None \/ Appends
  \/ /\ FirstPageEffect
     /\ \A s \in Slots : Stored(s) = InEffect(s) /\ InEffect(s)' = NewListing(s)

LEMMA WholeStepEffect ==
  ASSUME CInv, IInv', CallerDisciplined, [Next]_vars, FlushesWhole PROVE WholeEffect
<1>1. CASE PageStep
  <2>1. ProgramSector /\ \A s \in Slots : InEffect(s)' = Listing(superblock_contents, s)'
    BY <1>1, PageInEffect DEF CInv, PageStep, ProgramNextPage, ProgramLastPage
  <2>2. CASE op.page = 0
    <3>1. FirstPageEffect
      BY <2>1, <2>2, FirstPage
    <3>2. \A s \in Slots : Stored(s) = InEffect(s)
      BY <2>2 DEF Stored, InEffect
    <3>. QED  BY <2>1, <3>1, <3>2 DEF WholeEffect, FirstPageEffect
  <2>3. CASE op.page # 0
    <3>1. UNCHANGED <<rom, superblock_contents, committed, upload>>
      BY <2>1, <2>3 DEF ProgramSector, Linearize
    <3>2. \A s \in Slots : InEffect(s) = Listing(superblock_contents, s)
      BY <2>3 DEF InEffect
    <3>3. \A s \in Slots : Listing(superblock_contents, s)' = Listing(superblock_contents, s)
      BY <3>1 DEF Listing, RomData
    <3>. QED  BY <2>1, <3>1, <3>2, <3>3 DEF WholeEffect, InEffectSame
  <2>. QED  BY <2>2, <2>3
<1>2. CASE ~ PageStep
  <2>1. Quiet
    BY <1>2, NextEffect
  <2>2. CASE op.page = 0 /\ op'.page = 0
    <3>1. \A s \in Slots : InEffect(s)' = Stored(s)' /\ InEffect(s) = Stored(s)
      BY <2>2 DEF InEffect, Stored
    <3>. QED  BY <2>1, <3>1 DEF Quiet, SlotsSame, WholeEffect, InEffectSame
  <2>3. CASE UNCHANGED <<sb, rom, superblock_contents, op>>
    <3>1. InEffectSame
      BY <2>3 DEF InEffectSame, InEffect, Listing, RomData
    <3>. QED  BY <2>1, <3>1 DEF Quiet, WholeEffect
  <2>. QED  BY <1>2, <2>2, <2>3, BetweenPages DEF CInv
<1>. QED  BY <1>1, <1>2

WInv == CInv /\ AllRomsIntact

LEMMA NextWInv ==
  ASSUME WInv, CallerDisciplined, [Next /\ FlushesWhole]_vars PROVE WInv' /\ WholeEffect
<1>1. CInv /\ CInv' /\ IInv'
  BY NextCInv DEF WInv, CInv
<1>2. WholeEffect
  <2>1. CASE Next /\ FlushesWhole
    BY <1>1, <2>1, WholeStepEffect
  <2>2. CASE UNCHANGED vars
    <3>1. UNCHANGED <<sb, rom, superblock_contents, op, upload, committed>>
      BY <2>2 DEF vars, ram
    <3>2. InEffectSame
      BY <3>1 DEF InEffectSame, InEffect, Listing, RomData
    <3>. QED  BY <3>1, <3>2 DEF WholeEffect
  <2>. QED  BY <2>1, <2>2
<1>3. AllRomsIntact'
  <2>1. SUFFICES ASSUME NEW s \in Slots PROVE InEffect(s)' \in {None, committed'[s]}
    BY DEF AllRomsIntact
  <2>2. InEffect(s) \in {None, committed[s]}
    BY DEF WInv, AllRomsIntact
  <2>3. CASE InEffectSame /\ UNCHANGED committed
    BY <2>2, <2>3 DEF InEffectSame
  <2>4. CASE FirstPageEffect /\ Stored(s) = InEffect(s) /\ InEffect(s)' = NewListing(s)
    BY <1>1, <2>2, <2>4, NewIntact DEF CInv
  <2>. QED  BY <1>2, <2>3, <2>4 DEF WholeEffect
<1>. QED  BY <1>1, <1>2, <1>3 DEF WInv

LEMMA InitWInv == Init => WInv
<1>. SUFFICES ASSUME Init PROVE WInv
  OBVIOUS
<1>1. \A s \in Slots : InEffect(s) = None
  BY InitEmpty DEF Init, InEffect, Stored, Off, Idle
<1>. QED  BY <1>1, InitCInv DEF WInv, AllRomsIntact

LEMMA WholeInvariance == ASSUME CallerDisciplined PROVE WholeSpec => []WInv
<1>1. WInv /\ [Next /\ FlushesWhole]_vars => WInv'
  BY NextWInv
<1>. QED  BY <1>1, InitWInv, PTL DEF WholeSpec

\* Every slot of the catalogue, on whatever page, holds what was committed to it last, or
\* nothing, at every flash operation of every call and after every power cut, as long as
\* none comes between two pages of a superblock.
THEOREM ListedRomsIntact == ASSUME CallerDisciplined PROVE WholeSpec => []AllRomsIntact
<1>1. WInv => AllRomsIntact
  BY DEF WInv
<1>. QED  BY <1>1, WholeInvariance, PTL

Whole == [s \in Slots |-> InEffect(s)]

LEMMA WholeRefines ==
  ASSUME CInv, WholeEffect PROVE WholeCatalogue!Next \/ UNCHANGED <<Whole, upload>>
<1>1. InEffectSame => Whole' = Whole
  BY DEF InEffectSame, Whole
<1>2. CASE InEffectSame /\ UNCHANGED upload
  BY <1>1, <1>2
<1>3. CASE InEffectSame /\ upload' = None
  BY <1>1, <1>3 DEF WholeCatalogue!Next, WholeCatalogue!Abandon, Whole
<1>4. CASE InEffectSame /\ Appends
  <2>1. PICK v \in Byte : upload' = [upload EXCEPT !.data = Append(upload.data, v)]
    BY <1>4 DEF Appends
  <2>2. WholeCatalogue!Append1(v)
    BY <1>1, <1>4, <2>1 DEF Appends, WholeCatalogue!Append1, Whole
  <2>. QED  BY <2>2 DEF WholeCatalogue!Next
<1>5. CASE /\ FirstPageEffect
           /\ \A s \in Slots : Stored(s) = InEffect(s) /\ InEffect(s)' = NewListing(s)
  <2>1. ASSUME NEW s \in Slots, s = op.arg
        PROVE  Whole' = [Whole EXCEPT ![s] = IF op.call = "write_end" THEN upload.data ELSE None]
    BY <1>5, <2>1 DEF Whole, NewListing
  <2>2. CASE op.call = "write_begin"
    <3>1. PICK s \in Slots : s = op.arg
      BY <1>5, <2>2 DEF FirstPageEffect
    <3>2. WholeCatalogue!Begin(s)
      BY <1>5, <2>1, <2>2, <3>1 DEF FirstPageEffect, WholeCatalogue!Begin, Whole
    <3>. QED  BY <3>2 DEF WholeCatalogue!Next
  <2>3. CASE op.call = "write_end"
    <3>1. upload # None /\ op.arg = upload.slot /\ upload.data # <<>> /\ upload' = None
      BY <1>5, <2>3 DEF FirstPageEffect
    <3>2. PICK s \in Slots : s = op.arg
      BY <3>1, UploadFields DEF CInv, IInv
    <3>3. WholeCatalogue!Commit
      BY <2>1, <2>3, <3>1, <3>2 DEF WholeCatalogue!Commit, Whole
    <3>. QED  BY <3>3 DEF WholeCatalogue!Next
  <2>4. CASE op.call = "erase"
    <3>1. PICK s \in Slots : s = op.arg
      BY <1>5, <2>4 DEF FirstPageEffect
    <3>2. WholeCatalogue!Erase(s)
      BY <1>5, <2>1, <2>4, <3>1 DEF FirstPageEffect, WholeCatalogue!Erase, Whole
    <3>. QED  BY <3>2 DEF WholeCatalogue!Next
  <2>5. CASE op.call = "set_wireless"
    <3>1. op.arg = None /\ UNCHANGED upload
      BY <1>5, <2>5 DEF FirstPageEffect
    <3>2. \A s \in Slots : s # op.arg
      BY <3>1, NoneAssumption
    <3>3. InEffectSame
      BY <1>5, <3>2 DEF InEffectSame, NewListing
    <3>. QED  BY <1>1, <3>1, <3>3
  <2>. QED  BY <1>5, <2>2, <2>3, <2>4, <2>5 DEF FirstPageEffect
<1>. QED  BY <1>2, <1>3, <1>4, <1>5 DEF WholeEffect

LEMMA InitRefines == Init => WholeCatalogue!Init
<1>. SUFFICES ASSUME Init PROVE WholeCatalogue!Init
  OBVIOUS
<1>1. upload = None /\ \A s \in Slots : InEffect(s) = None
  BY InitEmpty DEF Init, InEffect, Stored, Off, Idle
<1>. QED  BY <1>1 DEF WholeCatalogue!Init

\* Every step of the partition but a power cut between two pages of a superblock is one
\* of the catalogue of all its slots, or changes nothing there: every call takes effect
\* at one flash operation, and any other cut loses at most the upload in progress. That
\* is so even after the power was cut between two pages.
THEOREM Refinement == ASSUME CallerDisciplined PROVE Spec => ImplementsUnlessTorn
<1>1. CInv /\ CInv' /\ [Next]_vars /\ CallerDisciplined
        => [FlushesWhole => WholeCatalogue!Next]_(WholeCatalogue!vars)
  BY WholeStepEffect, WholeRefines DEF CInv, WholeCatalogue!vars, Whole
<1>. QED  BY <1>1, InitRefines, CatalogueInvariance, PTL DEF Spec, ImplementsUnlessTorn

\* So a partition that loses power at any flash operation, but never between two pages
\* of a superblock, implements RomCatalog, over which the main loop is modelled.
THEOREM WholeRefinement == ASSUME CallerDisciplined PROVE WholeSpec => WholeCatalogue!Spec
<1>1. WInv /\ [Next /\ FlushesWhole]_vars /\ CallerDisciplined
        => [WholeCatalogue!Next]_(WholeCatalogue!vars)
  BY NextWInv, WholeRefines DEF WInv, WholeCatalogue!vars, Whole
<1>. QED  BY <1>1, InitRefines, WholeInvariance, PTL DEF WholeSpec, WholeCatalogue!Spec
=============================================================================
