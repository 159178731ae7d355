------------------ MODULE ConfigurationPartition_proofs ------------------
(***************************************************************************)
(* Proofs about ConfigurationPartition for every number of slots, sectors, *)
(* pages and bytes, and every layout of the superblock over the pages.     *)
(***************************************************************************)
EXTENDS ConfigurationPartition, TLAPS

-----------------------------------------------------------------------------
(* The inductive invariant.                                                *)

Flushing == op.step \in {"erase", "program"}
Blocking == op.step \in {"block_erase", "block_program"}

\* What the call in progress has established when it reaches its next flash step.
OpOK ==
  /\ op.step = "off" => op = Off /\ write_status = None
  /\ op.step = "idle" => op = Idle
  /\ Blocking => /\ op.page = 0
                 /\ write_status # None /\ upload # None
                 /\ \/ op.call = "write_data" /\ op.arg \in Byte /\ write_status.cursor < MaxMemSize
                    \/ op.call = "write_end" /\ write_status.cursor # 0 /\ CanFlush
  /\ Flushing => /\ op.call \in {"write_begin", "write_end", "erase", "set_wireless"}
                 /\ op.call = "write_begin" => /\ op.arg \in Slots
                                               /\ superblock_contents.size[op.arg] = NotPresent
                                               /\ op.page # 0 => upload # None
                 /\ op.call = "write_end" => /\ write_status = None
                                             /\ op.page = 0 => upload # None
                 /\ op.step = "erase" => op.page = 0

\* A caller that goes on with an upload has one.
UploadOK == ~ CallerDisciplined /\ write_status # None => upload # None

NoneValid(sbs) == \A i \in Sectors : sbs[i].gen = InvalidGeneration
HasCurrent(sbs) == \E i \in Sectors : IsCurrent(sbs, i)

\* Flash always holds a superblock open() would choose, or none at all.
RingOK == NoneValid(sb) \/ HasCurrent(sb)

\* Outside a flush RAM agrees with flash, also while a ROM block is written.
InSync ==
  ~ Flushing /\ op.step # "off" =>
    /\ superblock_contents = Recovered(sb)
    /\ superblock_write_index = RecoveredIndex(sb)

\* Until its page 0 is programmed a flush is invisible; it is about to write, with
\* a newer generation, a sector other than the current one.
FlushBefore ==
  Flushing /\ op.page = 0 =>
    /\ superblock_write_index = RecoveredIndex(sb)
    /\ superblock_contents.gen = Recovered(sb).gen - 1

\* From then on the sector being programmed is the current one, and holds the
\* pages programmed so far.
FlushAfter ==
  Flushing /\ op.page # 0 =>
    /\ IsCurrent(sb, superblock_write_index)
    /\ sb[superblock_write_index].gen = superblock_contents.gen
    /\ \A s \in Slots : SlotPage[s] < op.page =>
         sb[superblock_write_index].size[s] = superblock_contents.size[s]
    /\ WirelessPage < op.page =>
         sb[superblock_write_index].wireless = superblock_contents.wireless

\* A sector being programmed lists no ROM that is absent in RAM.
FlushHides ==
  op.step = "program" =>
    \A s \in Slots : superblock_contents.size[s] = NotPresent =>
                        sb[superblock_write_index].size[s] = NotPresent

IInv ==
  /\ TypeOK /\ OpOK /\ UploadOK
  /\ RingOK /\ InSync /\ FlushBefore /\ FlushAfter /\ FlushHides
  /\ UploadInvisible

-----------------------------------------------------------------------------
(* What open() recovers.                                                   *)

Ring == [Sectors -> Superblock]

LEMMA OnesNat == AllOnes \in Nat /\ AllOnes >= 1
<1>1. AllOnes \in Nat /\ MaxMemSize < AllOnes /\ MaxMemSize \in Nat
  BY WordAssumption, MemoryAssumption
<1> HIDE DEF AllOnes
<1> QED
  BY <1>1

\* At most one sector is the current one.
LEMMA CurrentUnique ==
  ASSUME NEW sbs \in Ring, NEW i, NEW j, IsCurrent(sbs, i), IsCurrent(sbs, j)
  PROVE  i = j
<1> HIDE DEF AllOnes
<1>1. \A k \in Sectors : sbs[k].gen \in 0 .. AllOnes
  BY DEF Ring, Superblock
<1> QED
  BY <1>1, RingAssumption, OnesNat DEF IsCurrent, Sectors

LEMMA RecoveredCurrent ==
  ASSUME NEW sbs \in Ring, NEW i, IsCurrent(sbs, i)
  PROVE  Recovered(sbs) = sbs[i] /\ RecoveredIndex(sbs) = (i + 1) % NumSuperblocks
<1>1. i \in Sectors
  BY DEF IsCurrent
<1>2. \A j \in Sectors : IsCurrent(sbs, j) => j = i
  BY CurrentUnique
<1>3. (CHOOSE j \in Sectors : IsCurrent(sbs, j)) = i
  BY <1>1, <1>2
<1> QED
  BY <1>1, <1>3 DEF Recovered, RecoveredIndex

LEMMA RecoveredNone ==
  ASSUME NEW sbs \in Ring, NoneValid(sbs)
  PROVE  Recovered(sbs) = Blank /\ RecoveredIndex(sbs) = 0 /\ ~ HasCurrent(sbs)
BY DEF NoneValid, IsCurrent, Recovered, RecoveredIndex, HasCurrent

\* The modular successor open() computes is the one flush_superblock_contents does.
LEMMA Successor ==
  ASSUME NEW i \in Sectors
  PROVE  /\ (i + 1) % NumSuperblocks = IF i + 1 = NumSuperblocks THEN 0 ELSE i + 1
         /\ (i + 1) % NumSuperblocks \in Sectors
         /\ (i + 1) % NumSuperblocks # i
BY RingAssumption, SMT DEF Sectors

LEMMA BlankType == Blank \in Superblock
BY OnesNat DEF Blank, Superblock, NotPresent, InvalidGeneration, WirelessConfig

LEMMA RecoveredType ==
  ASSUME NEW sbs \in Ring, NoneValid(sbs) \/ HasCurrent(sbs)
  PROVE  Recovered(sbs) \in Superblock /\ RecoveredIndex(sbs) \in Sectors
<1>1. CASE NoneValid(sbs)
  BY <1>1, RecoveredNone, BlankType, RingAssumption DEF Sectors
<1>2. CASE HasCurrent(sbs)
  <2>1. PICK i \in Sectors : IsCurrent(sbs, i)
    BY <1>2 DEF HasCurrent
  <2> QED
    BY <2>1, RecoveredCurrent, Successor DEF Ring
<1> QED
  BY <1>1, <1>2

\* The write index open() chooses is never the current sector's.
LEMMA IndexSparesCurrent ==
  ASSUME NEW sbs \in Ring, NEW i, IsCurrent(sbs, i)
  PROVE  RecoveredIndex(sbs) # i
BY RecoveredCurrent, Successor DEF IsCurrent

\* Erasing another sector leaves the current one current.
LEMMA CurrentAfterErase ==
  ASSUME NEW sbs \in Ring, NEW i, IsCurrent(sbs, i), NEW k \in Sectors, k # i
  PROVE  IsCurrent([sbs EXCEPT ![k] = Blank], i)
<1> HIDE DEF AllOnes
<1>1. \A j \in Sectors : sbs[j].gen \in 0 .. AllOnes
  BY DEF Ring, Superblock
<1>2. Blank.gen = AllOnes
  BY DEF Blank, InvalidGeneration
<1> QED
  BY <1>1, <1>2, OnesNat DEF IsCurrent, Ring, InvalidGeneration

\* A sector with a generation below the recovered one becomes the current one.
LEMMA NewerIsCurrent ==
  ASSUME NEW sbs \in Ring, NoneValid(sbs) \/ HasCurrent(sbs),
         NEW k \in Sectors, NEW new \in Superblock,
         new.gen < Recovered(sbs).gen
  PROVE  IsCurrent([sbs EXCEPT ![k] = new], k)
<1> HIDE DEF AllOnes
<1>1. \A j \in Sectors : sbs[j].gen \in 0 .. AllOnes
  BY DEF Ring, Superblock
<1>2. new.gen \in 0 .. AllOnes
  BY DEF Superblock
<1>3. Recovered(sbs).gen \in 0 .. AllOnes
  BY RecoveredType DEF Superblock
<1>4. \A j \in Sectors : Recovered(sbs).gen <= sbs[j].gen
  <2>1. CASE NoneValid(sbs)
    BY <2>1, RecoveredNone, OnesNat DEF NoneValid, Blank, InvalidGeneration
  <2>2. CASE HasCurrent(sbs)
    <3>1. PICK i \in Sectors : IsCurrent(sbs, i)
      BY <2>2 DEF HasCurrent
    <3> QED
      BY <3>1, <1>1, RecoveredCurrent, OnesNat DEF IsCurrent
  <2> QED
    BY <2>1, <2>2
<1> QED
  BY <1>1, <1>2, <1>3, <1>4, OnesNat DEF IsCurrent, InvalidGeneration, Ring, Sectors

\* Programming a sector without touching its generation leaves it current.
LEMMA CurrentAfterPage ==
  ASSUME NEW sbs \in Ring, NEW i, IsCurrent(sbs, i),
         NEW new \in Superblock, new.gen = sbs[i].gen
  PROVE  IsCurrent([sbs EXCEPT ![i] = new], i)
BY DEF IsCurrent, Ring

LEMMA ProgramPageType ==
  ASSUME NEW old \in Superblock, NEW new \in Superblock, NEW p \in Pages
  PROVE  ProgramPage(old, new, p) \in Superblock
BY DEF ProgramPage, Superblock

-----------------------------------------------------------------------------
(* The steps that flushes are made of.                                     *)

OpType == [step : Steps, page : Pages, call : Calls, arg : Slots \cup Byte \cup {None}]

LEMMA ZeroPage == 0 \in Pages
BY PagesAssumption DEF Pages

\* A flush that starts from a RAM in step with flash announces a newer generation.
LEMMA FlushStarts ==
  ASSUME IInv, CanFlush,
         superblock_contents = Recovered(sb), superblock_write_index = RecoveredIndex(sb),
         NEW contents \in Superblock, contents.gen = superblock_contents.gen,
         NEW call \in Calls, NEW arg \in Slots \cup {None},
         StartFlush(contents, call, arg),
         UNCHANGED <<sb, superblock_write_index>>
  PROVE  /\ superblock_contents' \in Superblock
         /\ superblock_contents'.size = contents.size
         /\ buffer' \in [BlockCells -> Cell]
         /\ op' \in OpType
         /\ op'.step \in {"erase", "program"} /\ op'.page = 0
         /\ op'.call = call /\ op'.arg = arg
         /\ RingOK' /\ InSync' /\ FlushBefore' /\ FlushAfter' /\ FlushHides'
<1> DEFINE image == [contents EXCEPT !.gen = @ - 1]
<1>1. superblock_contents' = image
  BY DEF StartFlush
<1>2. image \in Superblock /\ image.gen = contents.gen - 1 /\ image.size = contents.size
  <2>1. contents.gen \in 0 .. AllOnes /\ contents.gen > LastGeneration /\ LastGeneration \in Nat
    BY WordAssumption DEF CanFlush, Superblock
  <2>2. contents.gen - 1 \in 0 .. AllOnes
    <3> HIDE DEF AllOnes
    <3> QED BY <2>1, OnesNat
  <2> QED
    BY <2>2 DEF Superblock
<1>3. buffer' \in [BlockCells -> Cell]
  BY DEF StartFlush, Clobbered, Cell
<1>4. /\ op' \in OpType
      /\ op'.step \in {"erase", "program"} /\ op'.page = 0
      /\ op'.call = call /\ op'.arg = arg
  BY ZeroPage DEF StartFlush, OpType, Steps
<1>5. RingOK' /\ InSync' /\ FlushAfter'
  BY <1>4 DEF IInv, RingOK, InSync, FlushAfter, Flushing, NoneValid, HasCurrent
<1>6. FlushBefore'
  BY <1>1, <1>2 DEF FlushBefore
<1>7. FlushHides'
  <2> SUFFICES ASSUME op'.step = "program", NEW s \in Slots, image.size[s] = NotPresent
               PROVE  sb[superblock_write_index].size[s] = NotPresent
    BY <1>1 DEF FlushHides
  <2>1. ~ NeedsErase(image, sb[superblock_write_index])
    BY DEF StartFlush
  <2>2. SizeWithin(image.size[s], sb[superblock_write_index].size[s])
    BY <2>1 DEF NeedsErase
  <2> QED
    BY <2>2 DEF SizeWithin
<1> QED
  BY <1>1, <1>2, <1>3, <1>4, <1>5, <1>6, <1>7

\* After a page is programmed its sector is the current one, with the new generation
\* and every page so far, and it lists no ROM that RAM does not.
LEMMA PageProgrammed ==
  ASSUME IInv, ProgramSector
  PROVE  /\ sb' \in Ring
         /\ superblock_write_index \in Sectors
         /\ IsCurrent(sb', superblock_write_index)
         /\ sb'[superblock_write_index].gen = superblock_contents.gen
         /\ \A s \in Slots : SlotPage[s] <= op.page =>
              sb'[superblock_write_index].size[s] = superblock_contents.size[s]
         /\ WirelessPage <= op.page =>
              sb'[superblock_write_index].wireless = superblock_contents.wireless
         /\ \A s \in Slots : superblock_contents.size[s] = NotPresent =>
              sb'[superblock_write_index].size[s] = NotPresent
<1> DEFINE wi == superblock_write_index
           new == ProgramPage(sb[wi], superblock_contents, op.page)
<1>1. /\ sb \in Ring /\ wi \in Sectors /\ superblock_contents \in Superblock
      /\ op.page \in Pages /\ sb[wi] \in Superblock
  BY DEF IInv, TypeOK, Ring
<1>2. sb' = [sb EXCEPT ![wi] = new] /\ op.step = "program" /\ Flushing
  BY DEF ProgramSector, Flushing
<1>3. new \in Superblock
  BY <1>1, ProgramPageType
<1>4. sb' \in Ring /\ sb'[wi] = new
  BY <1>1, <1>2, <1>3 DEF Ring
<1>5. IsCurrent(sb', wi) /\ new.gen = superblock_contents.gen
  <2>1. CASE op.page = 0
    <3>1. new.gen = superblock_contents.gen
      BY <2>1 DEF ProgramPage
    <3>2. new.gen < Recovered(sb).gen
      <4>1. superblock_contents.gen = Recovered(sb).gen - 1
        BY <2>1, <1>2 DEF IInv, FlushBefore
      <4>2. Recovered(sb).gen \in Int
        BY <1>1, RecoveredType DEF IInv, RingOK, Superblock
      <4> QED
        BY <3>1, <4>1, <4>2
    <3> QED
      BY <1>1, <1>2, <1>3, <3>1, <3>2, NewerIsCurrent DEF IInv, RingOK
  <2>2. CASE op.page # 0
    <3>1. IsCurrent(sb, wi) /\ sb[wi].gen = superblock_contents.gen
      BY <2>2, <1>2 DEF IInv, FlushAfter
    <3>2. new.gen = sb[wi].gen
      BY <2>2 DEF ProgramPage
    <3> QED
      BY <1>1, <1>2, <1>3, <3>1, <3>2, CurrentAfterPage
  <2> QED
    BY <2>1, <2>2
<1>6. ASSUME NEW s \in Slots, SlotPage[s] <= op.page
      PROVE  new.size[s] = superblock_contents.size[s]
  <2>1. SlotPage[s] \in Nat /\ op.page \in Nat
    BY <1>1, PagesAssumption DEF Pages
  <2>2. CASE SlotPage[s] = op.page
    BY <2>2 DEF ProgramPage
  <2>3. CASE SlotPage[s] < op.page
    BY <2>1, <2>3, <1>2 DEF ProgramPage, IInv, FlushAfter
  <2> QED
    BY <1>6, <2>1, <2>2, <2>3
<1>7. ASSUME WirelessPage <= op.page
      PROVE  new.wireless = superblock_contents.wireless
  <2>1. WirelessPage \in Nat /\ op.page \in Nat
    BY <1>1, PagesAssumption DEF Pages
  <2>2. CASE WirelessPage = op.page
    BY <2>2 DEF ProgramPage
  <2>3. CASE WirelessPage < op.page
    BY <2>1, <2>3, <1>2 DEF ProgramPage, IInv, FlushAfter
  <2> QED
    BY <1>7, <2>1, <2>2, <2>3
<1>8. ASSUME NEW s \in Slots, superblock_contents.size[s] = NotPresent
      PROVE  new.size[s] = NotPresent
  BY <1>2, <1>8 DEF ProgramPage, IInv, FlushHides
<1> QED
  BY <1>1, <1>4, <1>5, <1>6, <1>7, <1>8

\* The history a programmed page leaves keeps its type.
LEMMA LinearizeType ==
  ASSUME IInv, op.step = "program", Linearize
  PROVE  /\ upload' \in Upload \cup {None}
         /\ committed' \in [Slots -> Seq(Byte)]
         /\ op.call = "write_begin" => upload' # None
         /\ op.call # "write_end" /\ upload # None => upload' # None
<1>1. /\ upload \in Upload \cup {None}
      /\ committed \in [Slots -> Seq(Byte)]
      /\ Flushing
  BY DEF IInv, TypeOK, Flushing
<1>2. CASE op.page # 0
  BY <1>1, <1>2 DEF Linearize, IInv, OpOK
<1>3. CASE op.page = 0 /\ op.call = "write_begin"
  <2>1. upload' = [slot |-> op.arg, data |-> <<>>] /\ committed' = committed
    BY <1>3 DEF Linearize
  <2>2. op.arg \in Slots
    BY <1>1, <1>3 DEF IInv, OpOK
  <2>3. upload' \in Upload
    BY <2>1, <2>2 DEF Upload
  <2> QED
    BY <1>1, <1>3, <2>1, <2>3, NoneAssumption
<1>4. CASE op.page = 0 /\ op.call = "write_end"
  <2>1. upload # None
    BY <1>1, <1>4 DEF IInv, OpOK
  <2>2. /\ upload' = None
        /\ committed' = [committed EXCEPT ![upload.slot] = upload.data]
    BY <1>4 DEF Linearize
  <2> QED
    BY <1>1, <1>4, <2>1, <2>2 DEF Upload
<1>5. CASE op.page = 0 /\ op.call \notin {"write_begin", "write_end"}
  BY <1>1, <1>5 DEF Linearize, IInv, OpOK
<1> QED
  BY <1>2, <1>3, <1>4, <1>5

-----------------------------------------------------------------------------
(* IInv is inductive: one lemma for each action that does more than a flush *)
(* step, then the invariance theorem.                                      *)

LEMMA InitIInv == Init => IInv
<1> SUFFICES ASSUME Init PROVE IInv
  OBVIOUS
<1>1. sb \in Ring /\ RingOK
  <2>1. [Blank EXCEPT !.gen = InvalidGeneration - 1, !.wireless = NotConfigured] \in Superblock
    <3>1. InvalidGeneration - 1 \in 0 .. AllOnes
      <4> HIDE DEF AllOnes
      <4> QED BY OnesNat DEF InvalidGeneration
    <3>2. NotConfigured \in WirelessConfig
      BY DEF WirelessConfig
    <3> QED
      BY ONLY <3>1, <3>2, BlankType DEF Superblock
  <2>2. CASE sb = [i \in Sectors |-> Blank]
    BY <2>2, BlankType DEF Ring, RingOK, NoneValid, Blank
  <2>3. CASE sb = [i \in Sectors |->
               IF i = 0
               THEN [Blank EXCEPT !.gen = InvalidGeneration - 1, !.wireless = NotConfigured]
               ELSE Blank]
    <3>1. sb \in Ring
      BY <2>1, <2>3, BlankType DEF Ring
    <3>2. 0 \in Sectors
      BY RingAssumption DEF Sectors
    <3>3. /\ sb[0].gen = AllOnes - 1
          /\ \A j \in Sectors : j # 0 => sb[j].gen = AllOnes
      BY <2>3, <3>2 DEF Blank, InvalidGeneration
    <3>4. IsCurrent(sb, 0)
      <4> HIDE DEF AllOnes
      <4> QED BY <3>2, <3>3, OnesNat, RingAssumption DEF IsCurrent, Sectors, InvalidGeneration
    <3> QED
      BY <3>1, <3>2, <3>4 DEF RingOK, HasCurrent
  <2> QED
    BY <2>2, <2>3 DEF Init, FactoryImages
<1>2. TypeOK
  <2>1. op \in OpType
    BY ZeroPage DEF Init, Off, Idle, OpType, Steps, Calls
  <2>2. superblock_write_index \in Sectors
    BY RingAssumption DEF Init, Sectors
  <2>3. rom \in [Slots -> [0 .. MaxMemSize - 1 -> Cell]] /\ buffer \in [BlockCells -> Cell]
    BY DEF Init, Clobbered, Cell
  <2>4. committed \in [Slots -> Seq(Byte)]
    BY DEF Init
  <2> QED
    BY <1>1, <2>1, <2>2, <2>3, <2>4, BlankType DEF Init, TypeOK, Ring, OpType
<1>3. OpOK /\ UploadOK /\ InSync /\ FlushBefore /\ FlushAfter /\ FlushHides /\ UploadInvisible
  BY DEF Init, OpOK, UploadOK, InSync, FlushBefore, FlushAfter, FlushHides,
         UploadInvisible, Uploading, Off, Idle, Flushing, Blocking
<1> QED
  BY <1>1, <1>2, <1>3 DEF IInv

LEMMA OpenStep == IInv /\ Open => IInv'
<1> SUFFICES ASSUME IInv, Open PROVE IInv'
  OBVIOUS
<1>1. sb \in Ring /\ RingOK /\ write_status = None
  BY DEF IInv, TypeOK, Ring, OpOK, Open, Off
<1>2. Recovered(sb) \in Superblock /\ RecoveredIndex(sb) \in Sectors
  BY <1>1, RecoveredType DEF RingOK
<1>3. TypeOK'
  BY <1>2, ZeroPage DEF IInv, TypeOK, Open, Idle, Steps, Calls
<1>4. InSync' /\ RingOK'
  BY <1>1 DEF Open, InSync, RingOK, NoneValid, HasCurrent
<1>5. OpOK' /\ UploadOK' /\ FlushBefore' /\ FlushAfter' /\ FlushHides' /\ UploadInvisible'
  BY <1>1 DEF Open, Idle, IInv, OpOK, UploadOK, FlushBefore, FlushAfter, FlushHides,
              UploadInvisible, Uploading, Flushing, Blocking
<1> QED
  BY <1>3, <1>4, <1>5 DEF IInv

LEMMA PowerCutStep == IInv /\ PowerCut => IInv'
<1> SUFFICES ASSUME IInv, PowerCut PROVE IInv'
  OBVIOUS
<1>1. TypeOK'
  <2>1. Off \in OpType
    BY ZeroPage DEF Off, Idle, OpType, Steps, Calls
  <2>2. 0 \in Sectors
    BY RingAssumption DEF Sectors
  <2>3. Clobbered \in [BlockCells -> Cell]
    BY DEF Clobbered, Cell
  <2> QED
    BY <2>1, <2>2, <2>3, BlankType DEF IInv, TypeOK, PowerCut, OpType
<1>2. RingOK'
  BY DEF IInv, PowerCut, RingOK, NoneValid, HasCurrent
<1>3. /\ OpOK' /\ UploadOK' /\ InSync' /\ FlushBefore' /\ FlushAfter'
      /\ FlushHides' /\ UploadInvisible'
  BY DEF PowerCut, Off, Idle, OpOK, UploadOK, InSync, FlushBefore, FlushAfter, FlushHides,
         UploadInvisible, Uploading, Flushing, Blocking
<1> QED
  BY <1>1, <1>2, <1>3 DEF IInv

\* Erasing the sector about to be written changes nothing that open() would find.
LEMMA EraseKeeps ==
  ASSUME IInv, EraseSector
  PROVE  /\ sb' \in Ring /\ RingOK'
         /\ Recovered(sb') = Recovered(sb) /\ RecoveredIndex(sb') = RecoveredIndex(sb)
<1> DEFINE wi == superblock_write_index
<1>1. /\ sb \in Ring /\ wi \in Sectors /\ sb' = [sb EXCEPT ![wi] = Blank]
      /\ wi = RecoveredIndex(sb)
  BY DEF IInv, TypeOK, Ring, EraseSector, Flushing, OpOK, FlushBefore
<1>2. sb' \in Ring
  BY <1>1, BlankType DEF Ring
<1>3. CASE NoneValid(sb)
  <2>1. NoneValid(sb')
    BY <1>1, <1>3 DEF NoneValid, Blank, Ring
  <2> QED
    BY <1>1, <1>2, <1>3, <2>1, RecoveredNone DEF RingOK, NoneValid
<1>4. CASE HasCurrent(sb)
  <2>1. PICK i \in Sectors : IsCurrent(sb, i)
    BY <1>4 DEF HasCurrent
  <2>2. wi # i
    BY <1>1, <2>1, IndexSparesCurrent
  <2>3. IsCurrent(sb', i)
    BY <1>1, <2>1, <2>2, CurrentAfterErase
  <2>4. sb'[i] = sb[i]
    BY <1>1, <2>2 DEF Ring
  <2>5. RingOK'
    BY <2>1, <2>3 DEF RingOK, HasCurrent
  <2>6. /\ Recovered(sb) = sb[i]
        /\ RecoveredIndex(sb) = (i + 1) % NumSuperblocks
    BY <1>1, <2>1, RecoveredCurrent
  <2>7. /\ Recovered(sb') = sb'[i]
        /\ RecoveredIndex(sb') = (i + 1) % NumSuperblocks
    BY <1>2, <2>3, RecoveredCurrent
  <2> QED
    BY <1>2, <2>4, <2>5, <2>6, <2>7
<1> QED
  BY <1>3, <1>4 DEF IInv, RingOK

LEMMA EraseSectorStep == IInv /\ EraseSector => IInv'
<1> SUFFICES ASSUME IInv, EraseSector PROVE IInv'
  OBVIOUS
<1> DEFINE wi == superblock_write_index
<1>1. /\ sb \in Ring /\ wi \in Sectors /\ sb' = [sb EXCEPT ![wi] = Blank]
      /\ Flushing /\ op.page = 0 /\ wi = RecoveredIndex(sb)
  BY DEF IInv, TypeOK, Ring, EraseSector, Flushing, OpOK, FlushBefore
<1>2. /\ UNCHANGED <<rom, superblock_contents, superblock_write_index, write_status, buffer,
                     upload, committed>>
      /\ op' = [op EXCEPT !.step = "program"] /\ op.step = "erase"
  BY DEF EraseSector, ram
<1>3. sb' \in Ring /\ RingOK'
      /\ Recovered(sb') = Recovered(sb) /\ RecoveredIndex(sb') = RecoveredIndex(sb)
  BY EraseKeeps
<1>4. TypeOK'
  BY <1>2, <1>3 DEF IInv, TypeOK, Ring, Steps
<1>5. OpOK' /\ UploadOK'
  BY <1>1, <1>2 DEF IInv, TypeOK, OpOK, UploadOK, Flushing, Blocking
<1>6. InSync' /\ FlushBefore' /\ FlushAfter'
  BY <1>1, <1>2, <1>3 DEF IInv, TypeOK, InSync, FlushBefore, FlushAfter, Flushing
<1>7. FlushHides'
  BY <1>1, <1>2 DEF FlushHides, Blank, Ring
<1>8. UploadInvisible'
  BY <1>2, <1>3 DEF IInv, UploadInvisible, Uploading
<1> QED
  BY <1>3, <1>4, <1>5, <1>6, <1>7, <1>8 DEF IInv

\* Both ProgramNextPage and ProgramLastPage leave these as they are.
LEMMA ProgramSectorKeeps ==
  ASSUME IInv, ProgramSector
  PROVE  /\ UNCHANGED <<rom, superblock_contents, buffer>>
         /\ op.step = "program" /\ Flushing /\ Linearize
         /\ op.page \in Pages
         /\ RingOK'
         /\ \A s \in Slots : superblock_contents.size[s] = NotPresent =>
              Recovered(sb').size[s] = NotPresent
<1>1. /\ UNCHANGED <<rom, superblock_contents, buffer>>
      /\ op.step = "program" /\ Flushing /\ Linearize /\ op.page \in Pages
  BY DEF ProgramSector, Flushing, IInv, TypeOK
<1>2. RingOK'
  BY PageProgrammed DEF RingOK, HasCurrent
<1>3. Recovered(sb') = sb'[superblock_write_index]
  BY PageProgrammed, RecoveredCurrent
<1> QED
  BY <1>1, <1>2, <1>3, PageProgrammed

LEMMA ProgramNextPageStep == IInv /\ ProgramNextPage => IInv'
<1> SUFFICES ASSUME IInv, ProgramNextPage PROVE IInv'
  OBVIOUS
<1>1. /\ ProgramSector /\ op.page < NumPages - 1
      /\ op' = [op EXCEPT !.page = @ + 1]
      /\ UNCHANGED <<superblock_write_index, write_status>>
  BY DEF ProgramNextPage
<1>2. op \in OpType /\ op.page + 1 \in Pages /\ op.page + 1 # 0 /\ op.page \in Nat
  BY <1>1, PagesAssumption DEF IInv, TypeOK, OpType, Pages
<1>3. /\ op' \in OpType /\ op'.page = op.page + 1 /\ op'.page # 0
      /\ op'.step = "program" /\ op'.call = op.call /\ op'.arg = op.arg
  BY <1>1, <1>2, ProgramSectorKeeps DEF OpType
<1>4. TypeOK'
  <2>1. sb' \in Ring
    BY <1>1, PageProgrammed
  <2>2. upload' \in Upload \cup {None} /\ committed' \in [Slots -> Seq(Byte)]
    BY <1>1, ProgramSectorKeeps, LinearizeType
  <2> QED
    BY <1>1, <1>3, <2>1, <2>2, ProgramSectorKeeps DEF IInv, TypeOK, Ring, OpType
<1>5. OpOK'
  <2>1. op.call \in {"write_begin", "write_end", "erase", "set_wireless"}
    BY <1>1, ProgramSectorKeeps DEF IInv, OpOK
  <2>2. op.call = "write_begin" => /\ op.arg \in Slots
                                   /\ superblock_contents.size[op.arg] = NotPresent
                                   /\ upload' # None
    BY <1>1, ProgramSectorKeeps, LinearizeType DEF IInv, OpOK
  <2>3. op.call = "write_end" => write_status = None
    BY <1>1, ProgramSectorKeeps DEF IInv, OpOK
  <2> QED
    BY <1>1, <1>3, <2>1, <2>2, <2>3, ProgramSectorKeeps DEF OpOK, Flushing, Blocking
<1>6. UploadOK'
  <2>1. SUFFICES ASSUME ~ CallerDisciplined, write_status # None PROVE upload' # None
    BY <1>1 DEF UploadOK
  <2>2. upload # None
    BY <2>1 DEF IInv, UploadOK
  <2>3. op.call # "write_end"
    BY <1>1, <2>1, ProgramSectorKeeps DEF IInv, OpOK
  <2> QED
    BY <1>1, <2>2, <2>3, ProgramSectorKeeps, LinearizeType
<1>7. InSync' /\ FlushBefore'
  BY <1>3 DEF InSync, FlushBefore, Flushing
<1>8. FlushAfter'
  <2>1. \A s \in Slots : SlotPage[s] < op'.page => SlotPage[s] <= op.page
    BY <1>2, <1>3, PagesAssumption DEF Pages
  <2>2. WirelessPage < op'.page => WirelessPage <= op.page
    BY <1>2, <1>3, PagesAssumption DEF Pages
  <2> QED
    BY <1>1, <1>3, <2>1, <2>2, PageProgrammed, ProgramSectorKeeps DEF FlushAfter
<1>9. FlushHides'
  BY <1>1, PageProgrammed, ProgramSectorKeeps DEF FlushHides
<1>10. UploadInvisible'
  BY <1>1, ProgramSectorKeeps DEF IInv, UploadInvisible, Uploading
<1> QED
  BY <1>1, <1>4, <1>5, <1>6, <1>7, <1>8, <1>9, <1>10, ProgramSectorKeeps DEF IInv

LEMMA ProgramLastPageStep == IInv /\ ProgramLastPage => IInv'
<1> SUFFICES ASSUME IInv, ProgramLastPage PROVE IInv'
  OBVIOUS
<1> DEFINE wi == superblock_write_index
<1>1. /\ ProgramSector /\ op.page = NumPages - 1 /\ op' = Idle
      /\ wi' = NextIndex
      /\ write_status' = IF op.call = "write_begin" THEN [slot |-> op.arg, cursor |-> 0]
                          ELSE write_status
  BY DEF ProgramLastPage
<1>2. sb' \in Ring /\ wi \in Sectors /\ IsCurrent(sb', wi) /\ superblock_contents \in Superblock
  BY <1>1, PageProgrammed DEF IInv, TypeOK
<1>3. sb'[wi] = superblock_contents
  <2>1. \A s \in Slots : SlotPage[s] <= op.page
    BY <1>1, PagesAssumption DEF Pages
  <2>2. WirelessPage <= op.page
    BY <1>1, PagesAssumption DEF Pages
  <2>3. sb'[wi] \in Superblock
    BY <1>2 DEF Ring
  <2>4. /\ sb'[wi].gen = superblock_contents.gen
        /\ sb'[wi].wireless = superblock_contents.wireless
        /\ \A s \in Slots : sb'[wi].size[s] = superblock_contents.size[s]
    BY <1>1, <2>1, <2>2, PageProgrammed
  <2>5. sb'[wi].size = superblock_contents.size
    BY <1>2, <2>3, <2>4 DEF Superblock
  <2> QED
    BY <1>2, <2>3, <2>4, <2>5 DEF Superblock
<1>4. /\ Recovered(sb') = superblock_contents
      /\ RecoveredIndex(sb') = wi' /\ wi' \in Sectors
  BY <1>1, <1>2, <1>3, RecoveredCurrent, Successor DEF NextIndex
<1>5. op.call = "write_begin" =>
        op.arg \in Slots /\ superblock_contents.size[op.arg] = NotPresent
  BY <1>1, ProgramSectorKeeps DEF IInv, OpOK
<1>6. write_status' \in WriteStatus \cup {None}
  <2>1. 0 \in 0 .. MaxMemSize
    BY MemoryAssumption
  <2> QED
    BY <1>1, <1>5, <2>1 DEF IInv, TypeOK, WriteStatus
<1>7. TypeOK'
  <2>1. Idle \in OpType
    BY ZeroPage DEF Idle, OpType, Steps, Calls
  <2>2. upload' \in Upload \cup {None} /\ committed' \in [Slots -> Seq(Byte)]
    BY <1>1, ProgramSectorKeeps, LinearizeType
  <2> QED
    BY <1>1, <1>2, <1>4, <1>6, <2>1, <2>2, ProgramSectorKeeps DEF IInv, TypeOK, Ring, OpType
<1>8. OpOK' /\ FlushBefore' /\ FlushAfter' /\ FlushHides'
  BY <1>1 DEF OpOK, FlushBefore, FlushAfter, FlushHides, Flushing, Blocking, Idle
<1>9. UploadOK'
  <2>1. SUFFICES ASSUME ~ CallerDisciplined, write_status' # None PROVE upload' # None
    BY DEF UploadOK
  <2>2. CASE op.call = "write_begin"
    BY <1>1, <2>2, ProgramSectorKeeps, LinearizeType
  <2>3. CASE op.call # "write_begin"
    <3>1. write_status # None /\ upload # None
      BY <1>1, <2>1, <2>3 DEF IInv, UploadOK
    <3>2. op.call # "write_end"
      BY <1>1, <3>1, ProgramSectorKeeps DEF IInv, OpOK
    <3> QED
      BY <1>1, <3>1, <3>2, ProgramSectorKeeps, LinearizeType
  <2> QED
    BY <2>2, <2>3
<1>10. InSync'
  BY <1>1, <1>4, ProgramSectorKeeps DEF InSync
<1>11. UploadInvisible'
  <2>1. SUFFICES ASSUME NEW s \in Slots, write_status' # None, write_status'.slot = s
                 PROVE  superblock_contents.size[s] = NotPresent
    BY <1>1, <1>4, ProgramSectorKeeps DEF UploadInvisible, Uploading
  <2>2. CASE op.call = "write_begin"
    BY <1>1, <1>5, <2>1, <2>2
  <2>3. CASE op.call # "write_begin"
    BY <1>1, <2>1, <2>3 DEF IInv, UploadInvisible, Uploading
  <2> QED
    BY <2>2, <2>3
<1> QED
  BY <1>1, <1>7, <1>8, <1>9, <1>10, <1>11, ProgramSectorKeeps DEF IInv

\* The calls that begin with a flush.
LEMMA WriteBeginStep == ASSUME NEW s \in Slots PROVE IInv /\ WriteBegin(s) => IInv'
<1> SUFFICES ASSUME IInv, WriteBegin(s) PROVE IInv'
  OBVIOUS
<1> DEFINE contents == [superblock_contents EXCEPT !.size[s] = NotPresent]
<1>1. /\ op = Idle /\ CanFlush /\ StartFlush(contents, "write_begin", s)
      /\ UNCHANGED <<sb, rom, superblock_write_index, write_status, upload, committed>>
  BY DEF WriteBegin
<1>2. superblock_contents = Recovered(sb) /\ superblock_write_index = RecoveredIndex(sb)
  BY <1>1 DEF IInv, InSync, Flushing, Idle
<1>3. /\ contents \in Superblock /\ contents.gen = superblock_contents.gen
      /\ contents.size[s] = NotPresent
      /\ \A t \in Slots : superblock_contents.size[t] = NotPresent => contents.size[t] = NotPresent
  BY DEF IInv, TypeOK, Superblock
<1>4. /\ superblock_contents' \in Superblock /\ superblock_contents'.size = contents.size
      /\ buffer' \in [BlockCells -> Cell] /\ op' \in OpType
      /\ op'.step \in {"erase", "program"} /\ op'.page = 0
      /\ op'.call = "write_begin" /\ op'.arg = s
      /\ RingOK' /\ InSync' /\ FlushBefore' /\ FlushAfter' /\ FlushHides'
  <2> HIDE DEF contents
  <2> QED
    BY <1>1, <1>2, <1>3, FlushStarts DEF Calls
<1>5. TypeOK'
  BY <1>1, <1>4 DEF IInv, TypeOK, OpType
<1>6. OpOK' /\ UploadOK'
  BY <1>1, <1>3, <1>4 DEF IInv, OpOK, UploadOK, Flushing, Blocking
<1>7. UploadInvisible'
  BY <1>1, <1>3, <1>4 DEF IInv, UploadInvisible, Uploading
<1> QED
  BY <1>4, <1>5, <1>6, <1>7 DEF IInv

LEMMA EraseStep == ASSUME NEW s \in Slots PROVE IInv /\ Erase(s) => IInv'
<1> SUFFICES ASSUME IInv, Erase(s) PROVE IInv'
  OBVIOUS
<1> DEFINE contents == [superblock_contents EXCEPT !.size[s] = NotPresent]
<1>1. /\ op = Idle /\ CanFlush /\ StartFlush(contents, "erase", s)
      /\ upload' = IF CallerDisciplined THEN None ELSE upload
      /\ UNCHANGED <<sb, rom, superblock_write_index, write_status, committed>>
  BY DEF Erase
<1>2. superblock_contents = Recovered(sb) /\ superblock_write_index = RecoveredIndex(sb)
  BY <1>1 DEF IInv, InSync, Flushing, Idle
<1>3. /\ contents \in Superblock /\ contents.gen = superblock_contents.gen
      /\ \A t \in Slots : superblock_contents.size[t] = NotPresent => contents.size[t] = NotPresent
  BY DEF IInv, TypeOK, Superblock
<1>4. /\ superblock_contents' \in Superblock /\ superblock_contents'.size = contents.size
      /\ buffer' \in [BlockCells -> Cell] /\ op' \in OpType
      /\ op'.step \in {"erase", "program"} /\ op'.page = 0
      /\ op'.call = "erase"
      /\ RingOK' /\ InSync' /\ FlushBefore' /\ FlushAfter' /\ FlushHides'
  <2> HIDE DEF contents
  <2> QED
    BY <1>1, <1>2, <1>3, FlushStarts DEF Calls
<1>5. TypeOK'
  BY <1>1, <1>4 DEF IInv, TypeOK, OpType
<1>6. OpOK' /\ UploadOK'
  BY <1>1, <1>4 DEF IInv, OpOK, UploadOK, Flushing, Blocking
<1>7. UploadInvisible'
  BY <1>1, <1>3, <1>4 DEF IInv, UploadInvisible, Uploading
<1> QED
  BY <1>4, <1>5, <1>6, <1>7 DEF IInv

LEMMA SetWirelessConfigStep ==
  ASSUME NEW cfg \in Networks \cup {NotConfigured} PROVE IInv /\ SetWirelessConfig(cfg) => IInv'
<1> SUFFICES ASSUME IInv, SetWirelessConfig(cfg) PROVE IInv'
  OBVIOUS
<1> DEFINE contents == [superblock_contents EXCEPT !.wireless = cfg]
<1>1. /\ op = Idle /\ CanFlush /\ StartFlush(contents, "set_wireless", None)
      /\ write_status' = None /\ upload' = None
      /\ UNCHANGED <<sb, rom, superblock_write_index, committed>>
  BY DEF SetWirelessConfig
<1>2. superblock_contents = Recovered(sb) /\ superblock_write_index = RecoveredIndex(sb)
  BY <1>1 DEF IInv, InSync, Flushing, Idle
<1>3. contents \in Superblock /\ contents.gen = superblock_contents.gen
  BY DEF IInv, TypeOK, Superblock, WirelessConfig
<1>4. /\ superblock_contents' \in Superblock
      /\ buffer' \in [BlockCells -> Cell] /\ op' \in OpType
      /\ op'.step \in {"erase", "program"} /\ op'.page = 0
      /\ op'.call = "set_wireless"
      /\ RingOK' /\ InSync' /\ FlushBefore' /\ FlushAfter' /\ FlushHides'
  <2> HIDE DEF contents
  <2> QED
    BY <1>1, <1>2, <1>3, FlushStarts DEF Calls
<1>5. TypeOK'
  BY <1>1, <1>4 DEF IInv, TypeOK, OpType
<1>6. OpOK' /\ UploadOK' /\ UploadInvisible'
  BY <1>1, <1>4 DEF OpOK, UploadOK, UploadInvisible, Uploading, Flushing, Blocking
<1> QED
  BY <1>4, <1>5, <1>6 DEF IInv

-----------------------------------------------------------------------------
(* The steps that write a ROM.                                             *)

LEMMA InBlock == ASSUME NEW i \in Nat PROVE i % SectorSize \in BlockCells
BY MemoryAssumption DEF BlockCells

LEMMA WriteBlockType ==
  ASSUME NEW contents \in [0 .. MaxMemSize - 1 -> Cell], NEW cells \in [BlockCells -> Cell]
  PROVE  WriteBlock(contents, cells) \in [0 .. MaxMemSize - 1 -> Cell]
<1>1. ASSUME NEW i \in 0 .. MaxMemSize - 1 PROVE cells[i % SectorSize] \in Cell
  <2>1. i \in Nat
    BY MemoryAssumption
  <2>2. i % SectorSize \in BlockCells
    BY <2>1, InBlock
  <2> QED
    BY <2>2
<1> QED
  BY <1>1 DEF WriteBlock

\* A byte pushed keeps the upload going, on the same slot.
LEMMA BytePushed ==
  ASSUME IInv, write_status # None, upload # None, write_status.cursor < MaxMemSize,
         NEW v \in Byte, PushByte(v)
  PROVE  /\ buffer' \in [BlockCells -> Cell]
         /\ write_status' \in WriteStatus /\ write_status'.slot = write_status.slot
         /\ upload' \in Upload
<1>1. /\ write_status \in WriteStatus /\ upload \in Upload /\ buffer \in [BlockCells -> Cell]
  BY DEF IInv, TypeOK
<1>2. write_status.cursor \in Nat /\ write_status.cursor + 1 \in 0 .. MaxMemSize
  BY <1>1, MemoryAssumption DEF WriteStatus
<1>3. write_status' \in WriteStatus /\ write_status'.slot = write_status.slot
  <2>1. write_status' = [write_status EXCEPT !.cursor = write_status.cursor + 1]
    BY DEF PushByte
  <2> QED
    BY ONLY <1>1, <1>2, <2>1 DEF WriteStatus
<1>4. upload' \in Upload
  <2>1. upload' = [upload EXCEPT !.data = Append(upload.data, v)]
    BY DEF PushByte
  <2>2. Append(upload.data, v) \in Seq(Byte)
    BY <1>1 DEF Upload
  <2> QED
    BY <1>1, <2>1, <2>2 DEF Upload
<1>5. buffer' \in [BlockCells -> Cell]
  BY <1>1 DEF PushByte, Cell
<1> QED
  BY <1>3, <1>4, <1>5

LEMMA CallerHasUpload == ASSUME IInv, CallerUploads, write_status # None PROVE upload # None
BY DEF IInv, UploadOK, CallerUploads

LEMMA WriteDataStep == ASSUME NEW v \in Byte PROVE IInv /\ WriteData(v) => IInv'
<1> SUFFICES ASSUME IInv, WriteData(v) PROVE IInv'
  OBVIOUS
<1>1. /\ op = Idle /\ write_status # None /\ upload # None
      /\ write_status.cursor < MaxMemSize
      /\ UNCHANGED <<sb, rom, superblock_contents, superblock_write_index, committed>>
  BY CallerHasUpload DEF WriteData
<1>2. CASE PushByte(v) /\ UNCHANGED op
  <2>1. /\ buffer' \in [BlockCells -> Cell]
        /\ write_status' \in WriteStatus /\ write_status'.slot = write_status.slot
        /\ upload' \in Upload
    BY <1>1, <1>2, BytePushed
  <2>2. TypeOK'
    BY <1>1, <1>2, <2>1 DEF IInv, TypeOK
  <2>3. upload' # None
    BY <2>1, NoneAssumption
  <2>4. OpOK' /\ UploadOK' /\ RingOK' /\ InSync' /\ FlushBefore' /\ FlushAfter' /\ FlushHides'
    BY <1>1, <1>2, <2>3 DEF IInv, OpOK, UploadOK, RingOK, NoneValid, HasCurrent, InSync,
       FlushBefore, FlushAfter, FlushHides, Flushing, Blocking, Idle
  <2>5. UploadInvisible'
    BY <1>1, <2>1 DEF IInv, UploadInvisible, Uploading
  <2> QED
    BY <2>2, <2>4, <2>5 DEF IInv
<1>3. CASE StartBlock("write_data", v) /\ UNCHANGED <<buffer, write_status, upload>>
  <2>1. /\ op' \in OpType /\ op'.step \in {"block_erase", "block_program"}
        /\ op'.page = 0 /\ op'.call = "write_data" /\ op'.arg = v
    BY <1>3, ZeroPage DEF StartBlock, OpType, Steps, Calls
  <2>2. TypeOK'
    BY <1>1, <1>3, <2>1 DEF IInv, TypeOK, OpType
  <2>3. OpOK' /\ UploadOK' /\ RingOK' /\ InSync' /\ FlushBefore' /\ FlushAfter' /\ FlushHides'
    BY <1>1, <1>3, <2>1 DEF IInv, OpOK, UploadOK, RingOK, NoneValid, HasCurrent, InSync,
       FlushBefore, FlushAfter, FlushHides, Flushing, Blocking, Idle
  <2>4. UploadInvisible'
    BY <1>1, <1>3 DEF IInv, UploadInvisible, Uploading
  <2> QED
    BY <2>2, <2>3, <2>4 DEF IInv
<1> QED
  BY <1>2, <1>3 DEF WriteData

LEMMA WriteEndStep == IInv /\ WriteEnd => IInv'
<1> SUFFICES ASSUME IInv, WriteEnd PROVE IInv'
  OBVIOUS
<1>1. /\ op = Idle /\ write_status # None /\ upload # None
      /\ write_status.cursor # 0 /\ CanFlush /\ StartBlock("write_end", None)
      /\ UNCHANGED <<sb, rom, superblock_contents, superblock_write_index, write_status,
                     buffer, upload, committed>>
  BY CallerHasUpload DEF WriteEnd, ram
<1>2. /\ op' \in OpType /\ op'.step \in {"block_erase", "block_program"}
      /\ op'.page = 0 /\ op'.call = "write_end"
  BY <1>1, ZeroPage DEF StartBlock, OpType, Steps, Calls
<1>3. TypeOK'
  BY <1>1, <1>2 DEF IInv, TypeOK, OpType
<1>4. OpOK' /\ UploadOK' /\ RingOK' /\ InSync' /\ FlushBefore' /\ FlushAfter' /\ FlushHides'
  BY <1>1, <1>2 DEF IInv, OpOK, UploadOK, RingOK, NoneValid, HasCurrent, InSync, CanFlush,
     FlushBefore, FlushAfter, FlushHides, Flushing, Blocking, Idle
<1>5. UploadInvisible'
  BY <1>1 DEF IInv, UploadInvisible, Uploading
<1> QED
  BY <1>3, <1>4, <1>5 DEF IInv

LEMMA BlockEraseStep == IInv /\ BlockErase => IInv'
<1> SUFFICES ASSUME IInv, BlockErase PROVE IInv'
  OBVIOUS
<1>1. /\ op.step = "block_erase" /\ op' = [op EXCEPT !.step = "block_program"]
      /\ rom' = [rom EXCEPT ![write_status.slot] = WriteBlock(@, Clobbered)]
      /\ UNCHANGED <<sb, superblock_contents, superblock_write_index, write_status,
                     buffer, upload, committed>>
  BY DEF BlockErase, ram
<1>2. /\ op \in OpType /\ op' \in OpType /\ op'.step = "block_program"
      /\ op'.page = op.page /\ op'.call = op.call /\ op'.arg = op.arg
  BY <1>1 DEF IInv, TypeOK, OpType, Steps
<1>3. rom' \in [Slots -> [0 .. MaxMemSize - 1 -> Cell]]
  <2>1. Clobbered \in [BlockCells -> Cell]
    BY DEF Clobbered, Cell
  <2>2. rom \in [Slots -> [0 .. MaxMemSize - 1 -> Cell]]
    BY DEF IInv, TypeOK
  <2>3. \A s \in Slots : WriteBlock(rom[s], Clobbered) \in [0 .. MaxMemSize - 1 -> Cell]
    BY <2>1, <2>2, WriteBlockType
  <2> QED
    BY <1>1, <2>2, <2>3
<1>4. TypeOK'
  BY <1>1, <1>2, <1>3 DEF IInv, TypeOK, OpType
<1>5. OpOK' /\ UploadOK' /\ RingOK' /\ InSync' /\ FlushBefore' /\ FlushAfter' /\ FlushHides'
  BY <1>1, <1>2 DEF IInv, OpOK, UploadOK, RingOK, NoneValid, HasCurrent, InSync, CanFlush,
     FlushBefore, FlushAfter, FlushHides, Flushing, Blocking
<1>6. UploadInvisible'
  BY <1>1 DEF IInv, UploadInvisible, Uploading
<1> QED
  BY <1>4, <1>5, <1>6 DEF IInv

\* What both actions that program a block find and leave.
LEMMA BlockProgrammed ==
  ASSUME IInv, BlockProgram
  PROVE  /\ rom' \in [Slots -> [0 .. MaxMemSize - 1 -> Cell]]
         /\ write_status \in WriteStatus /\ upload # None
         /\ op.call = "write_data" => op.arg \in Byte /\ write_status.cursor < MaxMemSize
         /\ op.call = "write_end" => CanFlush /\ write_status.cursor # 0
         /\ superblock_contents = Recovered(sb) /\ superblock_write_index = RecoveredIndex(sb)
<1>1. op.step = "block_program" /\ Blocking /\ ~ Flushing
  BY DEF BlockProgram, Blocking, Flushing
<1>2. write_status # None /\ write_status \in WriteStatus /\ upload # None
  BY <1>1 DEF IInv, TypeOK, OpOK
<1>3. rom' \in [Slots -> [0 .. MaxMemSize - 1 -> Cell]]
  <2>1. rom \in [Slots -> [0 .. MaxMemSize - 1 -> Cell]] /\ buffer \in [BlockCells -> Cell]
    BY DEF IInv, TypeOK
  <2>2. \A s \in Slots : WriteBlock(rom[s], buffer) \in [0 .. MaxMemSize - 1 -> Cell]
    BY <2>1, WriteBlockType
  <2> QED
    BY <2>1, <2>2 DEF BlockProgram
<1> QED
  BY <1>1, <1>2, <1>3 DEF IInv, OpOK, InSync

LEMMA BlockThenPushStep == IInv /\ BlockThenPush => IInv'
<1> SUFFICES ASSUME IInv, BlockThenPush PROVE IInv'
  OBVIOUS
<1>1. /\ op.call = "write_data" /\ BlockProgram /\ PushByte(op.arg) /\ op' = Idle
      /\ UNCHANGED <<sb, superblock_contents, superblock_write_index, committed>>
  BY DEF BlockThenPush, BlockProgram
<1>2. /\ op.arg \in Byte /\ write_status.cursor < MaxMemSize
      /\ write_status # None /\ upload # None
      /\ rom' \in [Slots -> [0 .. MaxMemSize - 1 -> Cell]]
      /\ superblock_contents = Recovered(sb) /\ superblock_write_index = RecoveredIndex(sb)
  BY <1>1, BlockProgrammed, NoneAssumption
<1>3. /\ buffer' \in [BlockCells -> Cell]
      /\ write_status' \in WriteStatus /\ write_status'.slot = write_status.slot
      /\ upload' \in Upload
  BY <1>1, <1>2, BytePushed
<1>4. Idle \in OpType
  BY ZeroPage DEF Idle, OpType, Steps, Calls
<1>5. TypeOK'
  BY <1>1, <1>2, <1>3, <1>4 DEF IInv, TypeOK, OpType
<1>6. upload' # None
  BY <1>3, NoneAssumption
<1>7. OpOK' /\ UploadOK' /\ RingOK' /\ InSync' /\ FlushBefore' /\ FlushAfter' /\ FlushHides'
  BY <1>1, <1>2, <1>6 DEF IInv, OpOK, UploadOK, RingOK, NoneValid, HasCurrent, InSync,
     FlushBefore, FlushAfter, FlushHides, Flushing, Blocking, Idle
<1>8. UploadInvisible'
  BY <1>1, <1>2, <1>3 DEF IInv, UploadInvisible, Uploading
<1> QED
  BY <1>5, <1>7, <1>8 DEF IInv

LEMMA BlockThenCommitStep == IInv /\ BlockThenCommit => IInv'
<1> SUFFICES ASSUME IInv, BlockThenCommit PROVE IInv'
  OBVIOUS
<1> DEFINE slot == write_status.slot
           contents == [superblock_contents EXCEPT !.size[slot] = write_status.cursor]
<1>1. /\ op.call = "write_end" /\ BlockProgram /\ StartFlush(contents, "write_end", slot)
      /\ write_status' = None
      /\ UNCHANGED <<sb, superblock_write_index, upload, committed>>
  BY DEF BlockThenCommit, BlockProgram
<1>2. /\ write_status \in WriteStatus /\ write_status.cursor # 0 /\ CanFlush /\ upload # None
      /\ rom' \in [Slots -> [0 .. MaxMemSize - 1 -> Cell]]
      /\ superblock_contents = Recovered(sb) /\ superblock_write_index = RecoveredIndex(sb)
  BY <1>1, BlockProgrammed
<1>3. contents \in Superblock /\ contents.gen = superblock_contents.gen /\ slot \in Slots
  <2>1. write_status.cursor \in Size /\ slot \in Slots
    BY <1>2, MemoryAssumption DEF WriteStatus, Size
  <2> QED
    BY <2>1 DEF IInv, TypeOK, Superblock
<1>4. /\ superblock_contents' \in Superblock
      /\ buffer' \in [BlockCells -> Cell] /\ op' \in OpType
      /\ op'.step \in {"erase", "program"} /\ op'.page = 0
      /\ op'.call = "write_end"
      /\ RingOK' /\ InSync' /\ FlushBefore' /\ FlushAfter' /\ FlushHides'
  <2> HIDE DEF contents, slot
  <2> QED
    BY <1>1, <1>2, <1>3, FlushStarts DEF Calls
<1>5. TypeOK'
  BY <1>1, <1>2, <1>4 DEF IInv, TypeOK, OpType
<1>6. OpOK' /\ UploadOK' /\ UploadInvisible'
  BY <1>1, <1>2, <1>4 DEF OpOK, UploadOK, UploadInvisible, Uploading, Flushing, Blocking
<1> QED
  BY <1>4, <1>5, <1>6 DEF IInv

-----------------------------------------------------------------------------
(* The theorems.                                                           *)

LEMMA StutterStep == IInv /\ UNCHANGED vars => IInv'
<1> SUFFICES ASSUME IInv, UNCHANGED vars PROVE IInv'
  OBVIOUS
<1>1. UNCHANGED <<sb, rom, superblock_contents, superblock_write_index, write_status, buffer,
                  op, upload, committed>>
  BY DEF vars, ram
<1> QED
  BY <1>1 DEF IInv, TypeOK, OpOK, UploadOK, RingOK, NoneValid, HasCurrent, InSync, FlushBefore,
     FlushAfter, FlushHides, UploadInvisible, Uploading, Flushing, Blocking, CanFlush

LEMMA NextStep == IInv /\ [Next]_vars => IInv'
<1> SUFFICES ASSUME IInv, [Next]_vars PROVE IInv'
  OBVIOUS
<1>1. CASE Open               BY <1>1, OpenStep
<1>2. CASE PowerCut           BY <1>2, PowerCutStep
<1>3. CASE EraseSector        BY <1>3, EraseSectorStep
<1>4. CASE ProgramNextPage    BY <1>4, ProgramNextPageStep
<1>5. CASE ProgramLastPage    BY <1>5, ProgramLastPageStep
<1>6. CASE BlockErase         BY <1>6, BlockEraseStep
<1>7. CASE BlockThenPush      BY <1>7, BlockThenPushStep
<1>8. CASE BlockThenCommit    BY <1>8, BlockThenCommitStep
<1>9. ASSUME NEW s \in Slots, WriteBegin(s) \/ Erase(s) PROVE IInv'
  BY <1>9, WriteBeginStep, EraseStep
<1>10. ASSUME NEW v \in Byte, WriteData(v) PROVE IInv'
  BY <1>10, WriteDataStep
<1>11. CASE WriteEnd          BY <1>11, WriteEndStep
<1>12. ASSUME NEW cfg \in Networks \cup {NotConfigured}, SetWirelessConfig(cfg) PROVE IInv'
  BY <1>12, SetWirelessConfigStep
<1>13. CASE UNCHANGED vars    BY <1>13, StutterStep
<1> QED
  BY <1>1, <1>2, <1>3, <1>4, <1>5, <1>6, <1>7, <1>8, <1>9, <1>10, <1>11, <1>12, <1>13 DEF Next

\* IInv holds in every reachable state.
THEOREM Invariance == Spec => []IInv
<1>1. Init => IInv
  BY InitIInv
<1>2. IInv /\ [Next]_vars => IInv'
  BY NextStep
<1> QED
  BY <1>1, <1>2, PTL DEF Spec

\* Every variable of the partition keeps its type.
THEOREM TypeCorrect == Spec => []TypeOK
<1>1. IInv => TypeOK
  BY DEF IInv
<1> QED
  BY <1>1, Invariance, PTL

\* No power cut ever finds a half-written ROM listed in flash.
THEOREM HalfWrittenInvisible == Spec => []UploadInvisible
<1>1. IInv => UploadInvisible
  BY DEF IInv
<1> QED
  BY <1>1, Invariance, PTL

\* Between calls flash holds what the firmware believes.
THEOREM DurableBetweenCalls == Spec => []Durable
<1>1. IInv => Durable
  BY DEF IInv, InSync, Durable, Flushing
<1> QED
  BY <1>1, Invariance, PTL

\* A flush never erases or starts to program the sector open() would load.
THEOREM FlushesSpareCurrent == Spec => FlushSparesCurrent
<1> DEFINE Spared == op.page = 0 => \A i \in Sectors : IsCurrent(sb, i) => sb'[i] = sb[i]
<1>1. IInv /\ [Next]_vars => Spared
  <2> SUFFICES ASSUME IInv, [Next]_vars, op.page = 0, NEW i \in Sectors, IsCurrent(sb, i)
               PROVE  sb'[i] = sb[i]
    OBVIOUS
  <2>1. sb \in Ring
    BY DEF IInv, TypeOK, Ring
  <2>2. CASE EraseSector \/ ProgramSector
    <3>1. superblock_write_index = RecoveredIndex(sb)
      BY <2>2 DEF EraseSector, ProgramSector, IInv, FlushBefore, Flushing
    <3>2. superblock_write_index # i
      BY <2>1, <3>1, IndexSparesCurrent
    <3> QED
      BY <2>1, <2>2, <3>2 DEF EraseSector, ProgramSector, Ring
  <2>3. CASE sb' = sb
    BY <2>3
  <2>4. EraseSector \/ ProgramSector \/ sb' = sb
    BY DEF Next, vars, Open, PowerCut, ProgramNextPage, ProgramLastPage, BlockErase,
       BlockThenPush, BlockThenCommit, BlockProgram, WriteBegin, Erase, WriteData, WriteEnd,
       SetWirelessConfig
  <2> QED
    BY <2>2, <2>3, <2>4
<1>2. IInv /\ [Next]_vars => [Spared]_vars
  BY <1>1
<1>3. Spec => [][Spared]_vars
  <2>1. Spec => []IInv /\ [][Next]_vars
    BY Invariance DEF Spec
  <2> QED
    BY <1>2, <2>1, PTL
<1> QED
  BY <1>3 DEF FlushSparesCurrent
=============================================================================
