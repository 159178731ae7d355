-------------------------- MODULE MainLoop_proofs --------------------------
(***************************************************************************)
(* Proofs about MainLoop for every number of slots, images, chunks and     *)
(* sources.                                                                *)
(***************************************************************************)
EXTENDS MainLoop, TLAPS

\* A boot request is behind every step the menu takes towards a ROM, and the
\* firmware accepts no second one.
BootInv ==
  /\ accepted # None => ~ can_accept_boot_command
  /\ desired_state = "BOOT_TRAMPOLINE" => accepted # None
  /\ menu \in {"trampoline", "rom"} => accepted # None
  /\ DeadKeysHarmless

IInv == TypeOK /\ WholeRoms /\ UploadFollowsToken /\ BootInv

-----------------------------------------------------------------------------
(* Data and jobs.                                                          *)

Data == UNION {[1 .. n -> Chunk] : n \in 0 .. NumChunks}
StoreJob == [cmd : {"store"}, slot : Slots, image : Images, sent : 0 .. NumChunks + 1]

LEMMA PrefixData ==
  ASSUME NEW x \in Images, NEW n \in 0 .. NumChunks
  PROVE  Prefix(x, n) \in [1 .. n -> Chunk] /\ Prefix(x, n) \in Data
<1>1. \A i \in 1 .. n : <<x, i>> \in Chunk
  BY ChunksAssumption DEF Chunk
<1> QED
  BY <1>1 DEF Prefix, Data

LEMMA ImageData ==
  ASSUME NEW x \in Images
  PROVE  Image(x) \in [1 .. NumChunks -> Chunk] /\ Image(x) # None
BY PrefixData, ChunksAssumption, NoneAssumption DEF Image

LEMMA PrefixEmpty ==
  ASSUME NEW x
  PROVE  Prefix(x, 0) = <<>>
BY DEF Prefix

LEMMA PrefixLen ==
  ASSUME NEW x, NEW n \in Nat
  PROVE  Len(Prefix(x, n)) = n /\ (n # 0 => Prefix(x, n) # <<>>)
BY DEF Prefix

\* Sending the next chunk of an image makes the next prefix.
LEMMA PrefixAppend ==
  ASSUME NEW x \in Images, NEW n \in Nat, n < NumChunks
  PROVE  Append(Prefix(x, n), Image(x)[n + 1]) = Prefix(x, n + 1)
<1>1. Image(x)[n + 1] = <<x, n + 1>>
  BY ChunksAssumption DEF Image, Prefix
<1>2. Append(Prefix(x, n), <<x, n + 1>>) = Prefix(x, n + 1)
  BY DEF Prefix
<1> QED
  BY <1>1, <1>2

LEMMA JobFacts ==
  /\ NoJob \in Job /\ NoJob.cmd = "idle"
  /\ \A j \in Job : j.cmd = "store" <=> j \in StoreJob
  /\ \A j \in Job : j.cmd \in {"boot", "erase"} => j.slot \in Slots
  /\ \A j \in StoreJob : /\ j.slot \in Slots /\ j.image \in Images
                         /\ j.sent \in 0 .. NumChunks + 1 /\ j.cmd = "store" /\ j \in Job
  /\ \A s \in Slots : [cmd |-> "boot", slot |-> s] \in Job
BY DEF Job, StoreJob, NoJob

LEMMA NextSent ==
  ASSUME NEW j \in StoreJob, NEW k \in 0 .. NumChunks + 1
  PROVE  LET n == [j EXCEPT !.sent = k]
         IN n \in StoreJob /\ n.sent = k /\ n.slot = j.slot /\ n.image = j.image
BY DEF StoreJob

\* Whatever becomes of the program on src, the others are left alone.
LEMMA GoOnJobs ==
  ASSUME job \in [Sources -> Job], NEW src \in Sources, NEW next \in Job, GoOn(src, next)
  PROVE  /\ job' \in [Sources -> Job]
         /\ \A t \in Sources \ {src} : job'[t] = job[t]
         /\ job'[src] \in {next, NoJob}
BY JobFacts DEF GoOn

-----------------------------------------------------------------------------
(* Every step preserves the invariant.                                     *)

LEMMA InitInv == Init => IInv
<1> SUFFICES ASSUME Init PROVE IInv
  OBVIOUS
<1>1. TypeOK
  BY JobFacts, SlotAssumption DEF Init, TypeOK, DesiredStates, Phases
<1>2. WholeRoms
  BY DEF Init, WholeRoms
<1>3. UploadFollowsToken
  BY SourceAssumption DEF Init, UploadFollowsToken
<1>4. BootInv
  BY DEF Init, BootInv, DeadKeysHarmless
<1> QED
  BY <1>1, <1>2, <1>3, <1>4 DEF IInv

\* The menu, the keys and the boot requests do not touch the partition.
LEMMA BootStep ==
  ASSUME TypeOK, BootInv, NEW s \in Slots, RequestBoot(s), UNCHANGED menu,
         \A t \in Slots : user_requested_boot'[t] = user_requested_boot[t] \/ t = s
  PROVE  /\ selected_boot_slot_num' \in Slots
         /\ can_accept_boot_command' \in BOOLEAN
         /\ desired_state' \in DesiredStates
         /\ accepted' \in Slots \cup {None}
         /\ BootInv'
<1>1. s # None
  BY NoneAssumption
<1> QED
  BY <1>1 DEF TypeOK, BootInv, DeadKeysHarmless, RequestBoot, DesiredStates

\* With the partition and the token alone, jobs may only end or start afresh.
LEMMA QuietStep ==
  ASSUME TypeOK, UploadFollowsToken, WholeRoms,
         UNCHANGED <<partition, write_token>>, job' \in [Sources -> Job],
         \A t \in Sources : \/ job'[t] = job[t]
                              \/ job'[t].cmd # "store"
                              \/ job'[t].sent = 0
  PROVE  WholeRoms' /\ UploadFollowsToken'
<1>1. WholeRoms'
  BY DEF WholeRoms, partition
<1>2. UploadFollowsToken'
  <2> SUFFICES ASSUME NEW t \in Sources, write_token' = t, job'[t].cmd = "store",
                      job'[t].sent > 0
               PROVE  upload' = [slot |-> job'[t].slot,
                                 data |-> Prefix(job'[t].image, job'[t].sent - 1)]
    BY DEF UploadFollowsToken
  <2>1. job'[t] = job[t] /\ write_token = t /\ upload' = upload
    BY DEF partition
  <2> QED
    BY <2>1 DEF UploadFollowsToken
<1> QED
  BY <1>1, <1>2

LEMMA QuietActions ==
  ASSUME IInv,
         \/ \E src \in Sources : StartJob(src) \/ QuitJob(src) \/ HandleBoot(src)
         \/ MenuDispatch \/ MenuLeave
         \/ \E s \in Slots : UserRequestedBoot(s)
         \/ UserRequestedClientMode \/ InTrampoline \/ MinitelReset
  PROVE  IInv'
<1> USE DEF IInv
<1> DEFINE Quiet ==
      /\ UNCHANGED <<partition, write_token>>
      /\ job' \in [Sources -> Job]
      /\ \A t \in Sources : job'[t] = job[t] \/ job'[t].cmd # "store" \/ job'[t].sent = 0
<1> DEFINE Idling == UNCHANGED <<boot, minitel>>
<1>0. job \in [Sources -> Job] /\ NoJob \in Job /\ NoJob.cmd = "idle"
  BY JobFacts DEF TypeOK
<1>1. ASSUME Quiet PROVE WholeRoms' /\ UploadFollowsToken'
  BY <1>1, QuietStep
<1>2. ASSUME Quiet, Idling PROVE IInv'
  <2>1. TypeOK'
    BY <1>2 DEF TypeOK, boot, minitel, partition
  <2>2. BootInv'
    BY <1>2 DEF BootInv, DeadKeysHarmless, boot, minitel
  <2> QED
    BY <1>1, <1>2, <2>1, <2>2
<1>3. ASSUME NEW src \in Sources, StartJob(src) PROVE IInv'
  <2>1. PICK j \in Job : (j.cmd = "store" => j.sent = 0) /\ job' = [job EXCEPT ![src] = j]
    BY <1>3 DEF StartJob
  <2>2. Quiet
    BY <1>0, <1>3, <2>1 DEF StartJob
  <2> QED
    BY <1>2, <1>3, <2>2 DEF StartJob
<1>4. ASSUME NEW src \in Sources, QuitJob(src) PROVE IInv'
  <2>1. Quiet
    BY <1>0, <1>4 DEF QuitJob
  <2> QED
    BY <1>2, <1>4, <2>1 DEF QuitJob
<1>5. ASSUME NEW src \in Sources, HandleBoot(src) PROVE IInv'
  <2>1. job[src].slot \in Slots
    BY <1>0, <1>5, JobFacts DEF HandleBoot, Delivered
  <2>2. RequestBoot(job[src].slot) /\ UNCHANGED <<partition, write_token, minitel>>
    BY <1>5 DEF HandleBoot
  <2>3. Quiet
    BY <1>0, <1>5, GoOnJobs DEF HandleBoot
  <2>4. TypeOK' /\ BootInv'
    BY <2>1, <2>2, <2>3, BootStep DEF TypeOK, partition, minitel
  <2> QED
    BY <1>1, <2>3, <2>4
<1>6. ASSUME NEW s \in Slots, UserRequestedBoot(s) PROVE IInv'
  <2>1. Quiet
    BY <1>0, <1>6 DEF UserRequestedBoot
  <2>2. TypeOK' /\ BootInv'
    BY <1>6, <2>1, BootStep DEF TypeOK, partition, UserRequestedBoot
  <2> QED
    BY <1>1, <2>1, <2>2
<1>7. ASSUME MenuDispatch PROVE IInv'
  <2>1. Quiet
    BY <1>0, <1>7 DEF MenuDispatch
  <2>2. desired_state \in DesiredStates
    BY DEF TypeOK
  <2>3. menu' \in Phases /\ (menu' \in {"trampoline", "rom"} => desired_state = "BOOT_TRAMPOLINE")
    BY <1>7, <2>2 DEF MenuDispatch, PhaseOf, Phases, DesiredStates
  <2>4. TypeOK' /\ BootInv'
    BY <1>7, <2>1, <2>3 DEF TypeOK, BootInv, DeadKeysHarmless, MenuDispatch,
           partition, boot, minitel
  <2> QED
    BY <1>1, <2>1, <2>4
<1>8. ASSUME MenuLeave \/ MinitelReset PROVE IInv'
  <2>1. Quiet
    BY <1>0, <1>8, SourceAssumption DEF MenuLeave, MinitelReset
  <2>2. /\ UNCHANGED <<boot, running>> /\ menu' = "top"
        /\ \/ UNCHANGED user_requested_boot
           \/ user_requested_boot' = [user_requested_boot EXCEPT ![Slot0] = TRUE]
    BY <1>8 DEF MenuLeave, MinitelReset
  <2>3. user_requested_boot' \in [Slots -> BOOLEAN]
    BY <2>2 DEF TypeOK
  <2>4. \A s \in Slots : ~ user_requested_boot'[s] => ~ user_requested_boot[s]
    BY <2>2 DEF TypeOK
  <2>5. TypeOK'
    BY <2>1, <2>2, <2>3 DEF TypeOK, Phases, partition, boot
  <2>6. BootInv'
    BY <2>2, <2>4 DEF BootInv, DeadKeysHarmless, boot
  <2> QED
    BY <1>1, <2>1, <2>5, <2>6
<1>9. ASSUME UserRequestedClientMode PROVE IInv'
  <2>1. Quiet
    BY <1>0, <1>9 DEF UserRequestedClientMode
  <2>2. TypeOK' /\ BootInv'
    BY <1>9, <2>1 DEF TypeOK, BootInv, DeadKeysHarmless, UserRequestedClientMode,
           DesiredStates, partition, minitel
  <2> QED
    BY <1>1, <2>1, <2>2
<1>10. ASSUME InTrampoline PROVE IInv'
  <2>1. Quiet
    BY <1>0, <1>10 DEF InTrampoline
  <2>2. TypeOK' /\ BootInv'
    BY <1>10, <2>1 DEF TypeOK, BootInv, DeadKeysHarmless, InTrampoline, IsPresent,
           Phases, partition, boot, minitel
  <2> QED
    BY <1>1, <2>1, <2>2
<1> QED
  BY <1>3, <1>4, <1>5, <1>6, <1>7, <1>8, <1>9, <1>10

\* The packets of a store command.
LEMMA StoreActions ==
  ASSUME IInv, NEW src \in Sources,
         HandleWriteBegin(src) \/ HandleWriteData(src) \/ HandleWriteEnd(src)
  PROVE  IInv' /\ (job[src].cmd = "store" /\ job'[src].cmd = "boot" =>
                      catalogue'[job[src].slot] = Image(job[src].image))
<1> USE DEF IInv
<1> DEFINE j == job[src]
<1>0. /\ j \in StoreJob /\ j \in Job /\ j.cmd = "store"
      /\ job \in [Sources -> Job]
      /\ j.slot \in Slots /\ j.image \in Images /\ j.sent \in 0 .. NumChunks + 1
  BY JobFacts DEF TypeOK, HandleWriteBegin, HandleWriteData, HandleWriteEnd, Delivered
<1>1. UNCHANGED <<boot, minitel>>
  BY DEF HandleWriteBegin, HandleWriteData, HandleWriteEnd
<1>2. BootInv'
  BY <1>1 DEF BootInv, DeadKeysHarmless, boot, minitel
<1>3. NumChunks \in Nat \ {0}
  BY ChunksAssumption
<1>4. write_token = src /\ j.sent > 0 =>
        /\ upload = [slot |-> j.slot, data |-> Prefix(j.image, j.sent - 1)]
        /\ upload # None /\ upload.slot = j.slot /\ upload.data = Prefix(j.image, j.sent - 1)
  <2>1. SUFFICES ASSUME write_token = src, j.sent > 0
                 PROVE  [slot |-> j.slot, data |-> Prefix(j.image, j.sent - 1)] # None
    BY <1>0 DEF UploadFollowsToken
  <2>2. Prefix(j.image, j.sent - 1) \in Data
    BY <1>0, <1>3, <2>1, PrefixData
  <2> QED
    BY <1>0, <2>2, NoneAssumption DEF Upload, Data
<1>5. ASSUME HandleWriteBegin(src) PROVE IInv' /\ job'[src].cmd # "boot"
  <2> DEFINE n == [j EXCEPT !.sent = 1]
  <2>1. n \in StoreJob /\ n \in Job /\ n.cmd = "store" /\ n.sent = 1 /\ n.slot = j.slot
    BY <1>0, <1>3, NextSent, JobFacts
  <2>2. /\ job' \in [Sources -> Job] /\ job'[src] \in {n, NoJob}
        /\ \A t \in Sources \ {src} : job'[t] = job[t]
    BY <1>0, <1>5, <2>1, GoOnJobs DEF HandleWriteBegin
  <2>3. /\ catalogue' = [catalogue EXCEPT ![j.slot] = None]
        /\ upload' = [slot |-> j.slot, data |-> <<>>]
        /\ write_token' = src
    BY <1>5 DEF HandleWriteBegin, Catalog!Begin
  <2>4. <<>> \in Data
    BY <1>0, <1>3, PrefixData, PrefixEmpty
  <2>5. upload' \in Upload
    BY <1>0, <2>3, <2>4 DEF Upload, Data
  <2>6. TypeOK'
    BY <1>0, <1>1, <2>2, <2>3, <2>5 DEF TypeOK, boot, minitel
  <2>7. WholeRoms'
    BY <2>3 DEF WholeRoms, TypeOK
  <2>8. UploadFollowsToken'
    <3> SUFFICES ASSUME job'[src].cmd = "store"
                 PROVE  upload' = [slot |-> job'[src].slot,
                                   data |-> Prefix(job'[src].image, job'[src].sent - 1)]
      BY <2>3 DEF UploadFollowsToken
    <3>1. job'[src] = n
      BY <2>2, JobFacts
    <3>2. n.sent - 1 = 0
      BY <2>1
    <3> QED
      BY <2>1, <2>3, <3>1, <3>2, PrefixEmpty
  <2> QED
    BY <1>2, <2>1, <2>2, <2>6, <2>7, <2>8, JobFacts
<1>6. ASSUME HandleWriteData(src) PROVE IInv' /\ job'[src].cmd # "boot"
  <2> DEFINE k == j.sent
             n == [j EXCEPT !.sent = k + 1]
  <2>1. k \in 1 .. NumChunks /\ k - 1 \in 0 .. NumChunks /\ k - 1 < NumChunks /\ (k - 1) + 1 = k
    BY <1>3, <1>6 DEF HandleWriteData
  <2>2. /\ n \in StoreJob /\ n \in Job /\ n.cmd = "store" /\ n.sent = k + 1
        /\ n.slot = j.slot /\ n.image = j.image
    BY <1>0, <1>3, <2>1, NextSent, JobFacts
  <2>3. UNCHANGED write_token
    BY <1>6 DEF HandleWriteData
  <2>4. CASE write_token # src
    <3>1. GoOn(src, NoJob) /\ UNCHANGED partition
      BY <1>6, <2>4 DEF HandleWriteData
    <3>2. /\ job' \in [Sources -> Job] /\ job'[src] = NoJob
          /\ \A t \in Sources \ {src} : job'[t] = job[t]
      BY <1>0, <3>1, GoOnJobs, JobFacts
    <3>3. WholeRoms' /\ UploadFollowsToken'
      BY <2>3, <3>1, <3>2, JobFacts, QuietStep
    <3>4. TypeOK'
      BY <1>1, <2>3, <3>1, <3>2 DEF TypeOK, boot, minitel, partition
    <3> QED
      BY <1>2, <3>2, <3>3, <3>4, JobFacts
  <2>5. CASE write_token = src
    <3>1. GoOn(src, n) /\ WriteData(Image(j.image)[k])
      BY <1>6, <2>5 DEF HandleWriteData
    <3>2. /\ job' \in [Sources -> Job] /\ job'[src] \in {n, NoJob}
          /\ \A t \in Sources \ {src} : job'[t] = job[t]
      BY <1>0, <2>2, <3>1, GoOnJobs
    <3>3. upload # None /\ upload = [slot |-> j.slot, data |-> Prefix(j.image, k - 1)]
      BY <1>4, <2>1, <2>5
    <3>4. Len(upload.data) < NumChunks
      BY <1>3, <2>1, <3>3, PrefixLen
    <3>5. /\ upload' = [upload EXCEPT !.data = Append(@, Image(j.image)[k])]
          /\ catalogue' = catalogue
      BY <3>1, <3>3, <3>4 DEF WriteData, Catalog!Append1
    <3>6. Append(Prefix(j.image, k - 1), Image(j.image)[k]) = Prefix(j.image, k)
      BY <1>0, <1>3, <2>1, PrefixAppend
    <3>7. upload' = [slot |-> j.slot, data |-> Prefix(j.image, k)]
      BY <3>3, <3>5, <3>6
    <3>8. upload' \in Upload
      <4>1. Prefix(j.image, k) \in Data
        BY <1>0, <1>3, <2>1, PrefixData
      <4> QED
        BY <1>0, <3>7, <4>1 DEF Upload, Data
    <3>9. TypeOK'
      BY <1>1, <2>3, <3>2, <3>5, <3>8 DEF TypeOK, boot, minitel
    <3>10. WholeRoms'
      BY <3>5 DEF WholeRoms
    <3>11. UploadFollowsToken'
      <4> SUFFICES ASSUME job'[src].cmd = "store"
                   PROVE  upload' = [slot |-> job'[src].slot,
                                     data |-> Prefix(job'[src].image, job'[src].sent - 1)]
        BY <2>3, <2>5 DEF UploadFollowsToken
      <4>1. job'[src] = n
        BY <3>2, JobFacts
      <4>2. n.sent - 1 = k
        BY <2>1, <2>2
      <4> QED
        BY <2>2, <3>7, <4>1, <4>2
    <3> QED
      BY <1>2, <2>2, <3>2, <3>9, <3>10, <3>11, JobFacts
  <2> QED
    BY <2>4, <2>5
<1>7. ASSUME HandleWriteEnd(src)
      PROVE  IInv' /\ (job'[src].cmd = "boot" => catalogue'[j.slot] = Image(j.image))
  <2> DEFINE n == [cmd |-> "boot", slot |-> j.slot]
  <2>1. n \in Job /\ n.cmd = "boot"
    BY <1>0, JobFacts
  <2>2. UNCHANGED write_token /\ j.sent = NumChunks + 1 /\ j.sent > 0 /\ j.sent - 1 = NumChunks
    BY <1>3, <1>7 DEF HandleWriteEnd
  <2>3. /\ job' \in [Sources -> Job] /\ job'[src] \in {n, NoJob}
        /\ \A t \in Sources \ {src} : job'[t] = job[t]
    BY <1>0, <1>7, <2>1, GoOnJobs, JobFacts DEF HandleWriteEnd
  <2>4. CASE write_token # src
    <3>1. UNCHANGED partition /\ GoOn(src, NoJob)
      BY <1>7, <2>4 DEF HandleWriteEnd, EndAnsweredOK
    <3>2. job'[src] = NoJob
      BY <1>0, <3>1, GoOnJobs, JobFacts
    <3>3. WholeRoms' /\ UploadFollowsToken'
      BY <2>2, <2>3, <3>1, <3>2, JobFacts, QuietStep
    <3>4. TypeOK'
      BY <1>1, <2>2, <2>3, <3>1 DEF TypeOK, boot, minitel, partition
    <3> QED
      BY <1>2, <3>2, <3>3, <3>4, JobFacts
  <2>5. CASE write_token = src
    <3>1. /\ upload # None /\ upload.slot = j.slot /\ upload.data = Image(j.image)
      BY <1>4, <2>2, <2>5 DEF Image
    <3>2. upload.data # <<>>
      BY <1>3, <3>1, PrefixLen DEF Image
    <3>3. catalogue' = [catalogue EXCEPT ![j.slot] = Image(j.image)] /\ upload' = None
      BY <1>0, <1>7, <2>5, <3>1, <3>2
         DEF HandleWriteEnd, EndAnsweredOK, Delivered, Catalog!Commit
    <3>4. TypeOK'
      BY <1>0, <1>1, <2>2, <2>3, <3>3, ImageData DEF TypeOK, boot, minitel
    <3>5. WholeRoms'
      BY <1>0, <3>3 DEF WholeRoms, WholeImages, TypeOK
    <3>6. UploadFollowsToken'
      BY <2>1, <2>2, <2>3, <2>5, JobFacts DEF UploadFollowsToken
    <3>7. catalogue'[j.slot] = Image(j.image)
      BY <1>0, <3>3 DEF TypeOK
    <3> QED
      BY <1>2, <3>4, <3>5, <3>6, <3>7
  <2> QED
    BY <2>4, <2>5
<1> QED
  BY <1>5, <1>6, <1>7

\* The packets that take the token and leave their sender with nothing to go on with.
LEMMA TokenActions ==
  ASSUME IInv, NEW src \in Sources, HandleWirelessConfig(src) \/ HandleErase(src)
  PROVE  IInv'
<1> USE DEF IInv
<1>0. /\ job \in [Sources -> Job] /\ NoJob \in Job /\ NoJob.cmd = "idle"
      /\ UNCHANGED <<boot, minitel>> /\ write_token' = src
      /\ GoOn(src, NoJob)
  BY JobFacts DEF TypeOK, HandleWirelessConfig, HandleErase
<1>1. job' \in [Sources -> Job] /\ job'[src] = NoJob
  BY <1>0, GoOnJobs
<1>2. UploadFollowsToken' /\ BootInv'
  BY <1>0, <1>1 DEF UploadFollowsToken, BootInv, DeadKeysHarmless, boot, minitel
<1>3. ASSUME HandleWirelessConfig(src) PROVE IInv'
  <2>1. upload' = None /\ catalogue' = catalogue
    BY <1>3 DEF HandleWirelessConfig, Catalog!Abandon
  <2> QED
    BY <1>0, <1>1, <1>2, <2>1 DEF TypeOK, WholeRoms, boot, minitel
<1>4. ASSUME HandleErase(src) PROVE IInv'
  <2>1. job[src].slot \in Slots
    BY <1>0, <1>4, JobFacts DEF HandleErase, Delivered
  <2>2. \/ UNCHANGED partition
        \/ catalogue' = [catalogue EXCEPT ![job[src].slot] = None] /\ ClobberUpload
    BY <1>4 DEF HandleErase
  <2>3. WholeRoms' /\ catalogue' \in [Slots -> [1 .. NumChunks -> Chunk] \cup {None}]
    BY <2>1, <2>2 DEF WholeRoms, TypeOK, partition
  <2>4. ASSUME ClobberUpload PROVE upload' \in Upload \cup {None}
    <3>1. CASE upload = None \/ upload.data = <<>>
      BY <2>4, <3>1 DEF ClobberUpload, TypeOK
    <3>2. CASE ~ (upload = None \/ upload.data = <<>>)
      <4>1. upload \in Upload
        BY <3>2 DEF TypeOK
      <4>2. PICK n \in 0 .. NumChunks : upload.data \in [1 .. n -> Chunk]
        BY <4>1 DEF Upload
      <4> DEFINE d == [upload.data EXCEPT ![Len(upload.data)] = Junk]
      <4>3. d \in [1 .. n -> Chunk]
        BY <4>2 DEF Chunk
      <4>4. upload' = [upload EXCEPT !.data = d]
        BY <2>4, <3>2 DEF ClobberUpload
      <4> QED
        BY <4>1, <4>3, <4>4 DEF Upload
    <3> QED
      BY <3>1, <3>2
  <2>5. upload' \in Upload \cup {None}
    BY <2>2, <2>4 DEF TypeOK, partition
  <2> QED
    BY <1>0, <1>1, <1>2, <2>3, <2>5 DEF TypeOK, boot, minitel
<1> QED
  BY <1>3, <1>4

LEMMA PowerCycleInv ==
  ASSUME IInv, PowerCycle
  PROVE  IInv'
<1> USE DEF IInv
<1>1. job' \in [Sources -> Job]
  BY JobFacts, SourceAssumption DEF PowerCycle, TypeOK
<1>2. TypeOK'
  BY <1>1, SlotAssumption DEF PowerCycle, TypeOK, DesiredStates, Phases
<1>3. WholeRoms' /\ BootInv'
  BY DEF PowerCycle, WholeRoms, BootInv, DeadKeysHarmless
<1>4. UploadFollowsToken'
  BY SourceAssumption DEF PowerCycle, UploadFollowsToken
<1> QED
  BY <1>2, <1>3, <1>4

\* What a step does: it preserves the invariant, and a program that goes on from
\* store to boot has its image in the slot.
LEMMA StepInv ==
  ASSUME IInv, [Next]_vars
  PROVE  IInv' /\ \A src \in Sources :
                    job[src].cmd = "store" /\ job'[src].cmd = "boot" =>
                      catalogue'[job[src].slot] = Image(job[src].image)
<1> DEFINE Stored(src) == job[src].cmd = "store" /\ job'[src].cmd = "boot" =>
                            catalogue'[job[src].slot] = Image(job[src].image)
<1>0. job \in [Sources -> Job] /\ NoJob.cmd = "idle"
  BY JobFacts DEF IInv, TypeOK
<1>1. CASE UNCHANGED vars
  BY <1>1 DEF vars, IInv, TypeOK, WholeRoms, UploadFollowsToken, BootInv, DeadKeysHarmless
<1>2. ASSUME NEW src \in Sources, StartJob(src) PROVE IInv' /\ \A t \in Sources : Stored(t)
  <2>1. job[src].cmd # "store" /\ \A t \in Sources \ {src} : job'[t] = job[t]
    BY <1>0, <1>2 DEF StartJob
  <2> QED
    BY <1>2, <2>1, QuietActions
<1>3. ASSUME NEW src \in Sources, QuitJob(src) \/ HandleBoot(src)
      PROVE  IInv' /\ \A t \in Sources : Stored(t)
  <2>1. job'[src] = NoJob /\ \A t \in Sources \ {src} : job'[t] = job[t]
    BY <1>0, <1>3 DEF QuitJob, HandleBoot, GoOn
  <2> QED
    BY <1>0, <1>3, <2>1, QuietActions
<1>4. ASSUME \/ MenuDispatch \/ MenuLeave
             \/ \E s \in Slots : UserRequestedBoot(s)
             \/ UserRequestedClientMode \/ InTrampoline \/ MinitelReset
      PROVE  IInv' /\ \A t \in Sources : Stored(t)
  <2>1. IInv'
    BY <1>4, QuietActions
  <2>2. \A t \in Sources : job'[t] = job[t] \/ job'[t] = NoJob
    BY <1>0, <1>4, SourceAssumption
       DEF MenuDispatch, MenuLeave, UserRequestedBoot, UserRequestedClientMode,
           InTrampoline, MinitelReset
  <2> QED
    BY <1>0, <2>1, <2>2
<1>5. ASSUME NEW src \in Sources,
             HandleWriteBegin(src) \/ HandleWriteData(src) \/ HandleWriteEnd(src)
      PROVE  IInv' /\ \A t \in Sources : Stored(t)
  <2>1. \A t \in Sources \ {src} : job'[t] = job[t]
    BY <1>0, <1>5 DEF HandleWriteBegin, HandleWriteData, HandleWriteEnd, GoOn
  <2> QED
    BY <1>5, <2>1, StoreActions
<1>6. ASSUME NEW src \in Sources, HandleWirelessConfig(src) \/ HandleErase(src)
      PROVE  IInv' /\ \A t \in Sources : Stored(t)
  <2>1. job'[src] = NoJob /\ \A t \in Sources \ {src} : job'[t] = job[t]
    BY <1>0, <1>6 DEF HandleWirelessConfig, HandleErase, GoOn
  <2> QED
    BY <1>0, <1>6, <2>1, TokenActions
<1>7. ASSUME PowerCycle PROVE IInv' /\ \A t \in Sources : Stored(t)
  <2>1. \A t \in Sources : job'[t] = job[t] \/ job'[t] = NoJob
    BY <1>7 DEF PowerCycle
  <2> QED
    BY <1>0, <1>7, <2>1, PowerCycleInv
<1> QED
  BY <1>1, <1>2, <1>3, <1>4, <1>5, <1>6, <1>7 DEF Next

-----------------------------------------------------------------------------
(* The theorems.                                                           *)

\* Type correctness, and the three invariants of the main loop: the ROMs of the
\* catalogue are whole, the upload is the token holder's, and the menu is left on an
\* accepted request alone.
THEOREM Invariance == Spec => []IInv
<1>1. IInv /\ [Next]_vars => IInv'
  BY StepInv
<1> QED
  BY <1>1, InitInv, PTL DEF Spec

\* TypeOK is an invariant of the main loop.
THEOREM TypeCorrect == Spec => []TypeOK
<1>1. IInv => TypeOK
  BY DEF IInv
<1> QED
  BY <1>1, Invariance, PTL

\* Whatever the interleaving of packets, every ROM in the catalogue is one image.
THEOREM RomsAreWhole == Spec => []WholeRoms
<1>1. IInv => WholeRoms
  BY DEF IInv
<1> QED
  BY <1>1, Invariance, PTL

\* write_token tells whose upload it is: main.cpp's "we only allow the most recently
\* started write operation to continue".
THEOREM TokenGuardsUpload == Spec => []UploadFollowsToken
<1>1. IInv => UploadFollowsToken
  BY DEF IInv
<1> QED
  BY <1>1, Invariance, PTL

\* The Minitel leaves the menu on an accepted boot request alone, and just once.
THEOREM BootsOnRequest == Spec => []LeavesMenuOnce
<1>1. IInv => LeavesMenuOnce
  BY DEF IInv, BootInv, LeavesMenuOnce
<1> QED
  BY <1>1, Invariance, PTL

\* The menu's keys that magic I/O forgets to rearm are not missed.
THEOREM DeadKeys == Spec => []DeadKeysHarmless
<1>1. IInv => DeadKeysHarmless
  BY DEF IInv, BootInv
<1> QED
  BY <1>1, Invariance, PTL

\* A store command that reports success has stored its image.
THEOREM StoreReportsTruth == Spec => StoredWhenAcked
<1>1. IInv /\ [Next]_vars =>
        [\A src \in Sources :
           job[src].cmd = "store" /\ job'[src].cmd = "boot" =>
             catalogue'[job[src].slot] = Image(job[src].image)]_vars
  BY StepInv
<1> QED
  BY <1>1, Invariance, PTL DEF Spec, StoredWhenAcked
=============================================================================
