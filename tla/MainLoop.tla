------------------------------ MODULE MainLoop ------------------------------
(***************************************************************************)
(* The main loop of the interactive firmware (main.cpp): one thread that   *)
(* serves packets from three sources, the keys of the menu the Minitel     *)
(* runs, and the switch from the menu to a ROM; composed with the          *)
(* catalogue of ROMs its data partition keeps (RomCatalog), the command    *)
(* line programs that send the packets (rom-emulator-cli.py), and the      *)
(* phases of the menu program (menu/main.c).                               *)
(*                                                                         *)
(* handle_packet runs to completion and no other source is served          *)
(* meanwhile, so each packet is one step. A command line program waits for *)
(* the reply to a packet before it sends the next, so its job says which   *)
(* packet is on its way. The program may be killed, or its link fail, with *)
(* the packet still delivered or not.                                      *)
(*                                                                         *)
(* The firmware is interactive, with a valid data partition, and the data  *)
(* of a ROM is a sequence of chunks, the last of which is in the sector    *)
(* buffer. accepted is a history variable: the slot of the boot request    *)
(* the firmware agreed to in this power session.                           *)
(***************************************************************************)
EXTENDS Naturals, Sequences

CONSTANTS
  Slots, Images,
  Slot0,              \* the slot selected_boot_slot_num starts with
  NumChunks,          \* chunks in an image, as many as a slot holds
  Sources,            \* PacketSource, but for Uninitialized
  MagicIo,            \* the one whose packets the menu tunnels
  Uninitialized,      \* PacketSource::Uninitialized
  Junk,               \* a chunk overwritten in the buffer, or left of an erased ROM
  None

ASSUME ChunksAssumption == NumChunks \in Nat \ {0}
ASSUME SlotAssumption == Slot0 \in Slots
ASSUME SourceAssumption == MagicIo \in Sources /\ Uninitialized \notin Sources

Chunk == Images \X (1 .. NumChunks) \cup {Junk}
Prefix(x, n) == [i \in 1 .. n |-> <<x, i>>]
Image(x) == Prefix(x, NumChunks)
Upload == [slot : Slots, data : UNION {[1 .. n -> Chunk] : n \in 0 .. NumChunks}]
ASSUME NoneAssumption ==
  /\ None \notin Slots \cup Upload
  /\ \A x \in Images : None # Image(x)

\* A program storing image: BEGIN, NumChunks times DATA, END; sent counts the
\* packets before the one on its way. The others send one packet.
Job == [cmd : {"store"}, slot : Slots, image : Images, sent : 0 .. NumChunks + 1]
       \cup [cmd : {"boot", "erase"}, slot : Slots]
       \cup [cmd : {"wireless", "idle"}]
NoJob == [cmd |-> "idle"]

VARIABLES
  catalogue, upload,          \* the data partition, see RomCatalog
  write_token,                \* the source that may continue the upload
  can_accept_boot_command,
  selected_boot_slot_num,
  desired_state,              \* what the magic I/O area asks of the menu
  user_requested_boot,        \* magic I/O: FALSE once the slot's key was signalled
  menu,                       \* where the program on the Minitel is
  running,                    \* the ROM that replaced the menu
  job,                        \* the command line program on each source
  accepted                    \* history

partition == <<catalogue, upload>>
minitel == <<user_requested_boot, menu, running>>
boot == <<can_accept_boot_command, selected_boot_slot_num, desired_state, accepted>>
vars == <<catalogue, upload, write_token, can_accept_boot_command,
          selected_boot_slot_num, desired_state, user_requested_boot, menu, running,
          job, accepted>>

DesiredStates == {"MAIN_MENU", "CLIENT_MODE", "EMPTY_SLOT_ERROR", "BOOT_TRAMPOLINE"}
Phases == {"top", "keys", "client", "error", "trampoline", "rom"}

Catalog == INSTANCE RomCatalog WITH Byte <- Chunk, MaxMemSize <- NumChunks

IsPresent(s) == catalogue[s] # None

Init ==
  /\ catalogue = [s \in Slots |-> None]
  /\ upload = None
  /\ write_token = Uninitialized
  /\ can_accept_boot_command = TRUE
  /\ selected_boot_slot_num = Slot0
  /\ desired_state = "MAIN_MENU"
  /\ user_requested_boot = [s \in Slots |-> TRUE]
  /\ menu = "top"
  /\ running = None
  /\ job = [src \in Sources |-> NoJob]
  /\ accepted = None

-----------------------------------------------------------------------------
(* The command line programs.                                              *)

\* The Minitel's serial port is tunnelled in serial client mode only.
Connected(src) == src = MagicIo => menu = "client"

\* A new program pings first, so the packets of the one before it are served.
StartJob(src) ==
  /\ job[src] = NoJob
  /\ Connected(src)
  /\ job' \in {[job EXCEPT ![src] = j] : j \in {k \in Job :
                 k # NoJob /\ (k.cmd = "store" => k.sent = 0)}}
  /\ UNCHANGED <<partition, boot, write_token, minitel>>

\* Killed, or disconnected, with its packet undelivered or of no effect.
QuitJob(src) ==
  /\ job[src] # NoJob
  /\ job' = [job EXCEPT ![src] = NoJob]
  /\ UNCHANGED <<partition, boot, write_token, minitel>>

\* The program gets the reply and goes on, or was killed and does not.
GoOn(src, next) == job' \in {[job EXCEPT ![src] = j] : j \in {next, NoJob}}

-----------------------------------------------------------------------------
(* handle_packet, one action per type of packet.                           *)

Delivered(src, cmd) == Connected(src) /\ job[src].cmd = cmd

RequestBootRetry(s) ==  \* mutated: after EMPTY another request is accepted
  /\ selected_boot_slot_num' = s
  /\ IF can_accept_boot_command
     THEN /\ desired_state' = IF IsPresent(s) THEN "BOOT_TRAMPOLINE" ELSE "EMPTY_SLOT_ERROR"
          /\ can_accept_boot_command' = ~ IsPresent(s)
          /\ accepted' = IF IsPresent(s) THEN s ELSE None
     ELSE UNCHANGED <<desired_state, can_accept_boot_command, accepted>>
RequestBootAgain(s) ==  \* mutated: every request is accepted
  /\ selected_boot_slot_num' = s
  /\ desired_state' = IF IsPresent(s) THEN "BOOT_TRAMPOLINE" ELSE "EMPTY_SLOT_ERROR"
  /\ UNCHANGED can_accept_boot_command
  /\ accepted' = IF IsPresent(s) THEN s ELSE None

\* handle_packet on BOOT: the slot is selected first, whatever the answer.
RequestBoot(s) ==
  /\ selected_boot_slot_num' = s
  /\ IF can_accept_boot_command
     THEN /\ desired_state' = IF IsPresent(s) THEN "BOOT_TRAMPOLINE" ELSE "EMPTY_SLOT_ERROR"
          /\ can_accept_boot_command' = FALSE
          /\ accepted' = IF IsPresent(s) THEN s ELSE None
     ELSE UNCHANGED <<desired_state, can_accept_boot_command, accepted>>

HandleBoot(src) ==
  /\ Delivered(src, "boot")
  /\ RequestBoot(job[src].slot)
  /\ GoOn(src, NoJob)
  /\ UNCHANGED <<partition, write_token, minitel>>

\* The program does not look at the reply to BEGIN.
HandleWriteBegin(src) ==
  /\ Delivered(src, "store") /\ job[src].sent = 0
  /\ Catalog!Begin(job[src].slot)
  /\ write_token' = src
  /\ GoOn(src, [job[src] EXCEPT !.sent = 1])
  /\ UNCHANGED <<boot, minitel>>

\* write_data drops what does not fit, and everything when no upload is in progress.
WriteData(chunk) ==
  IF upload # None /\ Len(upload.data) < NumChunks
  THEN Catalog!Append1(chunk) ELSE UNCHANGED partition

HandleWriteDataOnceMore(src) ==  \* mutated: one DATA packet too many
  LET k == job[src].sent
  IN /\ Delivered(src, "store") /\ k \in 1 .. NumChunks + 1
     /\ IF write_token = src
        THEN /\ WriteData(IF k <= NumChunks THEN Image(job[src].image)[k] ELSE Junk)
             /\ GoOn(src, [job[src] EXCEPT !.sent = k + 1])
        ELSE UNCHANGED partition /\ GoOn(src, NoJob)
     /\ UNCHANGED <<boot, write_token, minitel>>
HandleWriteDataAnySource(src) ==  \* mutated: the token is not looked at
  LET k == job[src].sent
  IN /\ Delivered(src, "store") /\ k \in 1 .. NumChunks
     /\ WriteData(Image(job[src].image)[k])
     /\ GoOn(src, [job[src] EXCEPT !.sent = k + 1])
     /\ UNCHANGED <<boot, write_token, minitel>>
HandleWriteData(src) ==
  LET k == job[src].sent
  IN /\ Delivered(src, "store") /\ k \in 1 .. NumChunks
     /\ IF write_token = src
        THEN /\ WriteData(Image(job[src].image)[k])
             /\ GoOn(src, [job[src] EXCEPT !.sent = k + 1])
        ELSE UNCHANGED partition /\ GoOn(src, NoJob)
     /\ UNCHANGED <<boot, write_token, minitel>>

\* Is the END packet of src, if that is what is on its way, answered OK?
EndAnsweredOK(src) == Delivered(src, "store") /\ write_token = src

\* write_end does nothing without data; the answer is OK nevertheless. A program
\* that was told to boots the ROM next.
HandleWriteEnd(src) ==
  /\ Delivered(src, "store") /\ job[src].sent = NumChunks + 1
  /\ IF EndAnsweredOK(src)
     THEN /\ IF upload # None /\ upload.data # <<>>
             THEN Catalog!Commit ELSE UNCHANGED partition
          /\ GoOn(src, [cmd |-> "boot", slot |-> job[src].slot])
     ELSE UNCHANGED partition /\ GoOn(src, NoJob)
  /\ UNCHANGED <<boot, write_token, minitel>>

\* set_wireless_config aborts any upload. (A board without wireless changes nothing
\* and answers NOTW, on which the program ends: as in QuitJob.)
HandleWirelessConfigNoToken(src) ==  \* mutated: the upload is aborted, the token kept
  /\ Delivered(src, "wireless")
  /\ Catalog!Abandon
  /\ GoOn(src, NoJob)
  /\ UNCHANGED <<boot, write_token, minitel>>
HandleWirelessConfig(src) ==
  /\ Delivered(src, "wireless")
  /\ write_token' = src
  /\ Catalog!Abandon
  /\ GoOn(src, NoJob)
  /\ UNCHANGED <<boot, minitel>>

\* The flush of erase goes through the buffer that holds the last chunk of the
\* upload, which nothing aborts.
ClobberUpload ==
  upload' = IF upload = None \/ upload.data = <<>> THEN upload
            ELSE [upload EXCEPT !.data[Len(upload.data)] = Junk]

HandleEraseNoToken(src) ==  \* mutated: the token is left alone
  /\ Delivered(src, "erase")
  /\ IF IsPresent(job[src].slot)
     THEN catalogue' = [catalogue EXCEPT ![job[src].slot] = None] /\ ClobberUpload
     ELSE UNCHANGED partition
  /\ GoOn(src, NoJob)
  /\ UNCHANGED <<boot, write_token, minitel>>
HandleErase(src) ==
  /\ Delivered(src, "erase")
  /\ write_token' = src
  /\ IF IsPresent(job[src].slot)
     THEN catalogue' = [catalogue EXCEPT ![job[src].slot] = None] /\ ClobberUpload
     ELSE UNCHANGED partition
  /\ GoOn(src, NoJob)
  /\ UNCHANGED <<boot, minitel>>

-----------------------------------------------------------------------------
(* The menu on the Minitel. Its main() enters the function for the desired *)
(* state; the function returns when it finds that the state has changed.   *)
(* run_main_menu signals all the keys pressed before it looks again.       *)

PhaseOf(state) ==
  CASE state = "MAIN_MENU" -> "keys"
    [] state = "CLIENT_MODE" -> "client"
    [] state = "EMPTY_SLOT_ERROR" -> "error"
    [] state = "BOOT_TRAMPOLINE" -> "trampoline"

MenuDispatch ==
  /\ menu = "top"
  /\ menu' = PhaseOf(desired_state)
  /\ UNCHANGED <<partition, boot, write_token, user_requested_boot, running, job>>

MenuLeaveNotClient ==  \* mutated: client mode does not look at the desired state
  /\ menu \in {"keys", "error"}
  /\ PhaseOf(desired_state) # menu
  /\ menu' = "top"
  /\ UNCHANGED <<partition, boot, write_token, user_requested_boot, running, job>>

\* What is on its way through the tunnel is lost when client mode is left.
MenuLeave ==
  /\ menu \in {"keys", "client", "error"}
  /\ PhaseOf(desired_state) # menu
  /\ menu' = "top"
  /\ job' = IF menu = "client" THEN [job EXCEPT ![MagicIo] = NoJob] ELSE job
  /\ UNCHANGED <<partition, boot, write_token, user_requested_boot, running>>

\* The menu polls the slot's field until it is 0; it stays 0, and later presses of
\* the key go unseen.
UserRequestedBoot(s) ==
  /\ menu = "keys"
  /\ user_requested_boot[s]
  /\ user_requested_boot' = [user_requested_boot EXCEPT ![s] = FALSE]
  /\ RequestBoot(s)
  /\ UNCHANGED <<partition, write_token, menu, running, job>>

UserRequestedClientMode ==
  /\ menu = "keys"
  /\ desired_state' = "CLIENT_MODE"
  /\ UNCHANGED <<partition, write_token, can_accept_boot_command,
                 selected_boot_slot_num, accepted, minitel, job>>

\* load_rom_from_data_partition copies what the slot holds now: all of the flash
\* area if the slot is no longer present.
InTrampoline ==
  /\ menu = "trampoline"
  /\ menu' = "rom"
  /\ running' = IF IsPresent(selected_boot_slot_num)
                THEN catalogue[selected_boot_slot_num] ELSE Junk
  /\ UNCHANGED <<partition, boot, write_token, user_requested_boot, job>>

\* The Minitel restarts without the Pico: the menu resets magic I/O, which keeps
\* the desired state and restores the field of slot 0 alone. A ROM just starts again.
MinitelReset ==
  /\ menu # "rom"
  /\ menu' = "top"
  /\ user_requested_boot' = [user_requested_boot EXCEPT ![Slot0] = TRUE]
  /\ job' = [job EXCEPT ![MagicIo] = NoJob]
  /\ UNCHANGED <<partition, boot, write_token, running>>

\* Pico and Minitel lose power. USB and TCP connections break.
PowerCycle ==
  /\ UNCHANGED catalogue
  /\ upload' = None
  /\ write_token' = Uninitialized
  /\ can_accept_boot_command' = TRUE
  /\ selected_boot_slot_num' = Slot0
  /\ desired_state' = "MAIN_MENU"
  /\ user_requested_boot' = [s \in Slots |-> TRUE]
  /\ menu' = "top"
  /\ running' = None
  /\ job' \in {[src \in Sources |-> IF src = MagicIo THEN j ELSE NoJob] :
                j \in {job[MagicIo], NoJob}}
  /\ accepted' = None

Next ==
  \/ \E src \in Sources :
       \/ StartJob(src) \/ QuitJob(src)
       \/ HandleBoot(src)
       \/ HandleWriteBegin(src) \/ HandleWriteData(src) \/ HandleWriteEnd(src)
       \/ HandleWirelessConfig(src) \/ HandleErase(src)
  \/ MenuDispatch \/ MenuLeave
  \/ \E s \in Slots : UserRequestedBoot(s)
  \/ UserRequestedClientMode \/ InTrampoline
  \/ MinitelReset \/ PowerCycle

Spec == Init /\ [][Next]_vars

\* The menu runs on, and the Minitel is not reset for ever just before the firmware
\* sees it in the trampoline.
Fairness == WF_vars(MenuDispatch) /\ WF_vars(MenuLeave) /\ SF_vars(InTrampoline)
FairSpec == Spec /\ Fairness
-----------------------------------------------------------------------------
(* Properties.                                                             *)

WholeImages == {Image(x) : x \in Images}

\* Every variable holds a value of its type.
TypeOK ==
  /\ catalogue \in [Slots -> [1 .. NumChunks -> Chunk] \cup {None}]
  /\ upload \in Upload \cup {None}
  /\ write_token \in Sources \cup {Uninitialized}
  /\ can_accept_boot_command \in BOOLEAN
  /\ selected_boot_slot_num \in Slots
  /\ desired_state \in DesiredStates
  /\ user_requested_boot \in [Slots -> BOOLEAN]
  /\ menu \in Phases
  /\ running \in [1 .. NumChunks -> Chunk] \cup {Junk, None}
  /\ job \in [Sources -> Job]
  /\ accepted \in Slots \cup {None}

\* Every ROM in the catalogue is one image, whole and in order, whatever uploads of
\* other sources, erased slots, killed programs and power cycles came in between.
WholeRoms == \A s \in Slots : catalogue[s] \in WholeImages \cup {None}

\* "We only allow the most recently started write operation to continue": when the
\* token is with a source whose program is past BEGIN, the upload in the firmware is
\* that program's, with all it has sent so far and nothing else.
UploadFollowsToken ==
  \A src \in Sources :
    LET j == job[src]
    IN write_token = src /\ j.cmd = "store" /\ j.sent > 0 =>
         upload = [slot |-> j.slot, data |-> Prefix(j.image, j.sent - 1)]

\* A program told that its store command succeeded finds its image in the slot.
StoredWhenAcked ==
  [][\A src \in Sources :
       job[src].cmd = "store" /\ job'[src].cmd = "boot" =>
         catalogue'[job[src].slot] = Image(job[src].image)]_vars

\* The Minitel leaves the menu for good only on a boot request that was accepted,
\* and no second request is accepted after it.
LeavesMenuOnce ==
  menu \in {"trampoline", "rom"} => accepted # None /\ ~ can_accept_boot_command

\* prepare_rom restores the request field of slot 0 alone, and no other code restores
\* any: a key is dead only when the firmware would accept no boot request anyway.
DeadKeysHarmless ==
  \A s \in Slots : ~ user_requested_boot[s] => ~ can_accept_boot_command

\* Whatever the menu is doing, once the trampoline is the desired state the Minitel
\* gets there and the ROM takes over, unless the user or a power cycle changes it.
BootHappens ==
  desired_state = "BOOT_TRAMPOLINE" ~> (menu = "rom" \/ desired_state # "BOOT_TRAMPOLINE")

\* A BOOT command answered with BUSY is a failed one (rom-emulator-cli.py: "Boot
\* command failed."): it leaves the slot alone that an earlier request was accepted
\* for, and that is about to be booted.
BusyBootChangesNothing ==
  [][\A src \in Sources :
       HandleBoot(src) /\ ~ can_accept_boot_command /\ accepted # None /\ menu # "rom" =>
         UNCHANGED selected_boot_slot_num]_vars

\* A boot request answered with OK has succeeded (rom-emulator-cli.py: "Boot command
\* succeeded."): the menu stays on its way to the trampoline.
AcceptedBootStands ==
  accepted # None /\ menu # "rom" => desired_state = "BOOT_TRAMPOLINE"
=============================================================================
