------------------------------- MODULE MagicIo -------------------------------
(***************************************************************************)
(* Magic I/O: how the firmware (magic-io.cpp, called by main.cpp) and the  *)
(* menu on the Minitel (menu/magic-io.c, called by menu/main.c) talk.      *)
(*                                                                         *)
(* The Minitel can only read the ROM the firmware emulates, and the        *)
(* firmware sees the addresses it reads. For each request the Minitel      *)
(* polls fields of the ROM, one after the other, until each has changed.   *)
(* The firmware samples the addresses for a moment, acts if it sees one    *)
(* active field polled, and answers by writing fields, byte by byte, while *)
(* the Minitel runs on. Each poll, each byte written and each step of the  *)
(* main loop is a step here; a trace in which no field stands out is none. *)
(*                                                                         *)
(* What is in a configuration block is abstracted to a version number;     *)
(* blocks are numbered in the order the menu shows them. served, taken and *)
(* received are history: the last signal the main loop acted on, the byte  *)
(* that was popped for the Minitel, and the last byte it sent on.          *)
(***************************************************************************)
EXTENDS Naturals, Sequences

CONSTANTS
  Slots, Bytes,
  NumBlocks,      \* configuration blocks: the network's and one for each slot
  NumCells,       \* bytes of a configuration block
  Capacity,       \* sizeof(serial_rx_buf)
  LastVersion,    \* bound: how often a configuration block changes
  Answers,        \* what handle_packet may reply after a byte, <<>> among them
  Slot0,          \* the slot whose boot field prepare_rom sets
  Byte0,          \* the byte the buffers hold at power-on
  Generations,    \* reset_generation_count counts modulo this
  None

ASSUME SizeAssumption ==
  /\ {NumBlocks, NumCells, Capacity} \subseteq Nat \ {0}
  /\ Generations \in Nat \ {0, 1}
  /\ LastVersion \in Nat
ASSUME ZeroAssumption == Slot0 \in Slots /\ Byte0 \in Bytes
ASSUME AnswersAssumption == Answers \subseteq Seq(Bytes) /\ <<>> \in Answers
\* None is no byte, block or signal.
ASSUME NoneAssumption ==
  /\ None \notin Bytes \cup (1 .. NumBlocks) /\ None # "?" /\ None # <<"client">>
  /\ \A x \in Slots \cup Bytes \cup (1 .. NumBlocks) :
       None \notin {<<"boot", x>>, <<"serial", x>>, <<"block", x>>}

Blocks == 1 .. NumBlocks
Cells == 1 .. NumCells
Ring == 0 .. Capacity - 1

\* The fields of MAGIC_IO_t. The ACTIVE_AREA:
Generation == <<"reset_generation_count">>
Boot(s) == <<"user_requested_boot", s>>
Sync1 == <<"user_requested_client_mode_sync1">>
Sync2 == <<"user_requested_client_mode_sync2">>
Tx(c) == <<"serial_data_tx", c>>
TxAck == <<"serial_data_tx_ack">>
RxLock == <<"serial_data_rx_lock">>
RxUnlock == <<"serial_data_rx_unlock">>
Changed == <<"configuration_changed">>
Load(b) == <<"configuration_load_block", b>>
LoadAck == <<"configuration_load_block_ack">>
\* The PASSIVE_AREA:
DesiredState == <<"desired_state">>
RxNonempty == <<"serial_data_rx_nonempty">>
RxData == <<"serial_data_rx_data">>
Cell(k) == <<"configuration_loaded_block", k>>

BootFields == {Boot(s) : s \in Slots}
TxFields == {Tx(c) : c \in Bytes}
LoadFields == {Load(b) : b \in Blocks}
CellFields == {Cell(k) : k \in Cells}
Flags == BootFields \cup TxFields \cup LoadFields
         \cup {Sync1, Sync2, TxAck, RxLock, RxUnlock, Changed, LoadAck}

DesiredStates == {"MAIN_MENU", "CLIENT_MODE", "EMPTY_SLOT_ERROR", "BOOT_TRAMPOLINE"}

VARIABLES
  area,                             \* MAGIC_IO_t in the emulated ROM: field |-> value
  serial_tx_buf,
  serial_rx_buf, serial_rx_buf_rpos, serial_rx_buf_cnt,
  configuration_load_last_address,
  todo,                             \* the writes a function of the firmware has yet to do
  signal,                           \* what magic_io_analyze_traces returns after them
  can_accept_boot_command,
  version,                          \* of each block: the firmware's configuration
  phase,                            \* where the menu is
  polling,                          \* the fields it polls now, one after the other
  initial_value,                    \* local of magic_io_reset
  next_block,                       \* the block to show next; do_refresh if there is one
  screen,                           \* the bytes of each block drawn so far
  served, taken, received           \* history

rx == <<serial_rx_buf, serial_rx_buf_rpos, serial_rx_buf_cnt>>
ram == <<serial_tx_buf, rx, configuration_load_last_address, can_accept_boot_command, version>>
menu == <<phase, polling, initial_value, next_block, screen, received>>
vars == <<area, ram, todo, signal, menu, served, taken>>

Blank == [b \in Blocks |-> <<>>]

\* Writing v to a field, and to each of a set of fields.
Write(f, v) == [g \in {f} |-> v]
WriteAll(fs, v) == [g \in fs |-> v]

-----------------------------------------------------------------------------
(* The firmware: magic_io_analyze_traces, one action per active field.     *)

\* What the Minitel polls for: a change of the generation, 0 in the other fields.
Waiting(f) == IF f = Generation THEN area[f] = initial_value ELSE area[f] # 0

\* The main loop has sampled the Minitel polling f.
Idle == todo = <<>> /\ signal = None
Sampled(f) == Idle /\ polling # <<>> /\ Head(polling) = f /\ Waiting(f)

Do(writes) == todo' = writes /\ UNCHANGED <<area, menu, served>>
Return(s) == signal' = s
ReturnNothing == UNCHANGED signal

NextGenerationSaturating(gen) == IF gen + 1 < Generations THEN gen + 1 ELSE gen  \* mutated
NextGeneration(gen) == (gen + 1) % Generations

PrepareWrites(gen) ==
  << WriteAll({Boot(Slot0), Sync1}, 1), Write(Sync2, 0),
     WriteAll(TxFields, 1), Write(TxAck, 0),
     Write(RxNonempty, 0), Write(RxLock, 1), Write(RxUnlock, 0),
     Write(Changed, 0),
     WriteAll(LoadFields, 1), Write(LoadAck, 0),
     Write(Generation, gen) >>

\* magic_io_prepare_rom: the desired state and serial_tx_buf stay; the generation is
\* written last.
HandleReset ==
  /\ Sampled(Generation)
  /\ serial_rx_buf_rpos' = 0 /\ serial_rx_buf_cnt' = 0
  /\ configuration_load_last_address' = None
  /\ Do(PrepareWrites(NextGeneration(area[Generation])))
  /\ ReturnNothing
  /\ UNCHANGED <<serial_tx_buf, serial_rx_buf, can_accept_boot_command, version, taken>>

HandleBoot(s) ==
  /\ Sampled(Boot(s))
  /\ Do(<<Write(Boot(s), 0)>>)
  /\ Return(<<"boot", s>>)
  /\ UNCHANGED <<ram, taken>>

HandleSync1Swapped ==  \* mutated: the writes in the other order
  /\ Sampled(Sync1)
  /\ Do(<<Write(Sync1, 0), Write(Sync2, 1)>>)
  /\ ReturnNothing
  /\ UNCHANGED <<ram, taken>>
HandleSync1 ==
  /\ Sampled(Sync1)
  /\ Do(<<Write(Sync2, 1), Write(Sync1, 0)>>)
  /\ ReturnNothing
  /\ UNCHANGED <<ram, taken>>

HandleSync2 ==
  /\ Sampled(Sync2)
  /\ Do(<<Write(Sync1, 1), Write(Sync2, 0)>>)
  /\ Return(<<"client">>)
  /\ UNCHANGED <<ram, taken>>

\* The first write is a precaution in case the byte before was not acknowledged.
HandleTx(c) ==
  /\ Sampled(Tx(c))
  /\ serial_tx_buf' = c
  /\ Do((IF serial_tx_buf # c THEN <<Write(Tx(serial_tx_buf), 1)>> ELSE <<>>)
        \o <<Write(TxAck, 1), Write(Tx(c), 0)>>)
  /\ ReturnNothing
  /\ UNCHANGED <<rx, configuration_load_last_address, can_accept_boot_command, version, taken>>

HandleTxAck ==
  /\ Sampled(TxAck)
  /\ Do(<<Write(Tx(serial_tx_buf), 1), Write(TxAck, 0)>>)
  /\ Return(<<"serial", serial_tx_buf>>)
  /\ UNCHANGED <<ram, taken>>

\* '?' is what the Minitel gets if the queue is empty.
HandleRxLock ==
  /\ Sampled(RxLock)
  /\ LET c == IF serial_rx_buf_cnt = 0 THEN "?" ELSE serial_rx_buf[serial_rx_buf_rpos]
         left == IF serial_rx_buf_cnt = 0 THEN 0 ELSE serial_rx_buf_cnt - 1
     IN /\ serial_rx_buf_rpos' = IF serial_rx_buf_cnt = 0 THEN serial_rx_buf_rpos
                                 ELSE (serial_rx_buf_rpos + 1) % Capacity
        /\ serial_rx_buf_cnt' = left
        /\ taken' = c
        /\ Do(<<Write(RxData, c), Write(RxNonempty, IF left # 0 THEN 1 ELSE 0),
                Write(RxUnlock, 1), Write(RxLock, 0)>>)
  /\ ReturnNothing
  /\ UNCHANGED <<serial_tx_buf, serial_rx_buf, configuration_load_last_address,
                 can_accept_boot_command, version>>

HandleRxUnlock ==
  /\ Sampled(RxUnlock)
  /\ Do(<<Write(RxLock, 1), Write(RxUnlock, 0)>>)
  /\ ReturnNothing
  /\ UNCHANGED <<ram, taken>>

HandleChanged ==
  /\ Sampled(Changed)
  /\ Do(<<Write(Changed, 0)>>)
  /\ ReturnNothing
  /\ UNCHANGED <<ram, taken>>

Rearm(last) == IF last = None THEN <<>> ELSE <<Write(Load(last), 1)>>

HandleLoadSwapped(b) ==  \* mutated: the block's field is cleared before the ack is set
  /\ Sampled(Load(b))
  /\ configuration_load_last_address' = b
  /\ Do(Rearm(configuration_load_last_address) \o <<Write(Load(b), 0), Write(LoadAck, 1)>>)
  /\ Return(<<"block", b>>)
  /\ UNCHANGED <<serial_tx_buf, rx, can_accept_boot_command, version, taken>>
HandleLoadClearing(b) ==  \* mutated: takes a load for the answer to the signalled change
  /\ Sampled(Load(b))
  /\ configuration_load_last_address' = b
  /\ Do(Rearm(configuration_load_last_address)
        \o <<Write(Changed, 0), Write(LoadAck, 1), Write(Load(b), 0)>>)
  /\ Return(<<"block", b>>)
  /\ UNCHANGED <<serial_tx_buf, rx, can_accept_boot_command, version, taken>>
HandleLoad(b) ==
  /\ Sampled(Load(b))
  /\ configuration_load_last_address' = b
  /\ Do(Rearm(configuration_load_last_address) \o <<Write(LoadAck, 1), Write(Load(b), 0)>>)
  /\ Return(<<"block", b>>)
  /\ UNCHANGED <<serial_tx_buf, rx, can_accept_boot_command, version, taken>>

HandleLoadAckKeeping ==  \* mutated: the loaded address is not forgotten
  /\ Sampled(LoadAck)
  /\ Do(Rearm(configuration_load_last_address) \o <<Write(LoadAck, 0)>>)
  /\ ReturnNothing
  /\ UNCHANGED <<ram, taken>>
HandleLoadAck ==
  /\ Sampled(LoadAck)
  /\ configuration_load_last_address' = None
  /\ Do(Rearm(configuration_load_last_address) \o <<Write(LoadAck, 0)>>)
  /\ ReturnNothing
  /\ UNCHANGED <<serial_tx_buf, rx, can_accept_boot_command, version, taken>>

\* One byte, or the bytes of one array.
WriteNext ==
  /\ todo # <<>>
  /\ area' = [f \in DOMAIN area |->
                IF f \in DOMAIN Head(todo) THEN Head(todo)[f] ELSE area[f]]
  /\ todo' = Tail(todo)
  /\ UNCHANGED <<ram, signal, menu, served, taken>>

-----------------------------------------------------------------------------
(* The firmware's main loop, once the function has returned.               *)

Returned(kind) == todo = <<>> /\ signal # None /\ signal[1] = kind
Acted == signal' = None /\ served' = signal

\* A boot request, from a key or a packet; whether the slot is present is MainLoop's.
AcceptBoot ==
  IF can_accept_boot_command
  THEN /\ can_accept_boot_command' = FALSE
       /\ \E state \in {"EMPTY_SLOT_ERROR", "BOOT_TRAMPOLINE"} :
            area' = [area EXCEPT ![DesiredState] = state]
  ELSE UNCHANGED <<can_accept_boot_command, area>>

UserRequestedBoot ==
  /\ Returned("boot")
  /\ AcceptBoot
  /\ Acted
  /\ UNCHANGED <<serial_tx_buf, rx, configuration_load_last_address, version, todo, menu, taken>>

UserRequestedClientMode ==
  /\ Returned("client")
  /\ area' = [area EXCEPT ![DesiredState] = "CLIENT_MODE"]
  /\ Acted
  /\ UNCHANGED <<ram, todo, menu, taken>>

KeptAll(answer) == Len(answer)  \* mutated: the buffer is never full
Kept(answer) ==
  LET room == Capacity - serial_rx_buf_cnt
  IN IF Len(answer) < room THEN Len(answer) ELSE room

\* magic_io_enqueue_serial_tx for each byte of an answer: what does not fit is lost.
Enqueue(answer) ==
  LET kept == Kept(answer)
      wpos(i) == (serial_rx_buf_rpos + serial_rx_buf_cnt + i - 1) % Capacity
  IN /\ serial_rx_buf' = [p \in Ring |->
                            IF \E i \in 1 .. kept : wpos(i) = p
                            THEN answer[CHOOSE i \in 1 .. kept : wpos(i) = p]
                            ELSE serial_rx_buf[p]]
     /\ serial_rx_buf_cnt' = serial_rx_buf_cnt + kept
     /\ area' = IF kept > 0 THEN [area EXCEPT ![RxNonempty] = 1] ELSE area
     /\ UNCHANGED serial_rx_buf_rpos

\* The byte may complete a packet, and the packet have a reply.
SerialRx ==
  /\ Returned("serial")
  /\ \E answer \in Answers : Enqueue(answer)
  /\ Acted
  /\ UNCHANGED <<serial_tx_buf, configuration_load_last_address, can_accept_boot_command,
                 version, todo, menu, taken>>

\* magic_io_fill_configuration_block, with what the block says now.
ConfigurationData ==
  /\ Returned("block")
  /\ LET b == signal[2]
     IN todo' = [k \in Cells |-> Write(Cell(k), <<b, version[b]>>)]
  /\ signal' = None
  /\ UNCHANGED <<area, ram, menu, served, taken>>

\* A packet, from any source, boots a ROM or changes a block, before the reply to it.
PacketTime == Idle \/ Returned("serial")

BootCommand ==
  /\ PacketTime
  /\ can_accept_boot_command
  /\ AcceptBoot
  /\ UNCHANGED <<serial_tx_buf, rx, configuration_load_last_address, version, todo, signal,
                 menu, served, taken>>

\* handle_packet, and on_status_changed, signal the change at once.
ConfigurationChangesSilent(b) ==  \* mutated: the menu is not told
  /\ PacketTime
  /\ version[b] < LastVersion
  /\ version' = [version EXCEPT ![b] = @ + 1]
  /\ UNCHANGED <<area, serial_tx_buf, rx, configuration_load_last_address,
                 can_accept_boot_command, todo, signal, menu, served, taken>>
ConfigurationChanges(b) ==
  /\ PacketTime
  /\ version[b] < LastVersion
  /\ version' = [version EXCEPT ![b] = @ + 1]
  /\ area' = [area EXCEPT ![Changed] = 1]
  /\ UNCHANGED <<serial_tx_buf, rx, configuration_load_last_address, can_accept_boot_command,
                 todo, signal, menu, served, taken>>

-----------------------------------------------------------------------------
(* The menu. polling is the rest of a call of magic-io.c.                  *)

firmware == <<area, ram, todo, signal, served>>
At(p) == phase = p /\ polling = <<>>
Go(p) == phase' = p
Poll(fs) == polling' = fs

\* A poll that finds what it waits for.
PollDone ==
  /\ polling # <<>>
  /\ ~ Waiting(Head(polling))
  /\ Poll(Tail(polling))
  /\ UNCHANGED <<firmware, phase, initial_value, next_block, screen, taken, received>>

\* main(): magic_io_reset.
Reset ==
  /\ At("boot")
  /\ initial_value' = area[Generation]
  /\ Poll(<<Generation>>) /\ Go("top")
  /\ UNCHANGED <<firmware, next_block, screen, taken, received>>

PhaseOf(state) ==
  CASE state = "MAIN_MENU" -> "menu"
    [] state = "CLIENT_MODE" -> "client"
    [] state = "EMPTY_SLOT_ERROR" -> "error"
    [] state = "BOOT_TRAMPOLINE" -> "trampoline"

\* main()'s switch. run_main_menu starts with do_refresh set.
Dispatch ==
  /\ At("top")
  /\ Go(PhaseOf(area[DesiredState]))
  /\ next_block' = 1
  /\ UNCHANGED <<firmware, polling, initial_value, screen, taken, received>>

\* The loop condition of each of the functions; all clear what they have drawn.
Loop ==
  /\ phase \in {"menu", "error", "client"} /\ polling = <<>>
  /\ IF PhaseOf(area[DesiredState]) # phase
     THEN Go("top") /\ screen' = Blank
     ELSE /\ phase # "error"
          /\ Go(IF phase = "client" THEN "serial_in"
                ELSE IF next_block \in Blocks THEN "refresh" ELSE "keys")
          /\ UNCHANGED screen
  /\ UNCHANGED <<firmware, polling, initial_value, next_block, taken, received>>

\* magic_io_get_configuration_network and magic_io_get_configuration_rom_slot.
GetConfiguration ==
  /\ At("refresh")
  /\ Poll(<<Load(next_block), LoadAck>>) /\ Go("draw")
  /\ screen' = [screen EXCEPT ![next_block] = <<>>]
  /\ UNCHANGED <<firmware, initial_value, next_block, taken, received>>

\* One byte of the block is read from the ROM and drawn.
Draw ==
  /\ At("draw")
  /\ LET drawn == Append(screen[next_block], area[Cell(Len(screen[next_block]) + 1)])
     IN /\ screen' = [screen EXCEPT ![next_block] = drawn]
        /\ IF Len(drawn) < NumCells
           THEN UNCHANGED <<phase, next_block>>
           ELSE /\ next_block' = next_block + 1
                /\ Go(IF next_block < NumBlocks THEN "refresh" ELSE "keys")
  /\ UNCHANGED <<firmware, polling, initial_value, taken, received>>

\* Keys that are down in this scan of the keyboard.
PressBoot(s) ==
  /\ At("keys")
  /\ Poll(<<Boot(s)>>)
  /\ UNCHANGED <<firmware, phase, initial_value, next_block, screen, taken, received>>

PressClient ==
  /\ At("keys")
  /\ Poll(<<Sync1, Sync2>>)
  /\ UNCHANGED <<firmware, phase, initial_value, next_block, screen, taken, received>>

\* magic_io_test_and_clear_configuration_changed, into do_refresh.
TestChanged ==
  /\ At("keys")
  /\ Go("menu")
  /\ IF area[Changed] = 0
     THEN next_block' = NumBlocks + 1 /\ UNCHANGED polling
     ELSE next_block' = 1 /\ Poll(<<Changed>>)
  /\ UNCHANGED <<firmware, initial_value, screen, taken, received>>

\* run_client_mode: magic_io_tx_byte, if the serial port has received a byte.
TxByte(c) ==
  /\ At("serial_in")
  /\ Poll(<<Tx(c), TxAck>>) /\ Go("serial_out")
  /\ UNCHANGED <<firmware, initial_value, next_block, screen, taken, received>>

NoTxByte ==
  /\ At("serial_in")
  /\ Go("serial_out")
  /\ UNCHANGED <<firmware, polling, initial_value, next_block, screen, taken, received>>

\* magic_io_rx_byte, if the serial port can take a byte.
RxByte ==
  /\ At("serial_out")
  /\ area[RxNonempty] # 0
  /\ Poll(<<RxLock>>) /\ Go("take")
  /\ UNCHANGED <<firmware, initial_value, next_block, screen, taken, received>>

NoRxByte ==
  /\ At("serial_out")
  /\ Go("client")
  /\ UNCHANGED <<firmware, polling, initial_value, next_block, screen, taken, received>>

RxTake ==
  /\ At("take")
  /\ received' = area[RxData] /\ taken' = None
  /\ Poll(<<RxUnlock>>) /\ Go("client")
  /\ UNCHANGED <<firmware, initial_value, next_block, screen>>

\* At any time the Minitel may restart, without the Pico.
MinitelReset ==
  /\ Go("boot")
  /\ Poll(<<>>)
  /\ next_block' = 1
  /\ screen' = Blank
  /\ taken' = None
  /\ UNCHANGED <<firmware, initial_value, received>>

-----------------------------------------------------------------------------
(* The specification. At power-on the firmware has prepared the ROM.       *)

Init ==
  /\ area = [f \in Flags \cup CellFields \cup {Generation, DesiredState, RxNonempty, RxData} |->
               CASE f \in {Sync2, TxAck, RxUnlock, RxNonempty, Changed, LoadAck} -> 0
                 [] f = DesiredState -> "MAIN_MENU"
                 [] f \in CellFields \cup {RxData} -> None
                 [] OTHER -> 1]
  /\ serial_tx_buf = Byte0
  /\ serial_rx_buf = [p \in Ring |-> Byte0]
  /\ serial_rx_buf_rpos = 0 /\ serial_rx_buf_cnt = 0
  /\ configuration_load_last_address = None
  /\ todo = <<>> /\ signal = None
  /\ can_accept_boot_command = TRUE
  /\ version = [b \in Blocks |-> 0]
  /\ phase = "boot" /\ polling = <<>>
  /\ initial_value = 0
  /\ next_block = 1
  /\ screen = Blank
  /\ served = None /\ taken = None /\ received = None

AnalyzeTraces ==
  \/ HandleReset
  \/ \E s \in Slots : HandleBoot(s)
  \/ HandleSync1 \/ HandleSync2
  \/ \E c \in Bytes : HandleTx(c)
  \/ HandleTxAck \/ HandleRxLock \/ HandleRxUnlock \/ HandleChanged
  \/ \E b \in Blocks : HandleLoad(b)
  \/ HandleLoadAck

Firmware ==
  \/ AnalyzeTraces \/ WriteNext
  \/ UserRequestedBoot \/ UserRequestedClientMode \/ SerialRx \/ ConfigurationData

MenuStep == Reset \/ Dispatch \/ Loop \/ GetConfiguration \/ Draw \/ RxTake

User ==
  \/ \E s \in Slots : PressBoot(s)
  \/ PressClient
  \/ \E c \in Bytes : TxByte(c)
  \/ NoTxByte \/ RxByte \/ NoRxByte
  \/ BootCommand
  \/ \E b \in Blocks : ConfigurationChanges(b)
  \/ MinitelReset

Next == Firmware \/ PollDone \/ MenuStep \/ TestChanged \/ User

Spec == Init /\ [][Next]_vars

\* The firmware's loop and the menu's go on; a scan of the keyboard ends; and a field
\* the firmware has changed is not changed back each time before the next poll, which
\* is a few instructions later.
Fairness ==
  /\ WF_vars(Firmware) /\ WF_vars(MenuStep)
  /\ SF_vars(PollDone) /\ SF_vars(TestChanged)
FairSpec == Spec /\ Fairness
-----------------------------------------------------------------------------
(* What magic I/O promises (Mailbox), and where this module keeps it.      *)

Requests == {<<"boot", s>> : s \in Slots} \cup {<<"client">>} \cup {<<"serial", c>> : c \in Bytes}

Connected == phase # "boot" /\ (polling = <<>> \/ Head(polling) # Generation)

\* The request the menu is making, until the firmware has seen the last of its fields
\* polled. A boot field that is 0 makes none.
Asking ==
  IF polling = <<>> THEN <<>>
  ELSE LET last == polling[Len(polling)]
           request ==
             CASE last \in BootFields -> <<"boot", last[2]>>
               [] last = Sync2 -> <<"client">>
               [] last = TxAck ->
                    <<"serial", IF Len(polling) = 2 THEN polling[1][2] ELSE serial_tx_buf>>
               [] OTHER -> None
           seen == Len(polling) = 1 /\ (area[last] = 0 \/ signal = request)
       IN IF request = None \/ seen THEN <<>> ELSE <<request>>

Outgoing == (IF signal \in Requests THEN <<signal>> ELSE <<>>) \o Asking

Queued == [i \in 1 .. serial_rx_buf_cnt |->
             serial_rx_buf[(serial_rx_buf_rpos + i - 1) % Capacity]]

Mail == INSTANCE Mailbox WITH
  connected <- Connected, to_firmware <- Outgoing, to_menu <- Queued
-----------------------------------------------------------------------------
(* Properties.                                                             *)

\* Every field and variable holds a value of its type; the byte queue never holds more
\* than its buffer.
TypeOK ==
  /\ \A f \in Flags \cup {RxNonempty} : area[f] \in {0, 1}
  /\ area[Generation] \in 0 .. Generations - 1 /\ initial_value \in 0 .. Generations - 1
  /\ area[DesiredState] \in DesiredStates
  /\ area[RxData] \in Bytes \cup {None, "?"}
  /\ \A f \in CellFields : area[f] \in (Blocks \X (0 .. LastVersion)) \cup {None}
  /\ serial_tx_buf \in Bytes
  /\ serial_rx_buf \in [Ring -> Bytes]
  /\ serial_rx_buf_rpos \in Ring /\ serial_rx_buf_cnt \in 0 .. Capacity
  /\ configuration_load_last_address \in Blocks \cup {None}
  /\ \A i \in 1 .. Len(todo) : DOMAIN todo[i] \subseteq DOMAIN area
  /\ signal \in Requests \cup {<<"block", b>> : b \in Blocks} \cup {None}
  /\ can_accept_boot_command \in BOOLEAN
  /\ version \in [Blocks -> 0 .. LastVersion]
  /\ phase \in {"boot", "top", "menu", "refresh", "draw", "keys", "error", "trampoline",
                "client", "serial_in", "serial_out", "take"}
  /\ \A i \in 1 .. Len(polling) : polling[i] \in Flags \cup {Generation}
  /\ next_block \in 1 .. NumBlocks + 1

\* Requests are acted on once each and in order, bytes reach the menu once each and in
\* order, and nothing of an earlier session reaches a restarted Minitel.
ImplementsMailbox == Mail!Spec

\* "This should never happen if the other side follows the protocol": it does, so the
\* branches of magic_io_analyze_traces that recover from it are never needed, whenever
\* the Minitel restarts.
RecoveryNeverNeeded ==
  /\ \A c \in Bytes : Sampled(Tx(c)) => area[Tx(serial_tx_buf)] = 1
  /\ Sampled(RxLock) => serial_rx_buf_cnt > 0
  /\ \A b \in Blocks : Sampled(Load(b)) => configuration_load_last_address = None
  /\ Sampled(LoadAck) => configuration_load_last_address # None

\* Each line of the menu is drawn from one version of the block it is for, though the
\* block is written and read byte by byte by two processors.
LinesAreWhole ==
  \A b \in Blocks : \E v \in 0 .. LastVersion :
    \A k \in 1 .. Len(screen[b]) : screen[b][k] = <<b, v>>

InMenu == phase \in {"menu", "refresh", "draw", "keys"}
Fresh(b) == [k \in Cells |-> <<b, version[b]>>]

\* A line drawn in this pass that is out of date has its change signalled: the menu
\* will not miss it.
StaleIsNoticed ==
  InMenu => \A b \in Blocks : b < next_block /\ screen[b] # Fresh(b) => area[Changed] # 0

\* No call of magic-io.c polls for ever.
CallsEnd == polling # <<>> ~> polling = <<>>

\* The menu comes to show what the firmware has, once that stops changing.
ScreenCatchesUp ==
  InMenu ~> (~ InMenu \/ \A b \in Blocks : screen[b] = Fresh(b))
=============================================================================
