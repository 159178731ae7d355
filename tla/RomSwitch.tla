------------------------------ MODULE RomSwitch ------------------------------
(***************************************************************************)
(* The emulated memory (mememu.cpp and its PIO programs), the Minitel's    *)
(* CPU that runs from it, and the firmware that changes the ROM under the  *)
(* running CPU: at power-on, and when the menu hands over to a ROM of the  *)
(* user (magic_io_analyze_traces and main.cpp).                            *)
(*                                                                         *)
(* A fetch is a step that puts the address on the bus, one that moves it   *)
(* to memory by DMA and the value back to the pins, and one in which the   *)
(* CPU reads the bus. Each write and each register access of the firmware  *)
(* falls anywhere between those. Two things are assumed of the hardware's  *)
(* timing: the DMA answers within the fetch, and before the next register  *)
(* access of mememu_stop; and the latch program, when it is set going      *)
(* while ALE is high, still gets to sample the address.                    *)
(*                                                                         *)
(* A byte is a zero, a set field of magic I/O, one of the two bytes of the *)
(* trampoline's jump to itself, code of the embedded ROM (the menu, where  *)
(* there is one), a byte of the user's ROM, or 0xFF. Emulated RAM is left  *)
(* out.                                                                    *)
(***************************************************************************)
EXTENDS Naturals

CONSTANTS
  TRAMPOLINE_ADDRESS,   \* 0xFFFD: the trampoline is the last three addresses
  Sizes,                \* of the ROM in the slot that was chosen
  Samples,              \* TRACE_MAX_SAMPLES
  Sleep,                \* fetches that sleep_us(200) lasts at least
  MaxRestarts,          \* bound: how often the Minitel restarts
  None

MAX_MEM_SIZE == TRAMPOLINE_ADDRESS + 3
Addresses == 0 .. MAX_MEM_SIZE - 1
FlagAddress == TRAMPOLINE_ADDRESS - 1     \* a field of magic I/O; the rest is code
MenuCode == 0 .. FlagAddress - 1
Bytes == {"00", "SJMP", "FE", "01", "menu", "rom", "FF"}

\* Fewer samples could all be of a CPU that runs past the trampoline.
ASSUME SizesAssumption ==
  /\ TRAMPOLINE_ADDRESS \in Nat \ {0, 1}
  /\ Sizes \subseteq 1 .. MAX_MEM_SIZE
  /\ Samples \in Nat /\ Samples > 6
  /\ Sleep \in Nat \ {0} /\ MaxRestarts \in Nat
ASSUME NoneAssumption == None \notin Addresses

VARIABLES
  board,                \* "nop": a 74HCT541 parks the CPU until we do; "rst": it is in reset
  at, i,                \* where the firmware is, and its loop counter
  in_menu, size,
  mem,
  bus_enabled,          \* BUSEN
  nops_disabled,        \* NOPEN, which stops the 74HCT541
  pins, emitted,        \* output value; sm_out's register (rxf_putget)
  out_runs, dir_runs,   \* sm_out copies emitted to pins; sm_dira/b drive them on PSEN
  latch,                \* where sm_latch is: "paused", "wait_zero" or "all"
  dma,                  \* channels triggered
  fifo,                 \* the address sm_latch has emitted
  sleep,                \* fetches that the firmware still sleeps
  high,                 \* samples in a row from the trampoline, at most Samples
  cpu,                  \* [on, pc, slot, op, fetching]
  restarts,
  running,              \* history: the program the CPU is in, by its last byte
  torn                  \* history: did the Minitel restart while its ROM was cleared?

vars == <<board, at, i, in_menu, size, mem, bus_enabled, nops_disabled, pins, emitted,
          out_runs, dir_runs, latch, dma, fifo, sleep, high, cpu, restarts, running,
          torn>>
program == <<at, i, in_menu, size>>
engine == <<emitted, latch, dma>>
wiring == <<bus_enabled, nops_disabled, pins, out_runs, dir_runs>>
minitel == <<sleep, high, cpu, restarts, running, torn>>

Start(pc) == [on |-> TRUE, pc |-> pc, slot |-> "opcode", op |-> "00", fetching |-> FALSE]

\* The Minitel has been on for a while, over the zeros of the 74HCT541.
Init ==
  /\ board \in {"nop", "rst"}
  /\ at = "set_pins" /\ i = 0
  /\ in_menu = FALSE /\ size = 0
  /\ mem = [a \in Addresses |-> "FF"]
  /\ bus_enabled = FALSE /\ nops_disabled = FALSE
  /\ out_runs = FALSE /\ dir_runs = FALSE
  /\ pins = "FF" /\ emitted = "FF"
  /\ latch = "paused" /\ dma = FALSE /\ fifo = None
  /\ sleep = 0 /\ high = 0
  /\ cpu \in {[Start(pc) EXCEPT !.on = (board = "nop")] : pc \in Addresses}
  /\ restarts = 0 /\ running = "00" /\ torn = FALSE

-----------------------------------------------------------------------------
(* The bus.                                                                *)

Output == IF out_runs THEN emitted ELSE pins
Emulator == bus_enabled /\ dir_runs          \* drives the bus while PSEN is low
NopBuffer == board = "nop" /\ ~ nops_disabled

\* An instruction of one byte also fetches the next byte, and discards it; the jump
\* fetches its operand and, twice, the byte after it.
Address ==
  CASE cpu.slot = "opcode" -> cpu.pc
    [] cpu.slot \in {"discard", "operand"} -> (cpu.pc + 1) % MAX_MEM_SIZE
    [] OTHER -> (cpu.pc + 2) % MAX_MEM_SIZE

\* sm_latch on the falling edge of ALE, and the trace program of trace.pio.
LatchedNotWaiting(a) == latch # "paused"  \* mutated: the first phase left out
Latched(a) == latch = "all" \/ (latch = "wait_zero" /\ a = 0)
Fetch ==
  /\ cpu.on /\ ~ cpu.fetching /\ fifo = None
  /\ cpu' = [cpu EXCEPT !.fetching = TRUE]
  /\ IF Latched(Address)
     THEN latch' = "all" /\ fifo' = Address
     ELSE UNCHANGED <<latch, fifo>>
  /\ high' = IF Address < TRAMPOLINE_ADDRESS THEN 0
             ELSE IF high < Samples THEN high + 1 ELSE high
  /\ sleep' = IF sleep > 0 THEN sleep - 1 ELSE 0
  /\ UNCHANGED <<board, program, mem, wiring, emitted, dma, restarts, running, torn>>

\* dma_addr and dma_data, chained.
Transfer ==
  /\ dma /\ fifo # None
  /\ emitted' = mem[fifo]
  /\ fifo' = None
  /\ UNCHANGED <<board, program, mem, wiring, latch, dma, minitel>>

-----------------------------------------------------------------------------
(* The CPU, an 8052. A byte of a program may jump anywhere in its program, *)
(* and one of the menu's to the trampoline; 0xFE and 0xFF are MOV Rn,A.    *)

Targets(op, pc) ==
  CASE op = "menu" -> MenuCode \cup (IF in_menu THEN {TRAMPOLINE_ADDRESS} ELSE {})
    [] op = "rom" -> Addresses
    [] OTHER -> {(pc + 1) % MAX_MEM_SIZE}

Read(value) ==
  /\ cpu.fetching /\ fifo = None
  /\ \/ /\ cpu.slot = "opcode"
        /\ cpu' = [cpu EXCEPT !.op = value, !.fetching = FALSE,
                              !.slot = IF value = "SJMP" THEN "operand" ELSE "discard"]
        /\ running' = CASE value \in {"menu", "rom", "SJMP"} -> value
                        [] value = "00" /\ running = "SJMP" -> "00"
                        [] OTHER -> running
     \/ /\ cpu.slot = "discard"
        /\ \E pc \in Targets(cpu.op, cpu.pc) : cpu' = Start(pc)
        /\ UNCHANGED running
     \/ /\ cpu.slot = "operand"
        /\ cpu' = [cpu EXCEPT !.op = value, !.fetching = FALSE, !.slot = "first"]
        /\ UNCHANGED running
     \/ /\ cpu.slot = "first"
        /\ cpu' = [cpu EXCEPT !.fetching = FALSE, !.slot = "second"]
        /\ UNCHANGED running
     \/ /\ cpu.slot = "second"
        /\ cpu' = Start(IF cpu.op = "FE" THEN cpu.pc ELSE (cpu.pc + 2) % MAX_MEM_SIZE)
        /\ UNCHANGED running
  /\ UNCHANGED <<board, program, mem, wiring, engine, fifo, sleep, high, restarts, torn>>

\* A bus that nothing drives reads as ones.
ReadBus == Read(IF Emulator THEN Output ELSE IF NopBuffer THEN "00" ELSE "FF")

\* The Minitel's CPU restarts; the emulator does not notice.
Restart ==
  /\ cpu.on /\ restarts < MaxRestarts
  /\ restarts' = restarts + 1
  /\ cpu' = Start(0)
  /\ high' = 0
  /\ running' = "00"
  /\ torn' = (torn \/ at = "clear")
  /\ UNCHANGED <<board, program, mem, wiring, engine, fifo, sleep>>

-----------------------------------------------------------------------------
(* The firmware: mememu_setup, and the rest of main up to its loop.        *)

Goto(label) == at' = label /\ i' = 0
Quiet == UNCHANGED <<board, fifo, minitel>>

SetPins ==
  /\ at = "set_pins" /\ Goto("enable_bus")
  /\ pins' = "00"
  /\ UNCHANGED <<in_menu, size, mem, bus_enabled, nops_disabled, out_runs, dir_runs, engine>>
  /\ Quiet

EnableBus ==
  /\ at = "enable_bus" /\ Goto("set_register")
  /\ bus_enabled' = TRUE
  /\ UNCHANGED <<in_menu, size, mem, nops_disabled, pins, out_runs, dir_runs, engine>>
  /\ Quiet

\* rxf_putget, which pio_sm_init has reset.
SetRegisterSkipped == at = "set_register" /\ Goto("run_out") /\ UNCHANGED emitted
  /\ UNCHANGED <<in_menu, size, mem, wiring, latch, dma>> /\ Quiet  \* mutated: before pio_sm_init
SetRegister ==
  /\ at = "set_register" /\ Goto("run_out")
  /\ emitted' = "00"
  /\ UNCHANGED <<in_menu, size, mem, wiring, latch, dma>> /\ Quiet

RunStateMachines ==
  /\ \/ /\ at = "run_out" /\ Goto("run_dir")
        /\ out_runs' = TRUE /\ UNCHANGED dir_runs
     \/ /\ at = "run_dir" /\ Goto("disable_nops")
        /\ dir_runs' = TRUE /\ UNCHANGED out_runs
  /\ UNCHANGED <<in_menu, size, mem, bus_enabled, nops_disabled, pins, engine>>
  /\ Quiet

DisableNops ==
  /\ at = "disable_nops" /\ Goto("fill")
  /\ nops_disabled' = (board = "nop")
  /\ UNCHANGED <<in_menu, size, mem, bus_enabled, pins, out_runs, dir_runs, engine>>
  /\ Quiet

\* The embedded ROM and magic_io_prepare_rom, with nothing served yet. The board that
\* holds the CPU in reset has no menu.
EmbeddedRom == [a \in Addresses |-> IF a \in MenuCode THEN "menu"
                                    ELSE IF a = FlagAddress THEN "00" ELSE "FF"]
TrampolineNopFirst == [EmbeddedRom EXCEPT ![TRAMPOLINE_ADDRESS] = "00",
                                          ![TRAMPOLINE_ADDRESS + 1] = "SJMP",
                                          ![TRAMPOLINE_ADDRESS + 2] = "FE"]  \* mutated: order
Trampoline == [EmbeddedRom EXCEPT ![TRAMPOLINE_ADDRESS] = "SJMP",
                                  ![TRAMPOLINE_ADDRESS + 1] = "FE",
                                  ![TRAMPOLINE_ADDRESS + 2] = "00"]
Fill ==
  /\ at = "fill" /\ Goto("start_dma")
  /\ in_menu' = (board = "nop")
  /\ mem' = IF board = "nop" THEN Trampoline ELSE EmbeddedRom
  /\ UNCHANGED <<size, wiring, engine>> /\ Quiet

\* mememu_start.
StartDma ==
  /\ at = "start_dma" /\ Goto("activate")
  /\ dma' = TRUE
  /\ UNCHANGED <<in_menu, size, mem, wiring, emitted, latch>> /\ Quiet
Activate ==
  /\ at = "activate" /\ Goto(IF board = "rst" THEN "release" ELSE "loop")
  /\ latch' = "wait_zero"
  /\ UNCHANGED <<in_menu, size, mem, wiring, emitted, dma>> /\ Quiet

\* PIN_RST.
Release ==
  /\ at = "release" /\ Goto("loop")
  /\ cpu' = Start(0)
  /\ UNCHANGED <<board, in_menu, size, mem, wiring, engine, fifo, sleep, high,
                 restarts, running, torn>>

-----------------------------------------------------------------------------
(* The firmware: the main loop.                                            *)

\* A command that sets configuration_changed, for the menu.
HandlePacketAnywhere ==
  /\ at = "loop"
  /\ mem' = [mem EXCEPT ![FlagAddress] = "01"]
  /\ UNCHANGED <<program, wiring, engine>> /\ Quiet  \* mutated: in_menu not looked at
HandlePacket ==
  /\ at = "loop"
  /\ mem' = IF in_menu THEN [mem EXCEPT ![FlagAddress] = "01"] ELSE mem
  /\ UNCHANGED <<program, wiring, engine>> /\ Quiet

\* trace_collect: all the samples are of the trampoline.
InTrampoline ==
  /\ at = "loop" /\ in_menu
  /\ high = Samples
  /\ Goto("clear")
  /\ UNCHANGED <<in_menu, size, mem, wiring, engine>> /\ Quiet

\* magic_io_analyze_traces, one byte at a time.
WriteRom(a, value) ==
  /\ mem' = [mem EXCEPT ![a] = value]
  /\ UNCHANGED <<in_menu, size, wiring, engine>>
Clear ==
  /\ at = "clear"
  /\ WriteRom(i, "00") /\ Quiet
  /\ IF i + 1 < TRAMPOLINE_ADDRESS THEN i' = i + 1 /\ UNCHANGED at ELSE Goto("operand")

OverrideAndSleep(a) ==
  /\ sleep = 0 /\ sleep' = Sleep
  /\ WriteRom(a, "00")
  /\ UNCHANGED <<board, fifo, high, cpu, restarts, running, torn>>
OverrideOpcodeFirst ==
  \/ at = "operand" /\ OverrideAndSleep(TRAMPOLINE_ADDRESS) /\ Goto("opcode")
  \/ at = "opcode" /\ OverrideAndSleep(TRAMPOLINE_ADDRESS + 1) /\ Goto("pause")  \* mutated: order
Override ==
  \/ at = "operand" /\ OverrideAndSleep(TRAMPOLINE_ADDRESS + 1) /\ Goto("opcode")
  \/ at = "opcode" /\ OverrideAndSleep(TRAMPOLINE_ADDRESS) /\ Goto("pause")

\* mememu_stop.
Pause ==
  /\ at = "pause" /\ sleep = 0 /\ Goto("abort")
  /\ latch' = "paused"
  /\ UNCHANGED <<in_menu, size, mem, wiring, emitted, dma>> /\ Quiet
Abort ==
  /\ at = "abort" /\ fifo = None
  /\ Goto("silence")
  /\ dma' = FALSE
  /\ UNCHANGED <<in_menu, size, mem, wiring, emitted, latch>> /\ Quiet
Silence ==
  /\ at = "silence" /\ Goto("load")
  /\ emitted' = "00"
  /\ in_menu' = FALSE
  /\ size' \in Sizes
  /\ UNCHANGED <<mem, wiring, latch, dma>> /\ Quiet

\* load_rom_from_data_partition.
LoadOneMore == at = "load" /\ IF i <= size THEN WriteRom(i, "rom") /\ Quiet /\ i' = i + 1 /\ UNCHANGED at
  ELSE Goto("start_dma") /\ UNCHANGED <<in_menu, size, mem, wiring, engine>> /\ Quiet  \* mutated: off by one
Load ==
  /\ at = "load"
  /\ IF i < MAX_MEM_SIZE /\ i < size
     THEN WriteRom(i, "rom") /\ Quiet /\ i' = i + 1 /\ UNCHANGED at
     ELSE Goto("start_dma") /\ UNCHANGED <<in_menu, size, mem, wiring, engine>> /\ Quiet

Setup == \/ SetPins \/ EnableBus \/ SetRegister \/ RunStateMachines \/ DisableNops
         \/ Fill \/ Release
Switch == Clear \/ Override \/ Pause \/ Abort \/ Silence \/ Load
Firmware == Setup \/ StartDma \/ Activate \/ InTrampoline \/ Switch
Minitel == Fetch \/ ReadBus

Next == Firmware \/ HandlePacket \/ Minitel \/ Transfer \/ Restart
Spec == Init /\ [][Next]_vars
FairSpec == Spec /\ WF_vars(Firmware) /\ WF_vars(Minitel) /\ WF_vars(Transfer)

-----------------------------------------------------------------------------
(* Properties.                                                             *)

Labels == {"set_pins", "enable_bus", "set_register", "run_out", "run_dir", "disable_nops",
           "fill", "start_dma", "activate", "release", "loop", "clear", "operand", "opcode",
           "pause", "abort", "silence", "load"}
Cpus == [on : BOOLEAN, pc : Addresses, op : Bytes, fetching : BOOLEAN,
         slot : {"opcode", "discard", "operand", "first", "second"}]

TypeOK ==
  /\ board \in {"nop", "rst"}
  /\ at \in Labels
  /\ i \in 0 .. MAX_MEM_SIZE
  /\ in_menu \in BOOLEAN /\ size \in Sizes \cup {0}
  /\ mem \in [Addresses -> Bytes]
  /\ bus_enabled \in BOOLEAN /\ nops_disabled \in BOOLEAN
  /\ out_runs \in BOOLEAN /\ dir_runs \in BOOLEAN /\ dma \in BOOLEAN /\ torn \in BOOLEAN
  /\ pins \in Bytes /\ emitted \in Bytes
  /\ latch \in {"paused", "wait_zero", "all"}
  /\ fifo \in Addresses \cup {None}
  /\ sleep \in 0 .. Sleep /\ high \in 0 .. Samples
  /\ cpu \in Cpus
  /\ restarts \in 0 .. MaxRestarts
  /\ running \in Bytes

\* mememu_setup takes the bus over from the 74HCT541: while both drive it, both drive
\* zeros, and from the first fetch on one of them does.
BusIsDriven ==
  /\ (Emulator /\ NopBuffer) => Output = "00"
  /\ cpu.on => (Emulator \/ NopBuffer)

\* The CPU executes zeros, the trampoline's jump, and the menu from its first byte on,
\* and never the jump's operand or a part of the menu, however the bytes are
\* overwritten under it. (A Minitel that restarts while the ROM is cleared does run
\* into the rest of the menu.)
NoStrayExecution ==
  [][(cpu.slot = "opcode" /\ ReadBus /\ ~ torn) =>
       \/ cpu'.op \in {"00", "SJMP"}
       \/ cpu'.op = "menu" /\ (running = "menu" \/ cpu.pc = 0)
       \/ cpu'.op = "rom"]_vars

\* The user's ROM: what the slot holds, then zeros.
UserRom == [a \in Addresses |-> IF a < size THEN "rom" ELSE "00"]

\* mememu_start: the user's ROM is entered at address 0, whatever the CPU did before,
\* and when all of it is there.
EntersAtZero ==
  [][(running # "rom" /\ running' = "rom") => (cpu.pc = 0 /\ mem = UserRom)]_vars

\* From mememu_start on the memory is that ROM, and no command for the menu writes
\* into it; without a menu, the embedded one.
RomStaysWhole ==
  (latch # "paused" /\ ~ in_menu) => mem = (IF board = "nop" THEN UserRom ELSE EmbeddedRom)

\* A CPU in the trampoline gets out of it, to the user's ROM unless it restarts, and
\* once the firmware has seen it there the user's ROM runs in any case.
BootCompletes ==
  /\ (running = "SJMP") ~> (running \in {"menu", "rom"})
  /\ (at = "clear") ~> (running = "rom")
=============================================================================
