--------------------------- MODULE RomSwitch_proofs ---------------------------
(***************************************************************************)
(* What RomSwitch guarantees for every size of memory and of ROM: the      *)
(* user's ROM starts at its first byte, complete, and stays what it is.    *)
(*                                                                         *)
(* The argument follows the firmware. Wiring, Phases and Contents say what *)
(* is set up, and what the memory holds, wherever the firmware is. Bytes   *)
(* of the user's ROM can only be read while the latch passes all the       *)
(* addresses on (Emitting), and then a fetch gets what the memory holds    *)
(* (Fetching). So the CPU is where the latch saw address 0 (Entering),     *)
(* provided that it does not come to that address in the middle of an      *)
(* instruction that leads elsewhere: jumps are at the trampoline and code  *)
(* of the menu is where the menu is (Executing), which in turn needs the   *)
(* pauses of the firmware (Sleeping). The second half says what the CPU    *)
(* executes until then, and after it: nothing but the programs themselves. *)
(***************************************************************************)
EXTENDS RomSwitch, TLAPS

Taking == {"set_pins", "enable_bus", "set_register", "run_out", "run_dir", "disable_nops",
           "fill"}
Leaving == {"clear", "operand", "opcode", "pause", "abort", "silence"}
Serving == {"start_dma", "activate", "release", "loop"}

\* sm_out and sm_dir run once mememu_setup is over, and the pins were set first.
Wiring ==
  /\ pins \in {"00", "FF"}
  /\ at \notin {"set_pins", "enable_bus"} => bus_enabled
  /\ at \notin Taking => out_runs /\ dir_runs
  /\ at \in {"disable_nops", "fill"} => out_runs /\ dir_runs
  /\ at = "run_dir" => out_runs

\* One of the two drives the bus, and while both do they agree.
Driving ==
  /\ nops_disabled <=> board = "nop" /\ at \notin Taking \ {"fill"}
  /\ at \in {"run_out", "run_dir", "disable_nops"} => emitted = "00"
  /\ dir_runs => at \notin {"set_pins", "enable_bus", "set_register", "run_out", "run_dir"}
  /\ board = "nop" \/ cpu.fetching => cpu.on
  /\ board = "rst" /\ cpu.on => at = "loop"

Phases ==
  /\ at \in Taking \cup {"start_dma", "activate", "load", "abort", "silence"} =>
       latch = "paused"
  /\ at \in Taking \cup {"load", "release"} => ~ in_menu
  /\ at \in Leaving => in_menu
  /\ at = "release" => board = "rst"
  /\ at = "load" => board = "nop"
  /\ in_menu => board = "nop"

Final == IF board = "nop" THEN UserRom ELSE EmbeddedRom

Contents ==
  /\ in_menu => mem[TRAMPOLINE_ADDRESS + 2] = "00"
  /\ at = "clear" => i < TRAMPOLINE_ADDRESS /\ \A a \in Addresses : a < i => mem[a] = "00"
  /\ at \in Leaving \ {"clear"} =>
       \A a \in Addresses : a < TRAMPOLINE_ADDRESS => mem[a] = "00"
  /\ at \in Leaving \ {"clear", "operand"} => mem[TRAMPOLINE_ADDRESS + 1] = "00"
  /\ at \in {"pause", "abort", "silence"} => mem[TRAMPOLINE_ADDRESS] = "00"
  /\ at = "load" => i <= size /\ mem = [a \in Addresses |-> IF a < i THEN "rom" ELSE "00"]
  /\ at \in Serving /\ ~ in_menu => mem = Final
  /\ at \in Serving \cup {"load"} /\ ~ in_menu /\ board = "nop" => size \in Sizes

\* Where the jump and the code of the menu can be.
Fits(value, a) ==
  /\ value = "SJMP" => a = TRAMPOLINE_ADDRESS
  /\ value = "menu" => a \in MenuCode
Shape ==
  /\ \A a \in Addresses : Fits(mem[a], a)
  /\ \A a \in Addresses : mem[a] = "rom" => ~ in_menu /\ board = "nop"

Emitting ==
  /\ emitted = "rom" => ~ in_menu /\ latch = "all" /\ board = "nop"
  /\ fifo # None => latch = "all" \/ at = "abort"
  /\ latch # "all" /\ fifo = None => emitted \in {"00", "FF"}

Fetching ==
  latch = "all" /\ cpu.fetching =>
    /\ fifo # None => fifo = Address
    /\ fifo = None => Fits(emitted, Address) /\ (~ in_menu => emitted = mem[Address])

Executing ==
  /\ cpu.slot \in {"operand", "first", "second"} => cpu.pc = TRAMPOLINE_ADDRESS
  /\ cpu.slot = "discard" /\ cpu.op = "menu" => cpu.pc \in MenuCode
  /\ cpu.slot = "discard" /\ cpu.op = "rom" => ~ in_menu /\ latch = "all" /\ board = "nop"

\* A pause after the last byte of the trampoline is cleared lets the CPU fetch a zero.
Sleeping ==
  at = "pause" /\ sleep < Sleep /\ latch = "all" => fifo # None \/ emitted = "00"

Entering ==
  ~ in_menu /\ board = "nop" /\ latch = "all" /\ running # "rom" =>
    \/ cpu.slot = "opcode" /\ cpu.pc = 0
    \/ /\ cpu.slot = "discard" /\ cpu.op \notin {"menu", "rom"}
       /\ cpu.pc = MAX_MEM_SIZE - 1

IInv == /\ TypeOK /\ Wiring /\ Driving /\ Phases /\ Contents /\ Shape
        /\ Emitting /\ Fetching /\ Executing /\ Sleeping /\ Entering

-----------------------------------------------------------------------------
(* Addresses wrap at MAX_MEM_SIZE.                                         *)

LEMMA Sized == MAX_MEM_SIZE \in Nat /\ TRAMPOLINE_ADDRESS \in Nat /\ TRAMPOLINE_ADDRESS > 1
  BY SizesAssumption DEF MAX_MEM_SIZE

\* The address after one, and the one after that.
LEMMA Wraps ==
  ASSUME NEW p \in Addresses
  PROVE  /\ (p + 1) % MAX_MEM_SIZE \in Addresses
         /\ (p + 2) % MAX_MEM_SIZE \in Addresses
         /\ (p + 1) % MAX_MEM_SIZE = 0 <=> p = MAX_MEM_SIZE - 1
         /\ p = TRAMPOLINE_ADDRESS => (p + 2) % MAX_MEM_SIZE = MAX_MEM_SIZE - 1
<1>. DEFINE M == MAX_MEM_SIZE
<1>1. M \in Nat \ {0, 1, 2} /\ p \in 0 .. M - 1
  BY Sized DEF MAX_MEM_SIZE, Addresses
<1>2. \A n \in 0 .. M + 1 : n % M = IF n < M THEN n ELSE n - M
  BY <1>1
<1>. QED
  BY <1>1, <1>2, Sized DEF MAX_MEM_SIZE, Addresses

LEMMA AddressTyped == ASSUME TypeOK PROVE Address \in Addresses
  BY Wraps DEF TypeOK, Address, Cpus

\* Each step keeps the types: first the firmware's place, the memory and the CPU.
LEMMA LabelsTyped ==
  ASSUME TypeOK, Next
  PROVE  at' \in Labels /\ i' \in 0 .. MAX_MEM_SIZE
  BY Sized DEF TypeOK, Labels, Next, Firmware, Setup, Switch, Minitel, Fetch, Transfer,
     ReadBus, Read, Restart, SetPins, EnableBus, SetRegister, RunStateMachines,
     DisableNops, Fill, StartDma, Activate, Release, HandlePacket, InTrampoline, Clear,
     Override, Pause, Abort, Silence, Load, WriteRom, Goto, program, MAX_MEM_SIZE

LEMMA MemoryTyped ==
  ASSUME TypeOK, Next
  PROVE  mem' \in [Addresses -> Bytes]
  BY Sized DEF TypeOK, Bytes, Next, Firmware, Setup, Switch, Minitel, Fetch, Transfer,
     ReadBus, Read, Restart, SetPins, EnableBus, SetRegister, RunStateMachines,
     DisableNops, Fill, StartDma, Activate, Release, HandlePacket, InTrampoline, Clear,
     Override, Pause, Abort, Silence, Load, WriteRom, OverrideAndSleep, Trampoline,
     EmbeddedRom

\* The bytes the firmware sets.
LEMMA BytesTyped == "00" \in Bytes /\ "FF" \in Bytes /\ "SJMP" \in Bytes /\ "rom" \in Bytes
  BY DEF Bytes

LEMMA CpuTyped ==
  ASSUME TypeOK, Next
  PROVE  cpu' \in Cpus /\ running' \in Bytes
<1>1. \A pc \in Addresses : Start(pc) \in Cpus
  BY DEF Start, Cpus, Bytes
<1>2. Start(0) \in Cpus
  BY <1>1, Sized DEF Addresses, MAX_MEM_SIZE
<1>3. CASE ReadBus
  <2>. DEFINE value == IF Emulator THEN Output ELSE IF NopBuffer THEN "00" ELSE "FF"
  <2>1. value \in Bytes
    BY DEF Output, TypeOK, Bytes
  <2>2. /\ Targets(cpu.op, cpu.pc) \subseteq Addresses
        /\ (cpu.pc + 2) % MAX_MEM_SIZE \in Addresses
    <3>1. cpu.pc \in Addresses
      BY DEF TypeOK, Cpus
    <3>2. MenuCode \cup {TRAMPOLINE_ADDRESS} \subseteq Addresses
      BY Sized DEF MenuCode, FlagAddress, MAX_MEM_SIZE, Addresses
    <3>. QED BY <3>1, <3>2, Wraps DEF Targets
  <2>3. Read(value)
    BY <1>3 DEF ReadBus
  <2>4. running' \in Bytes
    BY <2>1, <2>3 DEF Read, TypeOK, Bytes
  <2>5. CASE cpu.slot = "discard"
    <3>1. PICK pc \in Targets(cpu.op, cpu.pc) : cpu' = Start(pc)
      BY <2>3, <2>5 DEF Read
    <3>. QED
      BY <3>1, <2>2, <2>4, <1>1
  <2>6. CASE cpu.slot = "second"
    BY <2>2, <2>3, <2>6, <1>1 DEF Read, TypeOK, Cpus
  <2>7. CASE cpu.slot = "opcode"
    BY <2>1, <2>3, <2>4, <2>7 DEF Read, TypeOK, Cpus
  <2>8. CASE cpu.slot = "operand"
    BY <2>1, <2>3, <2>4, <2>8 DEF Read, TypeOK, Cpus
  <2>9. CASE cpu.slot = "first"
    BY <2>3, <2>4, <2>9 DEF Read, TypeOK, Cpus
  <2>. QED
    BY <2>4, <2>5, <2>6, <2>7, <2>8, <2>9 DEF TypeOK, Cpus
<1>4. CASE Fetch
  BY <1>4 DEF Fetch, TypeOK, Cpus
<1>5. CASE Restart \/ Release
  BY <1>2, <1>5 DEF Restart, Release, TypeOK, Bytes
<1>. QED
  BY <1>3, <1>4, <1>5 DEF TypeOK, Next, Firmware, Setup, Switch, Minitel, Transfer,
     SetPins, EnableBus, SetRegister, RunStateMachines, DisableNops, Fill, StartDma,
     Activate, HandlePacket, InTrampoline, Clear, Override, Pause, Abort, Silence, Load,
     WriteRom, OverrideAndSleep, Quiet, minitel

LEMMA TypeOKInv ==
  ASSUME TypeOK, Next
  PROVE  TypeOK'
<1>0. /\ at' \in Labels /\ i' \in 0 .. MAX_MEM_SIZE /\ mem' \in [Addresses -> Bytes]
      /\ cpu' \in Cpus /\ running' \in Bytes
  BY LabelsTyped, MemoryTyped, CpuTyped
<1>. USE <1>0, BytesTyped DEF TypeOK, Goto, Quiet, wiring, engine, program, minitel
<1>1. CASE Fetch
  BY <1>1, AddressTyped, SizesAssumption DEF Fetch
<1>2. CASE Transfer
  BY <1>2 DEF Transfer
<1>3. CASE HandlePacket
  BY <1>3 DEF HandlePacket
<1>4. CASE SetPins
  BY <1>4 DEF SetPins
<1>5. CASE EnableBus
  BY <1>5 DEF EnableBus
<1>6. CASE SetRegister
  BY <1>6 DEF SetRegister
<1>7. CASE StartDma
  BY <1>7 DEF StartDma
<1>8. CASE Activate
  BY <1>8 DEF Activate
<1>9. CASE RunStateMachines
  <2>1. out_runs' \in BOOLEAN /\ dir_runs' \in BOOLEAN
    BY <1>9 DEF RunStateMachines
  <2>2. UNCHANGED <<in_menu, size, bus_enabled, nops_disabled, pins>>
    BY <1>9 DEF RunStateMachines
  <2>3. UNCHANGED <<board, emitted, latch, dma, fifo, sleep, high, restarts, torn>>
    BY <1>9 DEF RunStateMachines
  <2>. QED
    BY <2>1, <2>2, <2>3
<1>10. CASE DisableNops
  BY <1>10 DEF DisableNops
<1>11. CASE Fill
  BY <1>11 DEF Fill
<1>12. CASE Load
  BY <1>12 DEF Load, WriteRom
<1>13. CASE InTrampoline
  BY <1>13 DEF InTrampoline
<1>14. CASE Pause
  BY <1>14 DEF Pause
<1>15. CASE Abort
  <2>1. dma' = FALSE /\ UNCHANGED <<in_menu, size, wiring, emitted, latch>>
    BY <1>15 DEF Abort
  <2>. QED
    BY <1>15, <2>1 DEF Abort
<1>16. CASE Silence
  BY <1>16 DEF Silence
<1>17. CASE ReadBus
  BY <1>17 DEF ReadBus, Read
<1>18. CASE Restart
  BY <1>18, SizesAssumption DEF Restart
<1>19. CASE Release
  BY <1>19 DEF Release
<1>20. CASE Clear
  BY <1>20, SizesAssumption DEF Clear, WriteRom
<1>21. CASE Override
  BY <1>21, SizesAssumption DEF Override, OverrideAndSleep, WriteRom
<1>. QED
  BY <1>1, <1>2, <1>3, <1>4, <1>5, <1>6, <1>7, <1>8, <1>9, <1>10, <1>11, <1>12, <1>13, <1>14,
     <1>15, <1>16, <1>17, <1>18, <1>19, <1>20, <1>21
     DEF Next, Firmware, Setup, Switch, Minitel

\* A step of the CPU that reads the bus changes nothing but the CPU.
LEMMA Reads ==
  ASSUME ReadBus
  PROVE  /\ UNCHANGED <<board, at, i, in_menu, size, mem, bus_enabled, nops_disabled>>
         /\ UNCHANGED <<pins, emitted, out_runs, dir_runs, latch, dma, fifo, sleep, high>>
         /\ UNCHANGED <<restarts, torn>>
         /\ cpu.fetching /\ fifo = None
  BY DEF ReadBus, Read, program, wiring, engine

LEMMA ReadsCpu ==
  ASSUME TypeOK, ReadBus
  PROVE  ~ cpu'.fetching /\ (cpu.on => cpu'.on)
<1>1. cpu \in Cpus
  BY DEF TypeOK
<1>2. CASE cpu.slot = "opcode" \/ cpu.slot = "operand"
  BY <1>1, <1>2 DEF ReadBus, Read, Cpus
<1>3. CASE cpu.slot = "first"
  BY <1>1, <1>3 DEF ReadBus, Read, Cpus
<1>4. CASE cpu.slot \in {"discard", "second"}
  <2>1. PICK pc : cpu' = Start(pc)
    BY <1>4 DEF ReadBus, Read
  <2>. QED
    BY <2>1 DEF Start
<1>. QED
  BY <1>1, <1>2, <1>3, <1>4 DEF Cpus

\* The CPU reads what sm_out emits, or ones and zeros while the emulator is not set up.
LEMMA ReadsEmitted ==
  ASSUME TypeOK, Wiring, Phases, ReadBus
  PROVE  \E value \in Bytes :
           /\ Read(value)
           /\ value \in {emitted, "00", "FF"}
           /\ latch # "paused" => value = emitted
<1>. DEFINE value == IF Emulator THEN Output ELSE IF NopBuffer THEN "00" ELSE "FF"
<1>1. Read(value)
  BY DEF ReadBus
<1>2. value \in {emitted, "00", "FF"} /\ value \in Bytes
  BY DEF Output, Wiring, TypeOK, Bytes
<1>3. latch # "paused" => value = emitted
  BY DEF Phases, Wiring, Taking, Emulator, Output
<1>. QED
  BY <1>1, <1>2, <1>3

\* Pins, state machines and register are set up one by one, and never undone.
LEMMA WiringInv ==
  ASSUME TypeOK, Wiring, Next
  PROVE  Wiring'
<1>. USE DEF Wiring, Taking, Goto, Quiet, wiring, engine, program, minitel
<1>1. CASE ReadBus
  BY <1>1, Reads
<1>2. CASE Fetch
  BY <1>2 DEF Fetch
<1>3. CASE Transfer \/ Restart \/ SetPins \/ EnableBus \/ SetRegister \/ RunStateMachines
  BY <1>3 DEF Transfer, Restart, SetPins, EnableBus, SetRegister, RunStateMachines
<1>4. CASE DisableNops \/ Fill \/ StartDma \/ Activate \/ Release \/ HandlePacket
  BY <1>4 DEF DisableNops, Fill, Trampoline, EmbeddedRom, StartDma, Activate, Release,
     HandlePacket
<1>5. CASE InTrampoline \/ Clear \/ Override \/ Pause \/ Abort \/ Silence
  BY <1>5 DEF InTrampoline, Clear, WriteRom, Override, OverrideAndSleep, Pause, Abort,
     Silence
<1>6. CASE Load
  BY <1>6 DEF Load, WriteRom
<1>. QED
  BY <1>1, <1>2, <1>3, <1>4, <1>5, <1>6 DEF Next, Firmware, Setup, Switch, Minitel

\* Where the firmware is decides whether it serves, and whether there is a menu.
LEMMA PhasesInv ==
  ASSUME TypeOK, Phases, Next
  PROVE  Phases'
<1>. USE DEF Phases, Taking, Leaving, Goto, Quiet, wiring, engine, program, minitel
<1>1. CASE ReadBus
  BY <1>1, Reads
<1>2. CASE Fetch
  BY <1>2 DEF Fetch, Latched
<1>3. CASE Transfer \/ Restart \/ SetPins \/ EnableBus \/ SetRegister \/ RunStateMachines
  BY <1>3 DEF Transfer, Restart, SetPins, EnableBus, SetRegister, RunStateMachines
<1>4. CASE DisableNops \/ StartDma \/ Release \/ HandlePacket
  BY <1>4 DEF DisableNops, StartDma, Release, HandlePacket
<1>5. CASE Fill
  BY <1>5 DEF Fill
<1>6. CASE Activate
  BY <1>6 DEF Activate, TypeOK
<1>7. CASE InTrampoline \/ Clear \/ Override \/ Pause \/ Abort \/ Silence
  BY <1>7 DEF InTrampoline, Clear, WriteRom, Override, OverrideAndSleep, Pause, Abort,
     Silence
<1>8. CASE Load
  BY <1>8 DEF Load, WriteRom
<1>. QED
  BY <1>1, <1>2, <1>3, <1>4, <1>5, <1>6, <1>7, <1>8
     DEF Next, Firmware, Setup, Switch, Minitel

\* The takeover of the bus: sm_out is there, with a zero, before the 74HCT541 goes.
LEMMA DrivingInv ==
  ASSUME TypeOK, Driving, Phases, Emitting, Next
  PROVE  Driving'
<1>. USE DEF Driving, Phases, Emitting, Taking, Goto, Quiet, wiring, engine, program,
     minitel
<1>1. CASE ReadBus
  BY <1>1, Reads, ReadsCpu
<1>2. CASE Restart
  BY <1>2 DEF Restart, Start
<1>3. CASE Release
  BY <1>3 DEF Release, Start
<1>4. CASE Fetch
  BY <1>4 DEF Fetch
<1>5. CASE Transfer \/ SetPins \/ EnableBus \/ SetRegister \/ RunStateMachines
  BY <1>5 DEF Transfer, SetPins, EnableBus, SetRegister, RunStateMachines
<1>6. CASE DisableNops
  BY <1>6 DEF DisableNops
<1>7. CASE Fill \/ StartDma \/ Activate \/ HandlePacket \/ InTrampoline \/ Clear
  BY <1>7 DEF Fill, Trampoline, EmbeddedRom, StartDma, Activate, HandlePacket,
     InTrampoline, Clear, WriteRom
<1>8. CASE Override \/ Pause \/ Abort \/ Silence \/ Load
  BY <1>8 DEF Override, OverrideAndSleep, WriteRom, Pause, Abort, Silence, Load
<1>. QED
  BY <1>1, <1>2, <1>3, <1>4, <1>5, <1>6, <1>7, <1>8
     DEF Next, Firmware, Setup, Switch, Minitel

\* What each phase has written is still there in the next.
LEMMA ContentsInv ==
  ASSUME TypeOK, Phases, Contents, Next
  PROVE  Contents'
<1>. USE Sized, SizesAssumption DEF TypeOK, Phases, Contents, Taking, Leaving, Serving,
     Final, UserRom, EmbeddedRom, Addresses, MAX_MEM_SIZE, FlagAddress, MenuCode, Goto,
     Quiet, wiring, engine, program, minitel
<1>1. CASE Fill
  <2>1. at' = "start_dma" /\ board' = board /\ size' = size /\ (in_menu' <=> board = "nop")
    BY <1>1 DEF Fill
  <2>2. CASE board = "nop"
    BY <1>1, <2>1, <2>2 DEF Fill, Trampoline
  <2>3. CASE board # "nop"
    BY <1>1, <2>1, <2>3 DEF Fill
  <2>. QED
    BY <2>2, <2>3
<1>2. CASE HandlePacket
  BY <1>2 DEF HandlePacket
<1>3. CASE Clear
  BY <1>3 DEF Clear, WriteRom
<1>4. CASE Override
  BY <1>4 DEF Override, OverrideAndSleep, WriteRom
<1>5. CASE Silence
  BY <1>5 DEF Silence
<1>6. CASE Load
  BY <1>6 DEF Load, WriteRom
<1>7. CASE ReadBus
  BY <1>7, Reads
<1>8. CASE Fetch
  BY <1>8 DEF Fetch
<1>9. CASE Transfer \/ Restart \/ SetPins \/ EnableBus \/ SetRegister \/ RunStateMachines
  BY <1>9 DEF Transfer, Restart, SetPins, EnableBus, SetRegister, RunStateMachines
<1>10. CASE DisableNops \/ StartDma \/ Activate \/ Release \/ InTrampoline \/ Pause
  BY <1>10 DEF DisableNops, StartDma, Activate, Release, InTrampoline, Pause
<1>11. CASE Abort
  BY <1>11 DEF Abort
<1>. QED
  BY <1>1, <1>2, <1>3, <1>4, <1>5, <1>6, <1>7, <1>8, <1>9, <1>10, <1>11
     DEF Next, Firmware, Setup, Switch, Minitel

\* Only load_rom_from_data_partition writes bytes of the user's ROM.
LEMMA ShapeInv ==
  ASSUME TypeOK, Phases, Shape, Contents, Next
  PROVE  Shape'
<1>. USE Sized, SizesAssumption DEF TypeOK, Phases, Contents, Shape, Fits, Taking,
     Leaving, Addresses, MAX_MEM_SIZE, FlagAddress, MenuCode, Goto, Quiet, wiring, engine,
     program, minitel
<1>1. CASE Fill
  BY <1>1 DEF Fill, Trampoline, EmbeddedRom
<1>2. CASE HandlePacket
  BY <1>2 DEF HandlePacket
<1>3. CASE Clear
  BY <1>3 DEF Clear, WriteRom
<1>4. CASE Override
  BY <1>4 DEF Override, OverrideAndSleep, WriteRom
<1>5. CASE Silence
  BY <1>5 DEF Silence
<1>6. CASE Load
  BY <1>6 DEF Load, WriteRom
<1>7. CASE ReadBus
  BY <1>7, Reads
<1>8. CASE Fetch
  BY <1>8 DEF Fetch
<1>9. CASE Transfer \/ Restart \/ SetPins \/ EnableBus \/ SetRegister \/ RunStateMachines
  BY <1>9 DEF Transfer, Restart, SetPins, EnableBus, SetRegister, RunStateMachines
<1>10. CASE DisableNops \/ StartDma \/ Activate \/ Release \/ InTrampoline \/ Pause
  BY <1>10 DEF DisableNops, StartDma, Activate, Release, InTrampoline, Pause
<1>11. CASE Abort
  BY <1>11 DEF Abort
<1>. QED
  BY <1>1, <1>2, <1>3, <1>4, <1>5, <1>6, <1>7, <1>8, <1>9, <1>10, <1>11
     DEF Next, Firmware, Setup, Switch, Minitel

\* mememu_stop leaves a zero behind: before it the last bytes fetched are zeros.
LEMMA EmittingInv ==
  ASSUME TypeOK, Phases, Contents, Shape, Emitting, Sleeping, Next
  PROVE  Emitting'
<1>. USE Sized, SizesAssumption, NoneAssumption DEF TypeOK, Phases, Contents, Shape,
     Emitting, Sleeping, Taking, Leaving, Addresses, MAX_MEM_SIZE, FlagAddress, MenuCode,
     Goto, Quiet, wiring, engine, program, minitel
<1>1. CASE Fetch
  BY <1>1 DEF Fetch, Latched
<1>2. CASE Transfer
  BY <1>2 DEF Transfer
<1>3. CASE Pause
  BY <1>3 DEF Pause
<1>4. CASE ReadBus
  BY <1>4, Reads
<1>5. CASE Restart \/ SetPins \/ EnableBus \/ SetRegister \/ RunStateMachines \/ DisableNops
  BY <1>5 DEF Restart, SetPins, EnableBus, SetRegister, RunStateMachines, DisableNops
<1>6. CASE Fill \/ StartDma \/ Activate \/ Release \/ HandlePacket \/ InTrampoline
  BY <1>6 DEF Fill, Trampoline, EmbeddedRom, StartDma, Activate, Release, HandlePacket,
     InTrampoline
<1>7. CASE Clear \/ Override \/ Abort \/ Silence \/ Load
  BY <1>7 DEF Clear, WriteRom, Override, OverrideAndSleep, Abort, Silence, Load
<1>. QED
  BY <1>1, <1>2, <1>3, <1>4, <1>5, <1>6, <1>7 DEF Next, Firmware, Setup, Switch, Minitel

\* While the latch passes on all the addresses, the value is that of the address.
LEMMA FetchingInv ==
  ASSUME TypeOK, Phases, Shape, Emitting, Fetching, Next
  PROVE  Fetching'
<1>. USE DEF TypeOK, Phases, Shape, Emitting, Fetching, Address, Taking, Leaving, Goto,
     Quiet, wiring, engine, program, minitel
<1>1. CASE Fetch
  <2>1. Address' = Address /\ UNCHANGED <<emitted, mem, in_menu>>
    BY <1>1 DEF Fetch, Address, TypeOK, Cpus, program
  <2>2. latch' = "all" => fifo' = Address
    BY <1>1 DEF Fetch, Latched
  <2>. QED
    BY <1>1, <2>1, <2>2, AddressTyped, NoneAssumption DEF Fetching
<1>2. CASE Transfer
  BY <1>2 DEF Transfer
<1>3. CASE ReadBus
  BY <1>3, Reads, ReadsCpu
<1>4. CASE Restart \/ Release
  BY <1>4 DEF Restart, Release, Start
<1>5. CASE HandlePacket
  BY <1>5 DEF HandlePacket
<1>6. CASE Clear \/ Override \/ Load \/ Fill
  BY <1>6 DEF Clear, WriteRom, Override, OverrideAndSleep, Load, Fill, Trampoline,
     EmbeddedRom
<1>7. CASE SetPins \/ EnableBus \/ SetRegister \/ RunStateMachines \/ DisableNops \/ StartDma
  BY <1>7 DEF SetPins, EnableBus, SetRegister, RunStateMachines, DisableNops, StartDma
<1>8. CASE Activate \/ InTrampoline \/ Pause \/ Abort \/ Silence
  BY <1>8 DEF Activate, InTrampoline, Pause, Abort, Silence
<1>. QED
  BY <1>1, <1>2, <1>3, <1>4, <1>5, <1>6, <1>7, <1>8
     DEF Next, Firmware, Setup, Switch, Minitel

\* The jump is executed at the trampoline, the menu's code where the menu is.
LEMMA ExecutingInv ==
  ASSUME TypeOK, Wiring, Phases, Emitting, Fetching, Executing, Next
  PROVE  Executing'
<1>. USE DEF Phases, Emitting, Executing, Taking, Leaving, Goto, Quiet, wiring, engine,
     program, minitel
<1>1. CASE ReadBus
  <2>1. PICK value \in Bytes :
          /\ Read(value)
          /\ value \in {emitted, "00", "FF"}
          /\ latch # "paused" => value = emitted
    BY <1>1, ReadsEmitted
  <2>2. CASE cpu.slot = "opcode"
    <3>1. Fits(value, cpu.pc)
      BY <1>1, <2>1, <2>2, Reads DEF Emitting, Fetching, Fits, Address, TypeOK
    <3>2. value = "rom" => ~ in_menu /\ latch = "all" /\ board = "nop"
      BY <2>1 DEF Emitting
    <3>3. UNCHANGED <<in_menu, latch, board>>
      BY <1>1, Reads
    <3>4. cpu' = [cpu EXCEPT !.op = value, !.fetching = FALSE,
                             !.slot = IF value = "SJMP" THEN "operand" ELSE "discard"]
      BY <2>1, <2>2 DEF Read
    <3>5. cpu'.pc = cpu.pc /\ cpu'.op = value
          /\ cpu'.slot = IF value = "SJMP" THEN "operand" ELSE "discard"
      BY <3>4 DEF TypeOK, Cpus
    <3>. QED
      BY <3>1, <3>2, <3>3, <3>5 DEF Fits, Executing
  <2>3. CASE cpu.slot \in {"operand", "first"}
    <3>1. cpu'.pc = cpu.pc /\ cpu'.slot \in {"first", "second"}
      BY <2>1, <2>3 DEF Read, TypeOK, Cpus
    <3>. QED
      BY <2>3, <3>1 DEF Executing
  <2>4. CASE cpu.slot \in {"discard", "second"}
    <3>1. PICK pc : cpu' = Start(pc)
      BY <2>1, <2>4 DEF Read
    <3>. QED
      BY <3>1 DEF Start, Executing
  <2>. QED
    BY <2>2, <2>3, <2>4 DEF TypeOK, Cpus
<1>2. CASE Fetch
  BY <1>2 DEF Fetch, TypeOK, Cpus
<1>3. CASE Restart \/ Release
  BY <1>3 DEF Restart, Release, Start
<1>4. CASE Pause \/ Silence \/ Fill
  BY <1>4 DEF Pause, Silence, Fill, Trampoline, EmbeddedRom
<1>5. CASE Transfer \/ SetPins \/ EnableBus \/ SetRegister \/ RunStateMachines \/ DisableNops
  BY <1>5 DEF Transfer, SetPins, EnableBus, SetRegister, RunStateMachines, DisableNops
<1>6. CASE StartDma \/ Activate \/ HandlePacket \/ InTrampoline \/ Clear \/ Override
  BY <1>6 DEF StartDma, Activate, HandlePacket, InTrampoline, Clear, WriteRom, Override,
     OverrideAndSleep
<1>7. CASE Abort \/ Load
  BY <1>7 DEF Abort, Load, WriteRom
<1>. QED
  BY <1>1, <1>2, <1>3, <1>4, <1>5, <1>6, <1>7 DEF Next, Firmware, Setup, Switch, Minitel

\* A pause of a fetch after the trampoline is gone is enough to emit a zero.
LEMMA SleepingInv ==
  ASSUME TypeOK, Phases, Contents, Sleeping, Next
  PROVE  Sleeping'
<1>. USE Sized, SizesAssumption, NoneAssumption DEF TypeOK, Phases, Contents, Sleeping,
     Leaving, Goto, Quiet, wiring, engine, program, minitel
<1>1. CASE Fetch
  BY <1>1, AddressTyped DEF Fetch, Latched
<1>2. CASE Transfer
  BY <1>2 DEF Transfer, Addresses, MAX_MEM_SIZE
<1>3. CASE ReadBus
  BY <1>3, Reads
<1>4. CASE Restart \/ SetPins \/ EnableBus \/ SetRegister \/ RunStateMachines \/ DisableNops
  BY <1>4 DEF Restart, SetPins, EnableBus, SetRegister, RunStateMachines, DisableNops
<1>5. CASE Fill \/ StartDma \/ Activate \/ Release \/ HandlePacket \/ InTrampoline
  BY <1>5 DEF Fill, Trampoline, EmbeddedRom, StartDma, Activate, Release, HandlePacket,
     InTrampoline
<1>6. CASE Clear \/ Override \/ Pause \/ Abort \/ Silence \/ Load
  BY <1>6 DEF Clear, WriteRom, Override, OverrideAndSleep, Pause, Abort, Silence, Load
<1>. QED
  BY <1>1, <1>2, <1>3, <1>4, <1>5, <1>6 DEF Next, Firmware, Setup, Switch, Minitel

\* The latch starts at address 0, and the CPU's first instruction there is the ROM's.
LEMMA EnteringInv ==
  ASSUME TypeOK, Wiring, Phases, Contents, Emitting, Fetching, Executing, Entering, Next
  PROVE  Entering'
<1>. USE DEF Phases, Entering, Taking, Leaving, Goto, Quiet, wiring, engine, program,
     minitel
<1>1. CASE Fetch
  <2>1. UNCHANGED <<in_menu, board, running>> /\ UNCHANGED <<cpu.slot, cpu.pc, cpu.op>>
    BY <1>1 DEF Fetch, TypeOK, Cpus, program
  <2>2. CASE latch = "all"
    BY <2>1, <2>2 DEF Entering
  <2>3. CASE ~ Latched(Address)
    BY <1>1, <2>1, <2>3 DEF Fetch, Entering
  <2>4. CASE latch = "wait_zero" /\ Address = 0
    <3>1. /\ cpu.pc \in Addresses
          /\ cpu.pc = TRAMPOLINE_ADDRESS => (cpu.pc + 2) % MAX_MEM_SIZE # 0
      BY Wraps, Sized DEF TypeOK, Cpus, MAX_MEM_SIZE
    <3>2. cpu.slot \in {"opcode", "discard"}
      BY <2>4, <3>1, Wraps, Sized DEF Executing, Address, TypeOK, Cpus, MAX_MEM_SIZE
    <3>3. CASE cpu.slot = "opcode"
      BY <2>1, <2>4, <3>3 DEF Entering, Address
    <3>4. CASE cpu.slot = "discard"
      <4>1. cpu.pc = MAX_MEM_SIZE - 1
        BY <2>4, <3>1, <3>4, Wraps DEF Address
      <4>. QED
        BY <2>1, <2>4, <3>4, <4>1, Sized DEF Entering, Executing, MenuCode, FlagAddress,
           MAX_MEM_SIZE
    <3>. QED
      BY <3>2, <3>3, <3>4
  <2>. QED
    BY <2>2, <2>3, <2>4 DEF Latched
<1>2. CASE ReadBus
  <2>. SUFFICES ASSUME ~ in_menu, board = "nop", latch = "all", running' # "rom"
                PROVE  Entering'
    BY <1>2, Reads DEF Entering
  <2>1. PICK value \in Bytes : Read(value) /\ value = emitted
    BY <1>2, ReadsEmitted
  <2>2. mem = UserRom /\ size \in Sizes
    <3>1. at = "loop"
      BY DEF Phases, TypeOK, Labels, Taking, Leaving
    <3>. QED
      BY <3>1 DEF Contents, Serving, Final
  <2>3. value = mem[Address]
    BY <1>2, <2>1, Reads DEF Fetching
  <2>4. value \in {"rom", "00"}
    BY <2>2, <2>3, AddressTyped DEF UserRom
  <2>5. running # "rom"
    BY <2>1, <2>4 DEF Read
  <2>6. CASE cpu.slot = "opcode" /\ cpu.pc = 0
    <3>1. 0 \in Addresses /\ 0 < size
      BY <2>2, Sized, SizesAssumption DEF Addresses, MAX_MEM_SIZE
    <3>2. value = "rom"
      BY <2>2, <2>3, <2>6, <3>1 DEF UserRom, Address
    <3>. QED
      BY <2>1, <2>6, <3>2 DEF Read
  <2>7. CASE cpu.slot = "discard"
    BY <2>1, <2>5, <2>7, Wraps, Sized DEF Read, Entering, Targets, Start, MAX_MEM_SIZE
  <2>. QED
    BY <2>5, <2>6, <2>7 DEF Entering
<1>3. CASE Restart \/ Release
  BY <1>3 DEF Restart, Release, Start
<1>4. CASE Transfer \/ SetPins \/ EnableBus \/ SetRegister \/ RunStateMachines \/ DisableNops
  BY <1>4 DEF Transfer, SetPins, EnableBus, SetRegister, RunStateMachines, DisableNops
<1>5. CASE Fill \/ StartDma \/ Activate \/ HandlePacket \/ InTrampoline \/ Clear
  BY <1>5 DEF Fill, Trampoline, EmbeddedRom, StartDma, Activate, HandlePacket,
     InTrampoline, Clear, WriteRom
<1>6. CASE Override \/ Pause \/ Abort \/ Silence \/ Load
  BY <1>6 DEF Override, OverrideAndSleep, WriteRom, Pause, Abort, Silence, Load
<1>. QED
  BY <1>1, <1>2, <1>3, <1>4, <1>5, <1>6 DEF Next, Firmware, Setup, Switch, Minitel

-----------------------------------------------------------------------------
(* The invariant, and what follows from it.                                *)

LEMMA InitInv == ASSUME Init PROVE IInv
<1>. USE Sized, SizesAssumption DEF Init
<1>1. TypeOK
  <2>1. PICK pc \in Addresses : cpu = [Start(pc) EXCEPT !.on = (board = "nop")]
    OBVIOUS
  <2>2. cpu \in Cpus
    BY <2>1 DEF Cpus, Start, Bytes
  <2>3. mem \in [Addresses -> Bytes] /\ pins \in Bytes /\ emitted \in Bytes /\ running \in Bytes
    BY DEF Bytes
  <2>4. at \in Labels /\ i \in 0 .. MAX_MEM_SIZE
    BY DEF Labels
  <2>5. sleep \in 0 .. Sleep /\ high \in 0 .. Samples /\ restarts \in 0 .. MaxRestarts
    OBVIOUS
  <2>. QED
    BY <2>2, <2>3, <2>4, <2>5 DEF TypeOK
<1>2. Wiring /\ Driving /\ Phases
  BY DEF Wiring, Driving, Phases, Taking, Leaving, Start
<1>3. Contents /\ Shape
  BY DEF Contents, Shape, Fits, Taking, Leaving, Serving
<1>4. Emitting /\ Fetching /\ Executing /\ Sleeping /\ Entering
  BY DEF Emitting, Fetching, Executing, Sleeping, Entering, Start
<1>. QED
  BY <1>1, <1>2, <1>3, <1>4 DEF IInv

LEMMA NextInv == ASSUME IInv, [Next]_vars PROVE IInv'
<1>1. CASE Next
  BY <1>1, TypeOKInv, WiringInv, DrivingInv, PhasesInv, ContentsInv, ShapeInv,
     EmittingInv, FetchingInv, ExecutingInv, SleepingInv, EnteringInv DEF IInv
<1>2. CASE UNCHANGED vars
  <2>. USE <1>2 DEF vars, IInv
  <2>1. TypeOK' /\ Wiring' /\ Driving' /\ Phases'
    BY DEF TypeOK, Wiring, Driving, Phases
  <2>2. Contents' /\ Shape' /\ Emitting' /\ Sleeping'
    BY DEF Contents, Final, UserRom, Shape, Emitting, Sleeping
  <2>3. Fetching' /\ Executing' /\ Entering'
    BY DEF Fetching, Address, Executing, Entering
  <2>. QED
    BY <2>1, <2>2, <2>3
<1>. QED
  BY <1>1, <1>2

\* The invariant of the emulated memory, the CPU and the firmware.
THEOREM Invariant == Spec => []IInv
  BY InitInv, NextInv, PTL DEF Spec

\* The types of the model.
THEOREM TypeCorrect == Spec => []TypeOK
<1>1. IInv => TypeOK
  BY DEF IInv
<1>. QED
  BY <1>1, Invariant, PTL

\* mememu_setup: at no moment is the CPU's bus without a driver, or with two that differ.
THEOREM AlwaysDriven == Spec => []BusIsDriven
<1>1. IInv => BusIsDriven
  <2>. SUFFICES ASSUME IInv PROVE BusIsDriven
    OBVIOUS
  <2>1. (bus_enabled /\ out_runs /\ dir_runs) \/ at \in Taking \ {"disable_nops", "fill"}
    BY DEF IInv, Wiring, TypeOK, Labels, Taking
  <2>2. Emulator /\ NopBuffer => at = "disable_nops"
    BY <2>1 DEF IInv, TypeOK, Labels, Driving, Taking, Emulator, NopBuffer
  <2>3. at = "disable_nops" => Output = "00"
    BY DEF IInv, Driving, Wiring, Output
  <2>4. cpu.on => Emulator \/ NopBuffer
    BY <2>1 DEF IInv, Driving, TypeOK, Taking, Emulator, NopBuffer
  <2>. QED
    BY <2>2, <2>3, <2>4 DEF BusIsDriven
<1>. QED
  BY <1>1, Invariant, PTL

\* mememu_start: from then on the memory is the user's ROM, whatever commands arrive.
THEOREM StaysWhole == Spec => []RomStaysWhole
<1>1. IInv => RomStaysWhole
  <2>. SUFFICES ASSUME IInv, latch # "paused", ~ in_menu PROVE mem = Final
    BY DEF RomStaysWhole, Final
  <2>1. at \in Serving
    BY DEF IInv, Phases, TypeOK, Labels, Taking, Leaving, Serving
  <2>. QED
    BY <2>1 DEF IInv, Contents
<1>. QED
  BY <1>1, Invariant, PTL

\* The user's ROM is entered at its first byte, and all of it is there.
LEMMA EntryStep ==
  ASSUME IInv, Next, running # "rom", running' = "rom"
  PROVE  cpu.pc = 0 /\ mem = UserRom
<1>1. ReadBus
  BY DEF IInv, Next, Firmware, Setup, Switch, Minitel, Fetch, Transfer, Restart, SetPins,
     EnableBus, SetRegister, RunStateMachines, DisableNops, Fill, StartDma, Activate,
     Release, HandlePacket, InTrampoline, Clear, WriteRom, Override, OverrideAndSleep,
     Pause, Abort, Silence, Load, Quiet, minitel
<1>2. PICK value \in Bytes : Read(value) /\ value \in {emitted, "00", "FF"}
  BY <1>1, ReadsEmitted DEF IInv
<1>3. cpu.slot = "opcode" /\ emitted = "rom"
  BY <1>2 DEF Read
<1>4. ~ in_menu /\ latch = "all" /\ board = "nop"
  BY <1>3 DEF IInv, Emitting
<1>5. cpu.pc = 0
  BY <1>3, <1>4 DEF IInv, Entering
<1>6. at \in Serving
  BY <1>4 DEF IInv, Phases, TypeOK, Labels, Taking, Leaving, Serving
<1>. QED
  BY <1>4, <1>5, <1>6 DEF IInv, Contents, Final

THEOREM StartsAtZero == Spec => EntersAtZero
<1>1. IInv /\ [Next]_vars =>
        [(running # "rom" /\ running' = "rom") => (cpu.pc = 0 /\ mem = UserRom)]_vars
  BY EntryStep
<1>. QED
  BY <1>1, Invariant, PTL DEF Spec, EntersAtZero

-----------------------------------------------------------------------------
(* What the CPU executes. Until the latch has seen address 0 it walks      *)
(* through zeros (Zeros), and passes the trampoline in fewer samples than  *)
(* the trace has (Passing): so once the firmware sees it there, it is in   *)
(* the jump (Serves). From then on Overwriting follows it through the      *)
(* pauses of the firmware, with the bytes that can have been fetched just  *)
(* before they were overwritten (Stale).                                   *)

Last == MAX_MEM_SIZE - 1      \* of the addresses

\* An emulator that is not serving answers zero, from its reset on.
Zeros ==
  latch # "all" /\ fifo = None /\ at \notin {"set_pins", "enable_bus", "set_register"} =>
    emitted = "00"

\* The trampoline is there until the firmware overwrites it.
Jump ==
  /\ in_menu /\ at \in Serving => \A a \in MenuCode : mem[a] = "menu"
  /\ in_menu /\ at \in Serving \cup {"clear", "operand", "opcode"} =>
       mem[TRAMPOLINE_ADDRESS] = "SJMP"
  /\ in_menu /\ at \in Serving \cup {"clear", "operand"} =>
       mem[TRAMPOLINE_ADDRESS + 1] = "FE"

\* Where the CPU can be: in zeros at some addresses, in the menu, in the jump.
Walk(pcs) ==
  /\ cpu.pc \in pcs
  /\ cpu.slot = "opcode" \/ (cpu.slot = "discard" /\ cpu.op = "00")
InMenu ==
  \/ cpu.slot = "opcode" /\ cpu.pc = 0
  \/ /\ cpu.slot = "opcode" \/ (cpu.slot = "discard" /\ cpu.op = "menu")
     /\ cpu.pc \in MenuCode /\ running = "menu"
InJump(operands) ==
  /\ cpu.pc = TRAMPOLINE_ADDRESS /\ cpu.slot # "discard"
  /\ cpu.slot \in {"first", "second"} => cpu.op \in operands

\* How far the CPU is: an instruction of one byte fetches two.
Way == 2 * cpu.pc + (CASE cpu.slot = "opcode" /\ ~ cpu.fetching -> 0
                       [] cpu.slot = "discard" /\ cpu.fetching -> 2
                       [] OTHER -> 1)

\* The menu is still to come, or is served.
Before == board = "nop" /\ (at \in Taking \/ (at \in Serving /\ in_menu))

\* A CPU that walks through the trampoline is sampled there six times.
Passing ==
  Before /\ latch # "all" =>
    /\ Walk(Addresses)
    /\ high = 0 \/ (high + 2 * TRAMPOLINE_ADDRESS <= Way + 1 /\ Way < 2 * Last + 2)

\* From address 0 on it is in the menu, or where that jumps to: in the trampoline.
Serves ==
  Before /\ latch = "all" =>
    \/ high = 0 /\ (InMenu \/ (cpu.fetching /\ cpu.slot = "discard" /\ Walk({Last})))
    \/ InJump({"FE"})

\* The board without a menu only has code of that kind.
Alone ==
  board = "rst" =>
    /\ at = "release" => latch = "wait_zero"
    /\ cpu.on => /\ InMenu
                 /\ latch = "all" \/ (latch = "wait_zero" /\ cpu = Start(0))

\* The firmware overwrites the memory under a CPU in the jump, or one that restarted.
Overwriting ==
  ~ torn =>
    /\ at = "clear" => InJump({"FE"})
    /\ at = "operand" => InJump({"FE"}) \/ Walk(0 .. TRAMPOLINE_ADDRESS - 1)
    /\ at = "opcode" =>
         InJump({"FE", "00"}) \/ Walk((0 .. TRAMPOLINE_ADDRESS - 1) \cup {Last})
    /\ at = "pause" => InJump({"FE", "00"}) \/ Walk(Addresses)

\* All of that happens under a latch that passes the addresses on.
Latching == at \in {"clear", "operand", "opcode", "pause"} => latch = "all"

\* A byte that is overwritten between its fetch and the CPU's read.
Stale ==
  in_menu /\ latch = "all" /\ cpu.fetching /\ fifo = None /\ ~ torn =>
    \/ emitted = mem[Address]
    \/ at \in {"loop", "clear"} /\ Address = FlagAddress
    \/ at \in {"opcode", "pause"} /\ cpu.slot = "operand" /\ emitted = "FE"
    \/ at = "pause" /\ Address = TRAMPOLINE_ADDRESS /\ emitted = "SJMP"

\* The ROM that a restart tears is never that of a menu that is still served.
Torn == Before => ~ torn

\* What the emulator and its memory do for the CPU, wherever that is; and all of it.
Served == Zeros /\ Jump /\ Latching /\ Stale /\ Torn
ExecutionInv == IInv /\ Served /\ Passing /\ Serves /\ Alone /\ Overwriting

-----------------------------------------------------------------------------
(* Steps of the CPU.                                                       *)

\* What a read of the bus does to the CPU, instruction by instruction.
LEMMA CpuReads ==
  ASSUME TypeOK, NEW value \in Bytes, Read(value)
  PROVE  /\ ~ cpu'.fetching
         /\ cpu.slot = "opcode" =>
              /\ cpu'.pc = cpu.pc /\ cpu'.op = value
              /\ cpu'.slot = IF value = "SJMP" THEN "operand" ELSE "discard"
              /\ value = "menu" => running' = "menu"
         /\ cpu.slot = "discard" =>
              /\ cpu'.slot = "opcode" /\ cpu'.pc \in Targets(cpu.op, cpu.pc)
              /\ running' = running
         /\ cpu.slot = "operand" =>
              cpu'.pc = cpu.pc /\ cpu'.op = value /\ cpu'.slot = "first"
         /\ cpu.slot = "first" =>
              cpu'.pc = cpu.pc /\ cpu'.op = cpu.op /\ cpu'.slot = "second"
         /\ cpu.slot = "second" =>
              /\ cpu'.slot = "opcode"
              /\ cpu'.pc = IF cpu.op = "FE" THEN cpu.pc ELSE (cpu.pc + 2) % MAX_MEM_SIZE
<1>0. cpu \in Cpus
  BY DEF TypeOK
<1>1. CASE cpu.slot = "opcode"
  BY <1>0, <1>1 DEF Read, Cpus
<1>2. CASE cpu.slot = "discard"
  <2>1. PICK pc \in Targets(cpu.op, cpu.pc) : cpu' = Start(pc)
    BY <1>2 DEF Read
  <2>. QED
    BY <1>2, <2>1 DEF Start, Read
<1>3. CASE cpu.slot \in {"operand", "first"}
  BY <1>0, <1>3 DEF Read, Cpus
<1>4. CASE cpu.slot = "second"
  BY <1>4 DEF Read, Start
<1>. QED
  BY <1>0, <1>1, <1>2, <1>3, <1>4 DEF Cpus

\* A fetch moves neither the CPU nor its address.
LEMMA Fetches ==
  ASSUME TypeOK, Fetch
  PROVE  /\ UNCHANGED <<board, at, i, in_menu, mem, emitted, running, torn>>
         /\ UNCHANGED <<cpu.slot, cpu.pc, cpu.op, cpu.on, Address>>
         /\ ~ cpu.fetching /\ cpu'.fetching /\ cpu.on
         /\ latch' = "all" <=> Latched(Address)
         /\ fifo = None /\ (latch' = "all" => fifo' = Address)
         /\ high' = IF Address < TRAMPOLINE_ADDRESS THEN 0
                    ELSE IF high < Samples THEN high + 1 ELSE high
<1>1. cpu' = [cpu EXCEPT !.fetching = TRUE] /\ cpu \in Cpus
  BY DEF Fetch, TypeOK
<1>2. cpu'.fetching /\ UNCHANGED <<cpu.slot, cpu.pc, cpu.op, cpu.on>>
  BY <1>1 DEF Cpus
<1>. QED
  BY <1>2 DEF Fetch, Latched, Address, program

\* The firmware's steps do not touch the CPU, but for the release of its reset.
LEMMA Others ==
  ASSUME Next, ~ Fetch, ~ ReadBus, ~ Restart, ~ Release
  PROVE  UNCHANGED <<board, cpu, high, running, torn>>
<1>. USE DEF Quiet, minitel
<1>1. CASE Transfer \/ HandlePacket \/ InTrampoline \/ SetPins \/ EnableBus \/ SetRegister
  BY <1>1 DEF Transfer, HandlePacket, InTrampoline, SetPins, EnableBus, SetRegister
<1>2. CASE RunStateMachines \/ DisableNops \/ Fill \/ StartDma \/ Activate \/ Clear
  BY <1>2 DEF RunStateMachines, DisableNops, Fill, StartDma, Activate, Clear
<1>3. CASE Override \/ Pause \/ Abort \/ Silence \/ Load
  BY <1>3 DEF Override, OverrideAndSleep, Pause, Abort, Silence, Load
<1>. QED
  BY <1>1, <1>2, <1>3 DEF Next, Firmware, Setup, Switch, Minitel

\* A CPU in zeros goes from each address to the next.
LEMMA Following ==
  ASSUME NEW p \in Addresses
  PROVE  (p + 1) % MAX_MEM_SIZE = IF p = Last THEN 0 ELSE p + 1
<1>. DEFINE M == MAX_MEM_SIZE
<1>1. M \in Nat \ {0, 1, 2} /\ p \in 0 .. M - 1
  BY Sized DEF MAX_MEM_SIZE, Addresses
<1>2. \A n \in 0 .. M : n % M = IF n < M THEN n ELSE 0
  BY <1>1
<1>. QED
  BY <1>1, <1>2 DEF Last

\* What the CPU reads: zeros, or what the emulator emits.
LEMMA ReadsZeros ==
  ASSUME IInv, Zeros, ReadBus
  PROVE  \E value \in Bytes :
           Read(value) /\ value = (IF latch = "all" THEN emitted ELSE "00")
<1>. DEFINE value == IF Emulator THEN Output ELSE IF NopBuffer THEN "00" ELSE "FF"
<1>0. /\ TypeOK /\ Wiring /\ Driving /\ Phases
      /\ cpu.fetching /\ fifo = None
  BY Reads DEF IInv
<1>1. Read(value)
  BY DEF ReadBus
<1>2. value \in Bytes
  BY <1>0 DEF Output, TypeOK, Bytes
<1>3. CASE latch = "all"
  BY <1>0, <1>3, <1>1, <1>2 DEF Phases, Wiring, Taking, Emulator, Output
<1>4. CASE latch # "all"
  <2>1. Emulator => Output = "00"
    <3>. SUFFICES ASSUME Emulator PROVE out_runs /\ emitted = "00"
      BY DEF Output
    <3>1. at \notin {"set_pins", "enable_bus", "set_register", "run_out", "run_dir"}
      BY <1>0 DEF Emulator, Driving
    <3>. QED
      BY <3>1, <1>0, <1>4 DEF Zeros, Wiring, Taking, TypeOK, Labels
  <2>2. ~ Emulator => NopBuffer
    <3>1. CASE board = "nop"
      BY <3>1, <1>0 DEF NopBuffer, Emulator, Driving, Wiring, Taking
    <3>2. CASE board = "rst"
      BY <3>2, <1>0 DEF Driving, Emulator, Wiring, Taking
    <3>. QED
      BY <3>1, <3>2, <1>0 DEF TypeOK
  <2>. QED
    BY <2>1, <2>2, <1>1, <1>2, <1>4
<1>. QED
  BY <1>3, <1>4

\* mememu_stop leaves a zero behind, and rxf_putget starts with one.
LEMMA ZerosInv ==
  ASSUME IInv, Zeros, Next
  PROVE  Zeros'
<1>. USE NoneAssumption DEF IInv, Zeros, Goto, Quiet, wiring, engine, program, minitel
<1>1. CASE Fetch
  BY <1>1 DEF Fetch
<1>2. CASE Transfer
  <2>1. CASE latch = "all"
    BY <1>2, <2>1 DEF Transfer
  <2>2. CASE latch # "all"
    <3>1. at = "abort" /\ fifo \in Addresses /\ in_menu
      BY <1>2, <2>2 DEF Transfer, TypeOK, Emitting, Phases, Leaving
    <3>2. mem[fifo] = "00"
      BY <3>1, Sized DEF Contents, Leaving, Addresses, MAX_MEM_SIZE
    <3>. QED
      BY <1>2, <3>1, <3>2 DEF Transfer
  <2>. QED
    BY <2>1, <2>2
<1>3. CASE Pause
  BY <1>3, SizesAssumption DEF Pause, Sleeping, TypeOK
<1>4. CASE ReadBus
  BY <1>4, Reads
<1>5. CASE Restart \/ SetPins \/ EnableBus \/ SetRegister
  BY <1>5 DEF Restart, SetPins, EnableBus, SetRegister
<1>9. CASE RunStateMachines
  BY <1>9 DEF RunStateMachines
<1>10. CASE DisableNops \/ Fill
  BY <1>10 DEF DisableNops, Fill
<1>6. CASE StartDma \/ Activate
  BY <1>6 DEF StartDma, Activate, Phases
<1>11. CASE Release \/ HandlePacket \/ InTrampoline
  BY <1>11 DEF Release, HandlePacket, InTrampoline
<1>7. CASE Clear \/ Override \/ Silence \/ Load
  BY <1>7 DEF Clear, WriteRom, Override, OverrideAndSleep, Silence, Load
<1>8. CASE Abort
  BY <1>8 DEF Abort
<1>. QED
  BY <1>1, <1>2, <1>3, <1>4, <1>5, <1>6, <1>7, <1>8, <1>9, <1>10, <1>11
     DEF Next, Firmware, Setup, Switch, Minitel

-----------------------------------------------------------------------------
(* Each part is kept by every step.                                        *)

\* magic_io_prepare_rom writes the trampoline, and only the firmware overwrites it.
LEMMA JumpInv ==
  ASSUME IInv, Jump, Next
  PROVE  Jump'
<1>. USE Sized DEF IInv, Jump, Serving, Goto, Quiet, wiring, engine, program
<1>0. /\ FlagAddress \notin MenuCode
      /\ TRAMPOLINE_ADDRESS \in Addresses /\ TRAMPOLINE_ADDRESS + 1 \in Addresses
      /\ FlagAddress # TRAMPOLINE_ADDRESS /\ FlagAddress # TRAMPOLINE_ADDRESS + 1
      /\ TRAMPOLINE_ADDRESS \notin MenuCode /\ TRAMPOLINE_ADDRESS + 1 \notin MenuCode
      /\ TRAMPOLINE_ADDRESS + 2 \notin MenuCode /\ MenuCode \subseteq Addresses
  BY DEF FlagAddress, MenuCode, Addresses, MAX_MEM_SIZE
<1>1. CASE Fill
  <2>1. in_menu' => mem' = Trampoline
    BY <1>1 DEF Fill
  <2>2. \A a \in MenuCode : Trampoline[a] = "menu"
    BY <1>0 DEF Trampoline, EmbeddedRom
  <2>3. /\ Trampoline[TRAMPOLINE_ADDRESS] = "SJMP"
        /\ Trampoline[TRAMPOLINE_ADDRESS + 1] = "FE"
    BY <1>0 DEF Trampoline, EmbeddedRom
  <2>. QED
    BY <2>1, <2>2, <2>3
<1>2. CASE HandlePacket
  BY <1>0, <1>2 DEF HandlePacket, TypeOK
<1>3. CASE Clear
  <2>1. i < TRAMPOLINE_ADDRESS /\ i \in Nat
    BY <1>3 DEF Clear, Contents, TypeOK
  <2>. QED
    BY <1>0, <1>3, <2>1 DEF Clear, WriteRom, TypeOK
<1>4. CASE Override
  BY <1>0, <1>4 DEF Override, OverrideAndSleep, WriteRom, TypeOK
<1>5. CASE Load
  BY <1>5 DEF Load, WriteRom, Phases
<1>6. CASE Silence
  BY <1>6 DEF Silence
<1>7. CASE ReadBus
  BY <1>7, Reads
<1>8. CASE Fetch \/ Transfer \/ Restart \/ SetPins \/ EnableBus \/ SetRegister
  BY <1>8 DEF Fetch, Transfer, Restart, SetPins, EnableBus, SetRegister, Phases, Taking
<1>9. CASE RunStateMachines \/ DisableNops \/ StartDma \/ Activate \/ Release
  BY <1>9 DEF RunStateMachines, DisableNops, StartDma, Activate, Release, Phases, Taking
<1>10. CASE InTrampoline \/ Pause \/ Abort
  BY <1>10 DEF InTrampoline, Pause, Abort
<1>. QED
  BY <1>1, <1>2, <1>3, <1>4, <1>5, <1>6, <1>7, <1>8, <1>9, <1>10
     DEF Next, Firmware, Setup, Switch, Minitel

\* A Minitel that restarts while the menu is still served runs it again.
LEMMA TornInv ==
  ASSUME IInv, Torn, Next
  PROVE  Torn'
<1>. USE DEF IInv, Torn, Before, Phases, Taking, Serving, Leaving, Goto, Quiet, program,
     wiring, engine, minitel
<1>1. CASE ReadBus
  BY <1>1, Reads
<1>2. CASE Restart
  BY <1>2 DEF Restart
<1>3. CASE Fetch \/ Transfer \/ SetPins \/ EnableBus \/ SetRegister \/ RunStateMachines
  BY <1>3 DEF Fetch, Transfer, SetPins, EnableBus, SetRegister, RunStateMachines
<1>4. CASE DisableNops \/ Fill \/ StartDma \/ Activate \/ Release \/ HandlePacket
  BY <1>4 DEF DisableNops, Fill, StartDma, Activate, Release, HandlePacket
<1>5. CASE InTrampoline \/ Clear \/ Override \/ Pause \/ Abort \/ Silence \/ Load
  BY <1>5 DEF InTrampoline, Clear, WriteRom, Override, OverrideAndSleep, Pause, Abort,
     Silence, Load
<1>. QED
  BY <1>1, <1>2, <1>3, <1>4, <1>5 DEF Next, Firmware, Setup, Switch, Minitel

\* A CPU that the trace shows only in the trampoline is in its jump.
LEMMA Traced ==
  ASSUME IInv, Passing, Serves, InTrampoline
  PROVE  latch = "all" /\ InJump({"FE"})
<1>1. Before /\ high = Samples /\ at = "loop"
  BY DEF InTrampoline, Before, Serving, IInv, Phases
<1>2. high > 6 /\ high \in Nat
  BY <1>1, SizesAssumption
<1>3. ASSUME latch # "all" PROVE FALSE
  <2>1. high + 2 * TRAMPOLINE_ADDRESS <= Way + 1 /\ Way < 2 * Last + 2
    BY <1>1, <1>2, <1>3 DEF Passing
  <2>2. Way \in Nat
    <3>1. cpu.pc \in Nat
      BY DEF IInv, TypeOK, Cpus, Addresses
    <3>. QED
      BY <3>1 DEF Way
  <2>3. Last = TRAMPOLINE_ADDRESS + 2
    BY Sized DEF Last, MAX_MEM_SIZE
  <2>. QED
    BY <1>2, <2>1, <2>2, <2>3, Sized
<1>. QED
  BY <1>1, <1>2, <1>3 DEF Serves

\* The firmware only overwrites the memory under a latch that runs.
LEMMA LatchingInv ==
  ASSUME IInv, Passing, Serves, Latching, Next
  PROVE  Latching'
<1>. USE DEF Latching, Goto, Quiet, program, engine
<1>1. CASE InTrampoline
  BY <1>1, Traced DEF InTrampoline
<1>2. CASE ReadBus
  BY <1>2, Reads
<1>3. CASE Fetch
  BY <1>3 DEF Fetch, Latched
<1>4. CASE Transfer \/ Restart \/ SetPins \/ EnableBus \/ SetRegister \/ RunStateMachines
  BY <1>4 DEF Transfer, Restart, SetPins, EnableBus, SetRegister, RunStateMachines
<1>5. CASE DisableNops \/ Fill \/ StartDma \/ Activate \/ Release \/ HandlePacket
  BY <1>5 DEF DisableNops, Fill, StartDma, Activate, Release, HandlePacket
<1>6. CASE Clear \/ Override \/ Pause \/ Abort \/ Silence \/ Load
  BY <1>6 DEF Clear, WriteRom, Override, OverrideAndSleep, Pause, Abort, Silence, Load
<1>. QED
  BY <1>1, <1>2, <1>3, <1>4, <1>5, <1>6 DEF Next, Firmware, Setup, Switch, Minitel

\* Where the firmware is while the latch passes on all the addresses.
LEMMA Places ==
  ASSUME IInv, latch = "all"
  PROVE  /\ in_menu => at \in {"loop", "clear", "operand", "opcode", "pause"}
         /\ cpu.on /\ ~ in_menu => at \in Serving /\ mem = Final
         /\ ~ (at \in Taking)
<1>1. /\ at \notin Taking \cup {"start_dma", "activate", "load", "abort", "silence"}
      /\ at \in Labels
  BY DEF IInv, Phases, TypeOK
<1>2. at \in Leaving \/ at \in Serving
  BY <1>1 DEF Labels, Taking, Leaving, Serving
<1>. QED
  BY <1>1, <1>2 DEF IInv, Phases, Contents, Labels, Taking, Leaving, Serving

\* Walking through the trampoline, a CPU is sampled there once a byte.
LEMMA PassingInv ==
  ASSUME IInv, Zeros, Passing, Next
  PROVE  Passing'
<1>0. cpu.pc \in Nat /\ cpu.pc \in Addresses /\ cpu.pc <= Last /\ high \in Nat /\ cpu \in Cpus
  BY Sized DEF IInv, TypeOK, Cpus, Addresses, Last, MAX_MEM_SIZE
<1>1. CASE Fetch
  <2>. SUFFICES ASSUME Before, latch # "all"
                PROVE  Passing'
    BY <1>1, Fetches DEF Passing, Before, IInv, Latched
  <2>1. Walk(Addresses)
    BY DEF Passing
  <2>2. Walk(Addresses)'
    BY <1>1, <2>1, Fetches DEF Walk, IInv
  <2>3. CASE Address < TRAMPOLINE_ADDRESS
    BY <1>1, <2>2, <2>3, Fetches DEF Passing, IInv
  <2>4. CASE ~ (Address < TRAMPOLINE_ADDRESS)
    <3>1. cpu.slot = "opcode" => Address = cpu.pc
      BY DEF Address
    <3>2. cpu.slot = "discard" => Address = cpu.pc + 1 /\ cpu.pc # Last
      BY <1>0, <2>4, Following, Sized DEF Address
    <3>3. /\ cpu.slot = "opcode" => Way = 2 * cpu.pc /\ Way' = 2 * cpu.pc + 1
          /\ cpu.slot = "discard" => Way = 2 * cpu.pc + 1 /\ Way' = 2 * cpu.pc + 2
      BY <1>0, <1>1, Fetches DEF Way, IInv
    <3>4. high' = high \/ high' = high + 1
      BY <1>1, <2>4, Fetches DEF IInv
    <3>5. Last \in Nat
      BY Sized DEF Last, MAX_MEM_SIZE
    <3>6. high' + 2 * TRAMPOLINE_ADDRESS <= Way' + 1 /\ Way' < 2 * Last + 2
      BY <1>0, <2>1, <2>4, <3>1, <3>2, <3>3, <3>4, <3>5, Sized DEF Passing, Walk
    <3>. QED
      BY <2>2, <3>6 DEF Passing
  <2>. QED
    BY <2>3, <2>4
<1>2. CASE ReadBus
  <2>. SUFFICES ASSUME Before, latch # "all"
                PROVE  Passing'
    BY <1>2, Reads DEF Passing, Before
  <2>1. Walk(Addresses)
    BY DEF Passing
  <2>2. Read("00") /\ "00" \in Bytes
    BY <1>2, ReadsZeros
  <2>3. cpu.fetching /\ high' = high /\ ~ cpu'.fetching
    BY <1>2, <2>2, Reads, CpuReads DEF IInv
  <2>4. CASE cpu.slot = "opcode"
    <3>1. cpu'.pc = cpu.pc /\ cpu'.op = "00" /\ cpu'.slot = "discard"
      BY <2>2, <2>4, CpuReads DEF IInv
    <3>2. Way' = Way
      BY <2>3, <2>4, <3>1 DEF Way
    <3>. QED
      BY <2>1, <2>3, <3>1, <3>2 DEF Passing, Walk
  <2>5. CASE cpu.slot = "discard"
    <3>1. cpu'.slot = "opcode" /\ cpu'.pc = IF cpu.pc = Last THEN 0 ELSE cpu.pc + 1
      BY <1>0, <2>1, <2>2, <2>5, CpuReads, Following DEF IInv, Targets, Walk
    <3>2. Way = 2 * cpu.pc + 2 /\ Way' = 2 * cpu'.pc
      BY <2>3, <2>5, <3>1, <1>0, Sized DEF Way, Last, MAX_MEM_SIZE
    <3>3. Last \in Nat /\ cpu'.pc \in Addresses
      BY <1>0, <3>1, Sized DEF Last, MAX_MEM_SIZE, Addresses
    <3>4. Way' = Way \/ Way = 2 * Last + 2
      BY <1>0, <3>1, <3>2, <3>3
    <3>5. high = 0 \/ Way' = Way
      BY <3>2, <3>3, <3>4, <1>0 DEF Passing
    <3>. QED
      BY <2>3, <3>1, <3>3, <3>5 DEF Passing, Walk
  <2>. QED
    BY <2>1, <2>4, <2>5 DEF Walk
<1>3. CASE Restart
  <2>1. high' = 0 /\ cpu' = Start(0) /\ 0 \in Addresses
    BY <1>3, Sized DEF Restart, Addresses, MAX_MEM_SIZE
  <2>. QED
    BY <2>1 DEF Passing, Walk, Start
<1>4. CASE Release
  BY <1>4 DEF Release, Before, Passing, IInv, Phases
<1>5. CASE ~ Fetch /\ ~ ReadBus /\ ~ Restart /\ ~ Release
  <2>1. UNCHANGED <<board, cpu, high>>
    BY <1>5, Others
  <2>2. Way' = Way /\ Walk(Addresses)' = Walk(Addresses)
    BY <2>1 DEF Way, Walk
  <2>3. Before' /\ latch' # "all" => Before /\ latch # "all"
    <3>. USE DEF Before, Taking, Serving, Goto, Quiet, program, engine, IInv, Phases
    <3>1. CASE Transfer \/ SetPins \/ EnableBus \/ SetRegister \/ RunStateMachines
      BY <3>1 DEF Transfer, SetPins, EnableBus, SetRegister, RunStateMachines
    <3>2. CASE DisableNops \/ Fill \/ StartDma \/ Activate \/ HandlePacket
      BY <3>2 DEF DisableNops, Fill, StartDma, Activate, HandlePacket
    <3>3. CASE InTrampoline \/ Clear \/ Override \/ Pause \/ Abort \/ Silence \/ Load
      BY <3>3 DEF InTrampoline, Clear, WriteRom, Override, Pause, Abort, Silence, Load,
         Leaving
    <3>. QED
      BY <1>5, <3>1, <3>2, <3>3 DEF Next, Firmware, Setup, Switch, Minitel
  <2>. QED
    BY <2>1, <2>2, <2>3 DEF Passing
<1>. QED
  BY <1>1, <1>2, <1>3, <1>4, <1>5

\* The CPU's addresses in the trampoline and in the menu.
LEMMA Spots ==
  ASSUME TypeOK
  PROVE  /\ cpu.pc = TRAMPOLINE_ADDRESS =>
              Address = CASE cpu.slot = "opcode" -> TRAMPOLINE_ADDRESS
                          [] cpu.slot \in {"discard", "operand"} -> TRAMPOLINE_ADDRESS + 1
                          [] OTHER -> TRAMPOLINE_ADDRESS + 2
         /\ InMenu => Address < TRAMPOLINE_ADDRESS
         /\ InMenu /\ cpu.slot = "opcode" => Address = cpu.pc /\ cpu.pc \in MenuCode
         /\ cpu.slot = "opcode" => Address = cpu.pc
         /\ Walk(0 .. TRAMPOLINE_ADDRESS - 1) => Address <= TRAMPOLINE_ADDRESS
<1>0. cpu.pc \in Addresses /\ cpu.pc \in Nat /\ TRAMPOLINE_ADDRESS \in Nat
  BY Sized DEF TypeOK, Cpus, Addresses
<1>1. (cpu.pc + 1) % MAX_MEM_SIZE = IF cpu.pc = Last THEN 0 ELSE cpu.pc + 1
  BY <1>0, Following
<1>2. Last = TRAMPOLINE_ADDRESS + 2 /\ 0 \in MenuCode
  BY Sized DEF Last, MAX_MEM_SIZE, MenuCode, FlagAddress
<1>3. cpu.pc = TRAMPOLINE_ADDRESS =>
        (cpu.pc + 2) % MAX_MEM_SIZE = TRAMPOLINE_ADDRESS + 2
  BY <1>0, Wraps, Sized DEF MAX_MEM_SIZE
<1>4. \A a \in MenuCode : a \in Nat /\ a + 1 < TRAMPOLINE_ADDRESS
  BY <1>0, Sized DEF MenuCode, FlagAddress
<1>5. cpu.slot = "opcode" => Address = cpu.pc
  BY DEF Address
<1>6. cpu.slot \in {"discard", "operand"} =>
        Address = IF cpu.pc = Last THEN 0 ELSE cpu.pc + 1
  BY <1>1 DEF Address
<1>7. cpu.pc = TRAMPOLINE_ADDRESS /\ cpu.slot \notin {"opcode", "discard", "operand"} =>
        Address = TRAMPOLINE_ADDRESS + 2
  BY <1>3 DEF Address
<1>8. cpu.pc = TRAMPOLINE_ADDRESS =>
        Address = CASE cpu.slot = "opcode" -> TRAMPOLINE_ADDRESS
                    [] cpu.slot \in {"discard", "operand"} -> TRAMPOLINE_ADDRESS + 1
                    [] OTHER -> TRAMPOLINE_ADDRESS + 2
  <2>1. cpu.pc = TRAMPOLINE_ADDRESS => cpu.pc # Last
    BY <1>0, <1>2
  <2>. QED
    BY <1>5, <1>6, <1>7, <2>1
<1>9. InMenu => Address < TRAMPOLINE_ADDRESS
  BY <1>0, <1>2, <1>4, <1>5, <1>6, Sized DEF InMenu
<1>10. InMenu /\ cpu.slot = "opcode" => cpu.pc \in MenuCode
  BY <1>2 DEF InMenu
<1>11. Walk(0 .. TRAMPOLINE_ADDRESS - 1) => Address <= TRAMPOLINE_ADDRESS
  BY <1>0, <1>2, <1>5, <1>6 DEF Walk
<1>. QED
  BY <1>5, <1>8, <1>9, <1>10, <1>11

\* The jump leads to itself, as long as its operand is there.
LEMMA JumpReads ==
  ASSUME TypeOK, NEW operands, NEW value \in Bytes, Read(value), InJump(operands),
         cpu.slot = "opcode" => value = "SJMP",
         cpu.slot = "operand" => value \in operands,
         cpu.slot = "second" => cpu.op = "FE"
  PROVE  InJump(operands)'
<1>1. cpu.slot \in {"opcode", "operand", "first", "second"}
  BY DEF InJump, TypeOK, Cpus
<1>. QED
  BY <1>1, CpuReads DEF InJump

\* A zero is executed, and leads to the next address.
LEMMA WalkReads ==
  ASSUME TypeOK, NEW value \in Bytes, Read(value), Walk(Addresses),
         cpu.slot = "opcode" => value = "00"
  PROVE  /\ cpu.slot = "opcode" =>
              cpu'.slot = "discard" /\ cpu'.op = "00" /\ cpu'.pc = cpu.pc
         /\ cpu.slot = "discard" =>
              cpu'.slot = "opcode" /\ cpu'.pc = IF cpu.pc = Last THEN 0 ELSE cpu.pc + 1
<1>1. cpu.slot = "discard" => Targets(cpu.op, cpu.pc) = {(cpu.pc + 1) % MAX_MEM_SIZE}
  BY DEF Walk, Targets
<1>. QED
  BY <1>1, CpuReads, Following DEF Walk

\* The menu leads to itself or, where there is a trampoline, to that.
LEMMA MenuReads ==
  ASSUME TypeOK, NEW value \in Bytes, Read(value), InMenu,
         cpu.slot = "opcode" => value = "menu"
  PROVE  /\ cpu'.slot = "opcode" /\ in_menu => InMenu' \/ InJump({"FE"})'
         /\ cpu'.slot = "discard" \/ ~ in_menu => InMenu'
<1>1. cpu.slot = "discard" /\ cpu.op = "menu" =>
        /\ cpu'.slot = "opcode" /\ running' = running
        /\ cpu'.pc \in MenuCode \/ (in_menu /\ cpu'.pc = TRAMPOLINE_ADDRESS)
  BY CpuReads DEF Targets
<1>2. cpu.slot = "opcode" =>
        /\ cpu'.slot = "discard" /\ cpu'.op = "menu" /\ cpu'.pc \in MenuCode
        /\ running' = "menu"
  BY CpuReads, Spots
<1>. QED
  BY <1>1, <1>2 DEF InMenu, InJump

\* The menu is served as it was built: it leads to itself, or to the jump.
LEMMA ServedReads ==
  ASSUME IInv, Served, Before, latch = "all", ReadBus
  PROVE  /\ at = "loop" /\ in_menu
         /\ \E value \in Bytes :
              /\ Read(value)
              /\ InMenu /\ cpu.slot = "opcode" => value = "menu"
              /\ InJump({"FE"}) /\ cpu.slot = "opcode" => value = "SJMP"
              /\ InJump({"FE"}) /\ cpu.slot = "operand" => value = "FE"
<1>1. at = "loop" /\ in_menu
  BY Places DEF Before, Serving, Taking
<1>2. PICK value \in Bytes : Read(value) /\ value = emitted
  BY ReadsZeros DEF Served
<1>3. value = mem[Address] \/ Address = FlagAddress
  BY <1>1, <1>2, Reads DEF Served, Stale, Torn
<1>4. InMenu /\ cpu.slot = "opcode" => value = "menu"
  BY <1>1, <1>3, Spots, Sized DEF IInv, Served, Jump, Serving, MenuCode, FlagAddress
<1>5. InJump({"FE"}) =>
        /\ cpu.slot = "opcode" => Address = TRAMPOLINE_ADDRESS
        /\ cpu.slot = "operand" => Address = TRAMPOLINE_ADDRESS + 1
  BY Spots DEF IInv, InJump
<1>6. FlagAddress # TRAMPOLINE_ADDRESS /\ FlagAddress # TRAMPOLINE_ADDRESS + 1
  BY Sized DEF FlagAddress
<1>7. mem[TRAMPOLINE_ADDRESS] = "SJMP" /\ mem[TRAMPOLINE_ADDRESS + 1] = "FE"
  BY <1>1 DEF Served, Jump, Serving
<1>. QED
  BY <1>1, <1>2, <1>3, <1>4, <1>5, <1>6, <1>7

\* Every step keeps the CPU where the menu and its jump lead.
LEMMA ServesInv ==
  ASSUME IInv, Served, Passing, Serves, Next
  PROVE  Serves'
<1>0. TypeOK /\ 0 \in MenuCode /\ 0 \in Addresses /\ TRAMPOLINE_ADDRESS > 0 /\ Last \in Addresses
  BY Sized DEF IInv, MenuCode, FlagAddress, Addresses, MAX_MEM_SIZE, Last
<1>1. CASE Fetch
  <2>. SUFFICES ASSUME Before, latch' = "all"
                PROVE  Serves'
    BY <1>1, Fetches DEF Serves, Before, IInv
  <2>0. /\ InMenu' = InMenu /\ InJump({"FE"})' = InJump({"FE"})
        /\ cpu'.fetching /\ ~ cpu.fetching /\ cpu'.slot = cpu.slot
        /\ Walk({Last})' = Walk({Last})
    BY <1>0, <1>1, Fetches DEF InMenu, InJump, Walk
  <2>1. CASE latch = "all"
    <3>1. InMenu => high' = 0
      BY <1>0, <1>1, Fetches, Spots
    <3>. QED
      BY <2>0, <2>1, <3>1 DEF Serves
  <2>2. CASE latch # "all"
    <3>1. Address = 0 /\ high' = 0
      BY <1>0, <1>1, <2>2, Fetches DEF Latched
    <3>2. Walk(Addresses) /\ cpu.pc \in Addresses
      BY <2>2 DEF Passing, Walk
    <3>3. cpu.slot = "opcode" => InMenu
      BY <3>1 DEF Address, InMenu
    <3>4. cpu.slot = "discard" => Walk({Last})
      BY <3>1, <3>2, Following, Sized DEF Address, Walk, Last, MAX_MEM_SIZE, Addresses
    <3>. QED
      BY <2>0, <3>1, <3>2, <3>3, <3>4 DEF Serves, Walk
  <2>. QED
    BY <2>1, <2>2
<1>2. CASE ReadBus
  <2>. SUFFICES ASSUME Before, latch = "all"
                PROVE  Serves'
    BY <1>2, Reads DEF Serves, Before
  <2>1. PICK value \in Bytes :
          /\ Read(value)
          /\ InMenu /\ cpu.slot = "opcode" => value = "menu"
          /\ InJump({"FE"}) /\ cpu.slot = "opcode" => value = "SJMP"
          /\ InJump({"FE"}) /\ cpu.slot = "operand" => value = "FE"
    BY <1>2, ServedReads
  <2>2. in_menu /\ high' = high /\ (cpu'.slot = "opcode" \/ cpu'.slot # "opcode")
    BY <1>2, ServedReads, Reads
  <2>3. CASE InJump({"FE"})
    <3>1. InJump({"FE"})'
      BY <1>0, <2>1, <2>3, JumpReads DEF InJump
    <3>. QED
      BY <3>1 DEF Serves
  <2>4. CASE high = 0 /\ InMenu
    <3>1. cpu'.slot \in {"opcode", "discard"}
      BY <1>0, <2>1, <2>4, CpuReads DEF InMenu
    <3>2. InMenu' \/ InJump({"FE"})'
      BY <1>0, <2>1, <2>2, <2>4, <3>1, MenuReads
    <3>. QED
      BY <2>2, <2>4, <3>2 DEF Serves
  <2>5. CASE high = 0 /\ cpu.slot = "discard" /\ Walk({Last})
    <3>1. cpu'.slot = "opcode" /\ cpu'.pc = 0
      BY <1>0, <2>1, <2>5, WalkReads DEF Walk
    <3>. QED
      BY <2>2, <2>5, <3>1 DEF Serves, InMenu
  <2>. QED
    BY <2>3, <2>4, <2>5 DEF Serves
<1>3. CASE Restart
  BY <1>3 DEF Restart, Start, Serves, InMenu
<1>4. CASE Release
  BY <1>4 DEF Release, Before, Serves, IInv, Phases
<1>5. CASE ~ Fetch /\ ~ ReadBus /\ ~ Restart /\ ~ Release
  <2>1. UNCHANGED <<board, cpu, high, running>>
    BY <1>5, Others
  <2>2. /\ InMenu' = InMenu /\ InJump({"FE"})' = InJump({"FE"})
        /\ Walk({Last})' = Walk({Last})
    BY <2>1 DEF InMenu, InJump, Walk
  <2>3. Before' /\ latch' = "all" => Before /\ latch = "all"
    <3>. USE DEF Before, Taking, Serving, Goto, Quiet, program, engine, IInv, Phases
    <3>1. CASE Transfer \/ SetPins \/ EnableBus \/ SetRegister \/ RunStateMachines
      BY <3>1 DEF Transfer, SetPins, EnableBus, SetRegister, RunStateMachines
    <3>2. CASE DisableNops \/ Fill \/ StartDma \/ Activate \/ HandlePacket
      BY <3>2 DEF DisableNops, Fill, StartDma, Activate, HandlePacket
    <3>3. CASE InTrampoline \/ Clear \/ Override \/ Pause \/ Abort \/ Silence \/ Load
      BY <3>3 DEF InTrampoline, Clear, WriteRom, Override, Pause, Abort, Silence, Load,
         Leaving
    <3>. QED
      BY <1>5, <3>1, <3>2, <3>3 DEF Next, Firmware, Setup, Switch, Minitel
  <2>. QED
    BY <2>1, <2>2, <2>3 DEF Serves
<1>. QED
  BY <1>1, <1>2, <1>3, <1>4, <1>5

\* And on the board without a menu, in the embedded ROM from its first byte on.
LEMMA AloneInv ==
  ASSUME IInv, Zeros, Alone, Next
  PROVE  Alone'
<1>0. TypeOK
  BY DEF IInv
<1>1. CASE Fetch
  <2>. SUFFICES ASSUME board = "rst"
                PROVE  Alone'
    BY <1>1, Fetches, <1>0 DEF Alone
  <2>1. InMenu /\ cpu.on /\ InMenu' = InMenu
    BY <1>0, <1>1, Fetches DEF Alone, InMenu
  <2>2. at = "loop"
    BY <1>0, <1>1, <2>1 DEF IInv, Driving
  <2>3. latch' = "all"
    BY <1>0, <1>1, <2>1, Fetches DEF Alone, Latched, Start, Address
  <2>. QED
    BY <1>0, <1>1, <2>1, <2>2, <2>3, Fetches DEF Alone
<1>2. CASE ReadBus
  <2>. SUFFICES ASSUME board = "rst", cpu.on
                PROVE  Alone'
    BY <1>2, Reads DEF Alone, IInv, Driving
  <2>1. latch = "all" /\ InMenu /\ cpu.fetching /\ fifo = None
    BY <1>2, Reads DEF Alone, Start
  <2>2. PICK value \in Bytes : Read(value) /\ value = emitted
    BY <1>2, <2>1, ReadsZeros
  <2>3. ~ in_menu /\ mem = EmbeddedRom /\ at = "loop"
    BY <2>1, Places DEF IInv, Phases, Final, Driving
  <2>4. emitted = mem[Address]
    BY <2>1, <2>3 DEF IInv, Fetching
  <2>5. cpu.slot = "opcode" => value = "menu"
    BY <1>0, <2>1, <2>2, <2>3, <2>4, AddressTyped, Spots DEF EmbeddedRom
  <2>6. InMenu'
    BY <1>0, <2>1, <2>2, <2>3, <2>5, MenuReads
  <2>. QED
    BY <1>2, <2>1, <2>3, <2>6, Reads DEF Alone
<1>3. CASE Restart
  <2>1. cpu' = Start(0) /\ UNCHANGED <<board, at, latch>> /\ cpu.on
    BY <1>3 DEF Restart, program, engine
  <2>. QED
    BY <2>1 DEF Alone, InMenu, Start
<1>4. CASE Release
  <2>1. cpu' = Start(0) /\ UNCHANGED <<board, latch>> /\ at = "release" /\ at' = "loop"
    BY <1>4 DEF Release, engine, Goto
  <2>. QED
    BY <2>1 DEF Alone, InMenu, Start
<1>5. CASE ~ Fetch /\ ~ ReadBus /\ ~ Restart /\ ~ Release
  <2>1. UNCHANGED <<board, cpu, running>>
    BY <1>5, Others
  <2>2. InMenu' = InMenu
    BY <2>1 DEF InMenu
  <2>3. board = "rst" /\ cpu.on => latch' = latch
    <3>. USE DEF IInv, Driving, Phases, Leaving, engine
    <3>1. CASE Transfer \/ SetPins \/ EnableBus \/ SetRegister \/ RunStateMachines
      BY <3>1 DEF Transfer, SetPins, EnableBus, SetRegister, RunStateMachines
    <3>2. CASE DisableNops \/ Fill \/ StartDma \/ Activate \/ HandlePacket
      BY <3>2 DEF DisableNops, Fill, StartDma, Activate, HandlePacket
    <3>3. CASE InTrampoline \/ Clear \/ Override \/ Pause \/ Abort \/ Silence \/ Load
      BY <3>3 DEF InTrampoline, Clear, WriteRom, Override, OverrideAndSleep, Pause, Abort,
         Silence, Load
    <3>. QED
      BY <1>5, <3>1, <3>2, <3>3 DEF Next, Firmware, Setup, Switch, Minitel
  <2>4. at' = "release" =>
          latch' = "wait_zero" \/ (at = "release" /\ latch' = latch) \/ board = "nop"
    <3>. USE DEF Goto, program, engine
    <3>1. CASE Transfer \/ SetPins \/ EnableBus \/ SetRegister \/ RunStateMachines
      BY <3>1 DEF Transfer, SetPins, EnableBus, SetRegister, RunStateMachines
    <3>2. CASE DisableNops \/ Fill \/ StartDma \/ Activate \/ HandlePacket
      BY <3>2 DEF DisableNops, Fill, StartDma, Activate, HandlePacket
    <3>3. CASE InTrampoline \/ Clear \/ Override \/ Pause \/ Abort \/ Silence \/ Load
      BY <3>3 DEF InTrampoline, Clear, WriteRom, Override, OverrideAndSleep, Pause, Abort,
         Silence, Load
    <3>. QED
      BY <1>5, <3>1, <3>2, <3>3 DEF Next, Firmware, Setup, Switch, Minitel
  <2>. QED
    BY <2>1, <2>2, <2>3, <2>4 DEF Alone
<1>. QED
  BY <1>1, <1>2, <1>3, <1>4, <1>5

\* What an opcode, and the operand of the jump, can be while the memory is overwritten.
LEMMA OverwritingReads ==
  ASSUME IInv, Served, Overwriting, at \in {"clear", "operand", "opcode", "pause"}, ~ torn,
         ReadBus
  PROVE  \E value \in Bytes :
           /\ Read(value)
           /\ cpu.slot = "opcode" =>
                /\ value = "00" \/ (value = "SJMP" /\ InJump({"FE", "00"}))
                /\ at # "pause" /\ InJump({"FE", "00"}) => value = "SJMP"
           /\ cpu.slot = "operand" =>
                value \in {"FE", "00"} /\ (at \in {"clear", "operand"} => value = "FE")
<1>. DEFINE T == TRAMPOLINE_ADDRESS
<1>0. TypeOK /\ in_menu /\ latch = "all" /\ cpu.fetching /\ fifo = None
  BY Reads DEF IInv, Served, Latching, Phases, Leaving
<1>1. PICK value \in Bytes : Read(value) /\ value = emitted
  BY <1>0, ReadsZeros DEF Served
<1>2. \/ value = mem[Address]
      \/ at = "clear" /\ Address = FlagAddress
      \/ at \in {"opcode", "pause"} /\ cpu.slot = "operand" /\ value = "FE"
      \/ at = "pause" /\ Address = T /\ value = "SJMP"
  BY <1>0, <1>1 DEF Served, Stale
<1>3. Address \in Addresses /\ cpu.pc \in Addresses /\ (cpu.slot = "opcode" => Address = cpu.pc)
  BY <1>0, AddressTyped, Spots DEF TypeOK, Cpus
<1>4. /\ mem[T + 2] = "00"
      /\ at # "clear" => \A a \in Addresses : a < T => mem[a] = "00"
      /\ at \in {"opcode", "pause"} => mem[T + 1] = "00"
      /\ at \in {"clear", "operand"} => mem[T + 1] = "FE"
      /\ IF at = "pause" THEN mem[T] = "00" ELSE mem[T] = "SJMP"
  BY <1>0 DEF IInv, Contents, Served, Jump, Leaving
<1>5. InJump({"FE", "00"}) \/ Walk(Addresses)
  BY Sized DEF Overwriting, InJump, Walk, Addresses, MAX_MEM_SIZE, Last
<1>6. T \in Nat /\ Addresses = 0 .. T + 2 /\ FlagAddress = T - 1 /\ Last = T + 2
  BY Sized DEF Addresses, MAX_MEM_SIZE, FlagAddress, Last
<1>7. CASE cpu.slot = "opcode"
  <2>1. CASE at = "clear"
    <3>1. InJump({"FE", "00"}) /\ cpu.pc = T
      BY <2>1 DEF Overwriting, InJump
    <3>. QED
      BY <1>1, <1>2, <1>3, <1>4, <1>6, <1>7, <2>1, <3>1
  <2>2. CASE at = "operand"
    <3>1. (InJump({"FE", "00"}) /\ cpu.pc = T) \/ cpu.pc < T
      BY <1>6, <2>2 DEF Overwriting, InJump, Walk
    <3>2. InJump({"FE", "00"}) => cpu.pc = T
      BY DEF InJump
    <3>3. value = mem[cpu.pc]
      BY <1>2, <1>3, <1>7, <2>2
    <3>. QED
      BY <1>1, <1>3, <1>4, <1>6, <1>7, <2>2, <3>1, <3>2, <3>3
  <2>3. CASE at = "opcode"
    <3>1. (InJump({"FE", "00"}) /\ cpu.pc = T) \/ cpu.pc < T \/ cpu.pc = T + 2
      BY <1>6, <2>3 DEF Overwriting, InJump, Walk
    <3>2. InJump({"FE", "00"}) => cpu.pc = T
      BY DEF InJump
    <3>3. value = mem[cpu.pc]
      BY <1>2, <1>3, <1>7, <2>3
    <3>. QED
      BY <1>1, <1>3, <1>4, <1>6, <1>7, <2>3, <3>1, <3>2, <3>3
  <2>4. CASE at = "pause"
    <3>1. \A a \in Addresses : mem[a] = "00"
      BY <1>4, <1>6, <2>4
    <3>2. cpu.pc = T => InJump({"FE", "00"})
      BY <1>7 DEF InJump
    <3>. QED
      BY <1>1, <1>2, <1>3, <1>7, <2>4, <3>1, <3>2
  <2>. QED
    BY <2>1, <2>2, <2>3, <2>4
<1>8. CASE cpu.slot = "operand"
  <2>1. cpu.pc = T
    BY <1>5, <1>8 DEF InJump, Walk
  <2>2. Address = T + 1
    BY <1>0, <1>8, <2>1, Spots
  <2>. QED
    BY <1>1, <1>2, <1>4, <1>6, <1>8, <2>2
<1>9. CASE cpu.slot \notin {"opcode", "operand"}
  BY <1>1, <1>9
<1>. QED
  BY <1>7, <1>8, <1>9

\* The jump, once its operand is gone, leads past the trampoline.
LEMMA OverwritingRead ==
  ASSUME IInv, Served, Overwriting, at \in {"clear", "operand", "opcode", "pause"}, ReadBus
  PROVE  Overwriting'
<1>. DEFINE T == TRAMPOLINE_ADDRESS
<1>. SUFFICES ASSUME ~ torn
              PROVE  Overwriting'
  BY Reads DEF Overwriting
<1>0. TypeOK /\ at' = at /\ cpu.pc \in Addresses
  BY Reads DEF IInv, TypeOK, Cpus
<1>1. PICK value \in Bytes :
        /\ Read(value)
        /\ cpu.slot = "opcode" =>
             /\ value = "00" \/ (value = "SJMP" /\ InJump({"FE", "00"}))
             /\ at # "pause" /\ InJump({"FE", "00"}) => value = "SJMP"
        /\ cpu.slot = "operand" =>
             value \in {"FE", "00"} /\ (at \in {"clear", "operand"} => value = "FE")
  BY OverwritingReads
<1>2. T \in Nat /\ T > 0 /\ Addresses = 0 .. T + 2 /\ Last = T + 2
  BY Sized DEF Addresses, MAX_MEM_SIZE, Last
<1>3. InJump({"FE"}) => InJump({"FE", "00"})
  BY DEF InJump
<1>4. CASE InJump({"FE"}) /\ at \in {"clear", "operand"}
  <2>1. InJump({"FE"})'
    BY <1>0, <1>1, <1>3, <1>4, JumpReads DEF InJump
  <2>. QED
    BY <1>0, <1>4, <2>1 DEF Overwriting
<1>5. CASE InJump({"FE", "00"}) /\ at \in {"opcode", "pause"}
  <2>1. CASE cpu.slot = "opcode"
    <3>1. CASE value = "SJMP"
      <4>1. cpu'.pc = T /\ cpu'.slot = "operand"
        BY <1>0, <1>1, <1>5, <2>1, <3>1, CpuReads DEF InJump
      <4>. QED
        BY <1>0, <1>5, <4>1 DEF Overwriting, InJump
    <3>2. CASE value = "00" /\ at = "pause"
      <4>1. cpu'.pc = T /\ cpu'.slot = "discard" /\ cpu'.op = "00"
        BY <1>0, <1>1, <1>5, <2>1, <3>2, CpuReads DEF InJump
      <4>. QED
        BY <1>0, <1>2, <3>2, <4>1 DEF Overwriting, Walk
    <3>. QED
      BY <1>1, <1>5, <2>1, <3>1, <3>2
  <2>2. CASE cpu.slot \in {"operand", "first"}
    <3>1. cpu'.pc = T /\ cpu'.slot \in {"first", "second"} /\ cpu'.op \in {"FE", "00"}
      BY <1>0, <1>1, <1>5, <2>2, CpuReads DEF InJump
    <3>. QED
      BY <1>0, <1>5, <3>1 DEF Overwriting, InJump
  <2>3. CASE cpu.slot = "second"
    <3>1. cpu'.slot = "opcode" /\ cpu'.pc \in {T, T + 2}
      BY <1>0, <1>1, <1>2, <1>5, <2>3, CpuReads, Wraps DEF InJump, MAX_MEM_SIZE
    <3>. QED
      BY <1>0, <1>2, <1>5, <3>1 DEF Overwriting, InJump, Walk
  <2>. QED
    BY <1>0, <1>5, <2>1, <2>2, <2>3 DEF InJump, TypeOK, Cpus
<1>6. CASE ~ InJump({"FE", "00"}) /\ at # "clear" /\ Walk(Addresses)
  <2>1. cpu.slot = "opcode" => value = "00"
    BY <1>1, <1>6
  <2>2. /\ cpu.slot = "opcode" =>
             cpu'.slot = "discard" /\ cpu'.op = "00" /\ cpu'.pc = cpu.pc
        /\ cpu.slot = "discard" =>
             cpu'.slot = "opcode" /\ cpu'.pc = IF cpu.pc = Last THEN 0 ELSE cpu.pc + 1
    BY <1>0, <1>1, <1>6, <2>1, WalkReads
  <2>3. /\ at = "operand" => cpu.pc \in 0 .. T - 1
        /\ at = "opcode" => cpu.pc \in (0 .. T - 1) \cup {Last}
    BY <1>3, <1>6 DEF Overwriting, Walk
  <2>4. CASE cpu.slot = "opcode"
    BY <1>0, <1>6, <2>2, <2>3, <2>4 DEF Overwriting, Walk
  <2>5. CASE cpu.slot = "discard"
    <3>1. /\ cpu'.slot = "opcode" /\ cpu'.pc \in Addresses
          /\ at = "operand" => cpu'.pc \in 0 .. T
          /\ at = "opcode" => cpu'.pc \in 0 .. T
      BY <1>0, <1>2, <2>2, <2>3, <2>5
    <3>2. cpu'.pc \in 0 .. T => cpu'.pc = T \/ cpu'.pc \in 0 .. T - 1
      BY <1>2
    <3>. QED
      BY <1>0, <1>6, <3>1, <3>2 DEF Overwriting, Walk, InJump
  <2>. QED
    BY <1>6, <2>4, <2>5 DEF Walk
<1>7. at = "operand" /\ ~ InJump({"FE"}) => ~ InJump({"FE", "00"}) /\ Walk(Addresses)
  BY <1>2 DEF Overwriting, InJump, Walk
<1>8. at \in {"opcode", "pause"} /\ ~ InJump({"FE", "00"}) => Walk(Addresses)
  BY <1>2 DEF Overwriting, Walk
<1>9. at = "clear" => InJump({"FE"})
  BY DEF Overwriting
<1>. QED
  BY <1>4, <1>5, <1>6, <1>7, <1>8, <1>9

\* The firmware overwrites the jump's operand before its opcode: none is run alone.
LEMMA OverwritingInv ==
  ASSUME IInv, Served, Passing, Serves, Overwriting, Next
  PROVE  Overwriting'
<1>0. TypeOK /\ 0 \in 0 .. TRAMPOLINE_ADDRESS - 1 /\ 0 \in Addresses
      /\ 0 .. TRAMPOLINE_ADDRESS - 1 \subseteq Addresses /\ Last \in Addresses
  BY Sized DEF IInv, Addresses, MAX_MEM_SIZE, Last
<1>1. CASE Fetch
  BY <1>0, <1>1, Fetches DEF Overwriting, InJump, Walk
<1>2. CASE ReadBus
  <2>1. CASE at \in {"clear", "operand", "opcode", "pause"}
    BY <1>2, <2>1, OverwritingRead
  <2>2. CASE at \notin {"clear", "operand", "opcode", "pause"}
    BY <1>2, <2>2, Reads DEF Overwriting
  <2>. QED
    BY <2>1, <2>2
<1>3. CASE Restart
  <2>1. cpu'.slot = "opcode" /\ cpu'.pc = 0 /\ at' = at /\ (at = "clear" => torn')
    BY <1>3 DEF Restart, Start, program
  <2>. QED
    BY <1>0, <2>1 DEF Overwriting, Walk
<1>4. CASE Release
  BY <1>4 DEF Release, Goto, Overwriting
<1>5. CASE ~ Fetch /\ ~ ReadBus /\ ~ Restart /\ ~ Release
  <2>1. UNCHANGED <<cpu, torn>>
    BY <1>5, Others
  <2>2. /\ InJump({"FE"})' = InJump({"FE"}) /\ InJump({"FE", "00"})' = InJump({"FE", "00"})
        /\ Walk(0 .. TRAMPOLINE_ADDRESS - 1)' = Walk(0 .. TRAMPOLINE_ADDRESS - 1)
        /\ Walk((0 .. TRAMPOLINE_ADDRESS - 1) \cup {Last})'
             = Walk((0 .. TRAMPOLINE_ADDRESS - 1) \cup {Last})
        /\ Walk(Addresses)' = Walk(Addresses)
    BY <2>1 DEF InJump, Walk
  <2>3. /\ InJump({"FE"}) => InJump({"FE", "00"})
        /\ Walk(0 .. TRAMPOLINE_ADDRESS - 1) =>
             Walk((0 .. TRAMPOLINE_ADDRESS - 1) \cup {Last})
        /\ Walk((0 .. TRAMPOLINE_ADDRESS - 1) \cup {Last}) => Walk(Addresses)
    BY <1>0 DEF InJump, Walk
  <2>. USE DEF Goto, program
  <2>4. CASE InTrampoline
    <3>1. at' = "clear" /\ InJump({"FE"})
      BY <2>4, Traced DEF InTrampoline
    <3>. QED
      BY <2>1, <2>2, <3>1 DEF Overwriting
  <2>5. CASE Clear
    <3>1. at = "clear" /\ at' \in {"clear", "operand"}
      BY <2>5 DEF Clear
    <3>. QED
      BY <2>1, <2>2, <3>1 DEF Overwriting
  <2>6. CASE Override
    <3>1. (at = "operand" /\ at' = "opcode") \/ (at = "opcode" /\ at' = "pause")
      BY <2>6 DEF Override
    <3>. QED
      BY <2>1, <2>2, <2>3, <3>1 DEF Overwriting
  <2>7. CASE ~ InTrampoline /\ ~ Clear /\ ~ Override
    <3>1. at' = at \/ at' \notin {"clear", "operand", "opcode", "pause"}
      <4>1. CASE Transfer \/ SetPins \/ EnableBus \/ SetRegister \/ RunStateMachines
        BY <4>1 DEF Transfer, SetPins, EnableBus, SetRegister, RunStateMachines
      <4>2. CASE DisableNops \/ Fill \/ StartDma \/ Activate \/ HandlePacket
        BY <4>2 DEF DisableNops, Fill, StartDma, Activate, HandlePacket
      <4>3. CASE Pause \/ Abort \/ Silence \/ Load
        BY <4>3 DEF Pause, Abort, Silence, Load
      <4>. QED
        BY <1>5, <2>7, <4>1, <4>2, <4>3 DEF Next, Firmware, Setup, Switch, Minitel
    <3>. QED
      BY <2>1, <2>2, <3>1 DEF Overwriting
  <2>. QED
    BY <2>4, <2>5, <2>6, <2>7
<1>. QED
  BY <1>1, <1>2, <1>3, <1>4, <1>5

\* Only a byte fetched just before it was overwritten is not the one in memory.
LEMMA StaleInv ==
  ASSUME IInv, Served, Overwriting, Next
  PROVE  Stale'
<1>. DEFINE T == TRAMPOLINE_ADDRESS
<1>0. TypeOK /\ T \in Nat /\ Addresses = 0 .. T + 2 /\ FlagAddress = T - 1 /\ Last = T + 2
  BY Sized DEF IInv, Addresses, MAX_MEM_SIZE, FlagAddress, Last
<1>a. Address \in Addresses /\ mem \in [Addresses -> Bytes] /\ i \in Nat
  BY <1>0, AddressTyped DEF TypeOK
<1>1. CASE Fetch
  BY <1>0, <1>1, <1>a, Fetches, NoneAssumption DEF Stale
<1>2. CASE ReadBus
  BY <1>0, <1>2, Reads, ReadsCpu DEF Stale
<1>3. CASE Restart \/ Release
  <2>1. ~ cpu'.fetching
    BY <1>3 DEF Restart, Release, Start
  <2>. QED
    BY <2>1 DEF Stale
<1>4. CASE Transfer
  <2>1. UNCHANGED <<cpu, mem, latch, in_menu>> /\ emitted' = mem[fifo] /\ fifo # None
    BY <1>4 DEF Transfer, minitel, program
  <2>2. Address' = Address
    BY <2>1 DEF Address
  <2>3. latch = "all" /\ cpu.fetching => fifo = Address
    BY <2>1 DEF IInv, Fetching
  <2>4. latch' = "all" /\ cpu'.fetching => emitted' = mem'[Address']
    BY <2>1, <2>2, <2>3
  <2>. QED
    BY <2>4 DEF Stale
<1>5. CASE ~ Fetch /\ ~ ReadBus /\ ~ Restart /\ ~ Release /\ ~ Transfer
  <2>1. UNCHANGED <<cpu, torn>>
    BY <1>5, Others
  <2>2. Address' = Address
    BY <2>1 DEF Address
  <2>. USE DEF Goto, Quiet, program, engine
  <2>3. CASE HandlePacket
    <3>1. \A a \in Addresses : a # FlagAddress => mem'[a] = mem[a]
      BY <1>a, <2>3 DEF HandlePacket
    <3>2. UNCHANGED <<at, in_menu, latch, fifo, emitted>> /\ at = "loop"
      BY <2>3 DEF HandlePacket
    <3>. QED
      BY <1>a, <2>1, <2>2, <3>1, <3>2 DEF Served, Stale
  <2>4. CASE InTrampoline
    <3>1. UNCHANGED <<mem, in_menu, latch, fifo, emitted>> /\ at = "loop" /\ at' = "clear"
      BY <2>4 DEF InTrampoline
    <3>. QED
      BY <2>1, <2>2, <3>1 DEF Served, Stale
  <2>5. CASE Clear
    <3>1. /\ UNCHANGED <<in_menu, latch, fifo, emitted>> /\ at = "clear"
          /\ mem' = [mem EXCEPT ![i] = "00"]
      BY <2>5 DEF Clear, WriteRom
    <3>2. i < T
      BY <3>1 DEF IInv, Contents
    <3>. SUFFICES ASSUME ~ torn
                  PROVE  Stale'
      BY <2>1 DEF Stale
    <3>3. InJump({"FE"})
      BY <3>1 DEF Overwriting
    <3>4. Address \in {T, T + 1, T + 2}
      BY <1>0, <3>3, Spots DEF InJump
    <3>5. mem'[Address] = mem[Address] /\ Address # FlagAddress
      BY <1>0, <1>a, <3>1, <3>2, <3>4
    <3>. QED
      BY <2>1, <2>2, <3>1, <3>5 DEF Served, Stale
  <2>6. CASE Override
    <3>. SUFFICES ASSUME ~ torn, in_menu, latch = "all", cpu.fetching, fifo = None
                  PROVE  Stale'
      BY <2>1, <2>6 DEF Override, OverrideAndSleep, WriteRom, Stale
    <3>1. UNCHANGED <<in_menu, latch, fifo, emitted>>
      BY <2>6 DEF Override, OverrideAndSleep, WriteRom
    <3>2. CASE at = "operand"
      <4>1. at' = "opcode" /\ mem' = [mem EXCEPT ![T + 1] = "00"]
        BY <2>6, <3>2 DEF Override, OverrideAndSleep, WriteRom
      <4>2. emitted = mem[Address] /\ mem[T + 1] = "FE"
        BY <3>2 DEF Served, Stale, Jump
      <4>3. Address = T + 1 => cpu.slot = "operand"
        <5>1. CASE InJump({"FE"})
          <6>1. cpu.slot = "opcode" => Address = T
            BY <1>0, <5>1, Spots DEF InJump
          <6>2. cpu.slot \in {"first", "second"} => Address = T + 2
            BY <1>0, <5>1, Spots DEF InJump
          <6>. QED
            BY <1>0, <5>1, <6>1, <6>2 DEF InJump, TypeOK, Cpus
        <5>2. CASE Walk(0 .. T - 1)
          BY <1>0, <5>2, Spots
        <5>. QED
          BY <3>2, <5>1, <5>2 DEF Overwriting
      <4>4. Address # T + 1 => mem'[Address] = mem[Address]
        BY <1>a, <4>1
      <4>. QED
        BY <2>1, <2>2, <3>1, <4>1, <4>2, <4>3, <4>4 DEF Stale
    <3>3. CASE at = "opcode"
      <4>1. at' = "pause" /\ mem' = [mem EXCEPT ![T] = "00"]
        BY <2>6, <3>3 DEF Override, OverrideAndSleep, WriteRom
      <4>2. /\ emitted = mem[Address] \/ (cpu.slot = "operand" /\ emitted = "FE")
            /\ mem[T] = "SJMP"
        BY <3>3 DEF Served, Stale, Jump
      <4>3. Address # T => mem'[Address] = mem[Address]
        BY <1>a, <4>1
      <4>. QED
        BY <2>1, <2>2, <3>1, <4>1, <4>2, <4>3 DEF Stale
    <3>. QED
      BY <2>6, <3>2, <3>3 DEF Override
  <2>7. CASE ~ HandlePacket /\ ~ InTrampoline /\ ~ Clear /\ ~ Override
    <3>1. latch' # "all"
      <4>. USE DEF IInv, Phases, Taking, TypeOK
      <4>1. CASE SetPins \/ EnableBus \/ SetRegister \/ RunStateMachines
        BY <4>1 DEF SetPins, EnableBus, SetRegister, RunStateMachines
      <4>2. CASE DisableNops \/ Fill \/ StartDma \/ Activate
        BY <4>2 DEF DisableNops, Fill, StartDma, Activate
      <4>3. CASE Pause \/ Abort \/ Silence \/ Load
        BY <4>3 DEF Pause, Abort, Silence, Load, WriteRom
      <4>. QED
        BY <1>5, <2>7, <4>1, <4>2, <4>3 DEF Next, Firmware, Setup, Switch, Minitel
    <3>. QED
      BY <3>1 DEF Stale
  <2>. QED
    BY <2>3, <2>4, <2>5, <2>6, <2>7
<1>. QED
  BY <1>1, <1>2, <1>3, <1>4, <1>5

-----------------------------------------------------------------------------
(* The invariant of what the CPU executes, and what follows from it.       *)

LEMMA ExecutionInit == ASSUME Init PROVE ExecutionInv
<1>1. IInv
  BY InitInv
<1>2. PICK pc \in Addresses : cpu = [Start(pc) EXCEPT !.on = (board = "nop")]
  BY DEF Init
<1>3. cpu.slot = "opcode" /\ ~ cpu.fetching /\ cpu.pc = pc /\ (board = "rst" => ~ cpu.on)
  BY <1>2 DEF Start, Init
<1>4. Served
  BY <1>3 DEF Init, Served, Zeros, Jump, Latching, Stale, Torn, Serving
<1>5. Passing /\ Serves /\ Alone /\ Overwriting
  BY <1>3 DEF Init, Passing, Serves, Alone, Overwriting, Walk
<1>. QED
  BY <1>1, <1>4, <1>5 DEF ExecutionInv

LEMMA ExecutionNext == ASSUME ExecutionInv, [Next]_vars PROVE ExecutionInv'
<1>1. CASE Next
  BY <1>1, NextInv, ZerosInv, JumpInv, LatchingInv, StaleInv, TornInv, PassingInv, ServesInv,
     AloneInv, OverwritingInv DEF ExecutionInv, Served
<1>2. CASE UNCHANGED vars
  <2>1. IInv'
    BY <1>2, NextInv DEF ExecutionInv
  <2>. USE <1>2 DEF vars, ExecutionInv, Served
  <2>2. Zeros' /\ Jump' /\ Latching' /\ Torn'
    BY DEF Zeros, Jump, Latching, Torn, Before
  <2>3. Stale' /\ Passing'
    BY DEF Stale, Address, Passing, Before, Walk, Way
  <2>4. Serves' /\ Alone' /\ Overwriting'
    BY DEF Serves, Before, Walk, InMenu, InJump, Alone, Overwriting
  <2>. QED
    BY <2>1, <2>2, <2>3, <2>4
<1>. QED
  BY <1>1, <1>2

\* What the CPU takes for an opcode.
LEMMA OpcodeStep ==
  ASSUME ExecutionInv, ReadBus, cpu.slot = "opcode", ~ torn
  PROVE  \/ cpu'.op \in {"00", "SJMP"}
         \/ cpu'.op = "menu" /\ (running = "menu" \/ cpu.pc = 0)
         \/ cpu'.op = "rom"
<1>0. /\ IInv /\ Served /\ TypeOK /\ cpu.fetching /\ fifo = None /\ Address = cpu.pc
      /\ cpu.on
  BY Reads DEF ExecutionInv, Address, IInv, Driving
<1>1. \A value \in Bytes : Read(value) => cpu'.op = value
  BY <1>0, CpuReads
<1>2. PICK value \in Bytes : Read(value) /\ value = (IF latch = "all" THEN emitted ELSE "00")
  BY <1>0, ReadsZeros DEF Served
<1>3. CASE latch # "all"
  BY <1>1, <1>2, <1>3
<1>4. CASE latch = "all" /\ ~ in_menu
  <2>1. mem = Final /\ value = mem[Address]
    BY <1>0, <1>2, <1>4, Places DEF IInv, Fetching
  <2>2. CASE board = "nop"
    <3>1. value \in {"rom", "00"}
      BY <1>0, <2>1, <2>2, AddressTyped DEF Final, UserRom
    <3>. QED
      BY <1>1, <1>2, <3>1
  <2>3. CASE board = "rst"
    <3>1. InMenu
      BY <1>0, <2>3 DEF ExecutionInv, Alone
    <3>2. value = "menu"
      BY <1>0, <2>1, <2>3, <3>1, Spots, AddressTyped DEF Final, EmbeddedRom
    <3>. QED
      BY <1>1, <1>2, <3>1, <3>2 DEF InMenu
  <2>. QED
    BY <1>0, <2>2, <2>3 DEF TypeOK
<1>5. CASE latch = "all" /\ in_menu /\ at = "loop"
  <2>1. Before
    BY <1>0, <1>5 DEF IInv, Phases, Before, Serving
  <2>2. PICK v \in Bytes :
          /\ Read(v)
          /\ InMenu /\ cpu.slot = "opcode" => v = "menu"
          /\ InJump({"FE"}) /\ cpu.slot = "opcode" => v = "SJMP"
    BY <1>0, <1>5, <2>1, ServedReads
  <2>3. InMenu \/ InJump({"FE"})
    BY <1>5, <2>1 DEF ExecutionInv, Serves
  <2>. QED
    BY <1>1, <2>2, <2>3 DEF InMenu
<1>6. CASE latch = "all" /\ at \in {"clear", "operand", "opcode", "pause"}
  <2>1. PICK v \in Bytes : Read(v) /\ v \in {"00", "SJMP"}
    BY <1>0, <1>6, OverwritingReads DEF ExecutionInv
  <2>. QED
    BY <1>1, <2>1
<1>. QED
  BY <1>0, <1>3, <1>4, <1>5, <1>6, Places

\* The invariant of what the CPU executes.
THEOREM Execution == Spec => []ExecutionInv
  BY ExecutionInit, ExecutionNext, PTL DEF Spec

\* magic_io_analyze_traces: when all the samples are of the trampoline, the CPU is in
\* its jump to itself, and does not merely pass there.
THEOREM TraceIsRight == Spec => [][InTrampoline => InJump({"FE"})]_vars
<1>1. ExecutionInv /\ [Next]_vars => [InTrampoline => InJump({"FE"})]_vars
  BY Traced DEF ExecutionInv
<1>. QED
  BY <1>1, Execution, PTL DEF Spec

\* The CPU executes zeros, the trampoline's jump, the menu from its first byte on and the
\* user's ROM, whatever the firmware overwrites under it and whenever it restarts, but
\* for a restart while the ROM is cleared.
THEOREM NoStray == Spec => NoStrayExecution
<1>1. ExecutionInv /\ [Next]_vars =>
        [(cpu.slot = "opcode" /\ ReadBus /\ ~ torn) =>
           \/ cpu'.op \in {"00", "SJMP"}
           \/ cpu'.op = "menu" /\ (running = "menu" \/ cpu.pc = 0)
           \/ cpu'.op = "rom"]_vars
  BY OpcodeStep
<1>. QED
  BY <1>1, Execution, PTL DEF Spec, NoStrayExecution
=============================================================================
