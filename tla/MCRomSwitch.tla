----------------------------- MODULE MCRomSwitch -----------------------------
(* The smallest ROM and one that fills the memory, the trampoline included.   *)
EXTENDS RomSwitch

MCSizes == {1, TRAMPOLINE_ADDRESS - 1, MAX_MEM_SIZE}
=============================================================================
