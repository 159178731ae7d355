--------------------- MODULE MCConfigurationPartition ---------------------
(* Two slots, the first on page 0 with the generation counter as slot 0 of *)
(* the firmware is, the second on page 1; two blocks of SectorSize bytes a *)
(* ROM; 2^WordWidth - 1 flushes.                                           *)
EXTENDS ConfigurationPartition, TLC

CONSTANTS s0, s1
ByteSymmetry == Permutations(Byte)
MCSlots == {s0, s1}
MCSlotPage == s0 :> 0 @@ s1 :> 1
=============================================================================
