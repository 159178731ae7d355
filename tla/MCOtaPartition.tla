--------------------------- MODULE MCOtaPartition ---------------------------
(* The factory image fills the partition, three sectors; the other one ends  *)
(* in the middle of the second. The sources of packets are interchangeable.  *)
EXTENDS OtaPartition, TLC

CONSTANTS factory, revised, usb, tcp

MCSize == [x \in {factory, revised} |-> IF x = factory THEN 6 ELSE 3]
SourceSymmetry == Permutations(Sources)
=============================================================================
