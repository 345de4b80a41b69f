-------------------------- MODULE MCConversionSlot --------------------------
(* Instances of ConversionSlot: two jobs that write one place, the second   *)
(* of them a federation, and a third that writes another.                   *)
EXTENDS ConversionSlot, TLC

CONSTANTS o1, o2

MCOutputOf == [j \in Jobs |-> IF j = 3 THEN o2 ELSE o1]

Symmetry == Permutations(Cancels)
=============================================================================
