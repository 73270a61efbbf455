------------------------- MODULE MCSlotMaintenance -------------------------
(***************************************************************************)
(* SlotMaintenance on a ring of two lines.                                 *)
(***************************************************************************)
EXTENDS SlotMaintenance, TLC

Symmetry == Permutations(Processes)
=============================================================================
