-------------------------- MODULE MCRingPositions --------------------------
(***************************************************************************)
(* RingPositions on a small ring.                                          *)
(***************************************************************************)
EXTENDS RingPositions, TLC

Symmetry == Permutations(Processes)
=============================================================================
