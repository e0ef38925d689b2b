----------------------------- MODULE MCShiftSwaps -----------------------------
(***************************************************************************)
(* An instance of ShiftSwaps for TLC.                                      *)
(***************************************************************************)
EXTENDS ShiftSwaps, TLC

Symmetry == Permutations(People) \cup Permutations(Requests)
=============================================================================
