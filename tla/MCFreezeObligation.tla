--------------------------- MODULE MCFreezeObligation ---------------------------
(* Instances of FreezeObligation for TLC. *)
EXTENDS FreezeObligation, TLC

SlotSymmetry == Permutations(Slots)
OverlapSymmetry == Permutations(Slots) \cup Permutations(Reports \ Generic)
===============================================================================
