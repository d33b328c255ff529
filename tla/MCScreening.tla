------------------------------ MODULE MCScreening ------------------------------
(* Instances of Screening for TLC. *)
EXTENDS Screening, TLC

CONSTANTS c1, o1, l1, l2, e1, s1, s2, entry, amended

OneList == [e \in Entities |-> l1]
\* Every edition of the entry matches.
Edition == [c \in Contents |-> Subjects]

SlotSymmetry == Permutations(Slots)
===============================================================================
