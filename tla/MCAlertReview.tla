----------------------------- MODULE MCAlertReview -----------------------------
(* Instances of AlertReview for TLC. *)
EXTENDS AlertReview, TLC

CONSTANTS a1, a2, c1

OneAlert == [a \in Alerts |-> c1]
\* Both alerts were raised by the screening of one customer: bulk dismissal.
SameCustomer == [a \in Alerts |-> c1]

Symmetry == Permutations(Operators) \cup Permutations(Slots)
OperatorSymmetry == Permutations(Operators)
===============================================================================
