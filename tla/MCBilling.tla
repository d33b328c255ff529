------------------------------- MODULE MCBilling -------------------------------
(* Billing with its fairness, for TLC. *)
EXTENDS Billing

Spec == BillingSpec /\ BillingFair
===============================================================================
