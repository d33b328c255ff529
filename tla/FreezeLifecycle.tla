---------------------------- MODULE FreezeLifecycle ----------------------------
(***************************************************************************)
(* What the freeze workflow promises the regulator: an obligation only     *)
(* moves forward -- identified, executed, reported, resolved -- it is       *)
(* reported by the filing of its one CNMR, and a started CNMR is filed     *)
(* before the obligation is closed.                                        *)
(***************************************************************************)
CONSTANT Freezes

VARIABLES
    stage,      \* stage[f]: where the obligation stands
    cnmr        \* cnmr[f]: its report to the regulator

vars == <<stage, cnmr>>

Init ==
    /\ stage \in [Freezes -> {"none", "pending_execution"}]
    /\ cnmr = [f \in Freezes |-> "none"]

Move(f, from, to) == stage[f] \in from /\ stage' = [stage EXCEPT ![f] = to]

Identify(f) == Move(f, {"none"}, "pending_execution") /\ UNCHANGED cnmr

Execute(f) == Move(f, {"pending_execution"}, "executed_pending_report") /\ UNCHANGED cnmr

Draft(f) ==
    /\ stage[f] = "executed_pending_report" /\ cnmr[f] = "none"
    /\ cnmr' = [cnmr EXCEPT ![f] = "draft"]
    /\ UNCHANGED stage

Report(f) ==
    /\ cnmr[f] = "draft"
    /\ Move(f, {"executed_pending_report"}, "reported")
    /\ cnmr' = [cnmr EXCEPT ![f] = "submitted"]

Resolve(f) ==
    /\ cnmr[f] # "draft"
    /\ Move(f, {"pending_execution", "executed_pending_report", "reported"}, "resolved")
    /\ UNCHANGED cnmr

Next == \E f \in Freezes : Identify(f) \/ Execute(f) \/ Draft(f) \/ Report(f) \/ Resolve(f)

Spec == Init /\ [][Next]_vars
===============================================================================
