--------------------------- MODULE AlertDisposition ---------------------------
(***************************************************************************)
(* What alert review promises an examiner, whatever steps it takes to get  *)
(* there: an alert is undecided until one decision is recorded, a recorded *)
(* decision is never replaced, and the freeze obligation of a confirmed    *)
(* match is raised by that decision and at most once.                      *)
(***************************************************************************)
EXTENDS Integers

CONSTANT Alerts

VARIABLES
    status,     \* status[a]: where the alert stands
    frozen      \* frozen[a]: how many freeze obligations it has raised

vars == <<status, frozen>>

Undecided == {"open", "pending_review"}
Decided   == {"true_positive", "false_positive", "escalated"}

Init ==
    /\ status \in [Alerts -> Undecided]
    /\ frozen = [a \in Alerts |-> 0]

\* Staged for a second operator, re-staged, or explicitly kept open.
KeepUndecided(a) ==
    /\ status[a] \in Undecided
    /\ \E s \in Undecided : status' = [status EXCEPT ![a] = s]
    /\ UNCHANGED frozen

\* Cleared or escalated.
Close(a) ==
    /\ status[a] \in Undecided
    /\ \E s \in {"false_positive", "escalated"} : status' = [status EXCEPT ![a] = s]
    /\ UNCHANGED frozen

\* Confirmed; on a freeze list the decision raises the one obligation.
Confirm(a) ==
    /\ status[a] \in Undecided
    /\ status' = [status EXCEPT ![a] = "true_positive"]
    /\ \E n \in 0..1 : frozen' = [frozen EXCEPT ![a] = n]

\* The matched entity left its list: the alert goes, its obligation stays.
Remove(a) ==
    /\ status' = [status EXCEPT ![a] = "gone"]
    /\ UNCHANGED frozen

Next == \E a \in Alerts : KeepUndecided(a) \/ Close(a) \/ Confirm(a) \/ Remove(a)

Spec == Init /\ [][Next]_vars
===============================================================================
