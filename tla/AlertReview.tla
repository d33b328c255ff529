------------------------------ MODULE AlertReview ------------------------------
(***************************************************************************)
(* The four-eyes disposition of screening alerts (amlkit/cases/review.py). *)
(*                                                                         *)
(* A request is served on its own database connection.  Its reads run in   *)
(* autocommit, one statement at a time, and only its last step is a write  *)
(* transaction, so every request is a sequence of atomic steps between     *)
(* which other requests, a settings change or a list refresh may commit.   *)
(* Slots are the requests that can be in flight at once.                   *)
(***************************************************************************)
EXTENDS Integers, FiniteSets

CONSTANTS
    Alerts,          \* alert rows
    Customers,       \* customers whose screenings raised them
    Operators,       \* operator ids of one organisation
    Slots,           \* requests in flight
    Codes,           \* reason codes an operator may pick
    CustomerOf,      \* the customer behind each alert; None for ad-hoc screening
    FreezeList,      \* alerts whose dataset is a UN or UAE local list
    LegacyPending,   \* alerts staged by a release that kept no operator id
    Settings,        \* values an administrator may give the mode
    EnvSolo,         \* AMLKIT_SINGLE_OPERATOR_MODE of the deployment
    MaxObligations,  \* obligations of one alert are counted up to this bound
    None             \* SQL NULL

ASSUME AlertsAssumption ==
    /\ CustomerOf \in [Alerts -> Customers \cup {None}]
    /\ FreezeList \subseteq Alerts
    /\ LegacyPending \subseteq Alerts
    /\ Settings \subseteq {"unset", "on", "off"}
    /\ LegacyPending # {} => "other" \in Codes
ASSUME BoundAssumption == EnvSolo \in BOOLEAN /\ MaxObligations \in Nat \ {0}
ASSUME NoneAssumption == None \notin Operators /\ None \notin Customers

VARIABLES
    alert,        \* alert[a]: the row of table alerts
    reviews,      \* reviews[a]: the rows of alert_reviews that dismiss the alert
    proposal,     \* proposal[a]: the latest row with action 'propose', or None
    obligations,  \* obligations[a]: freeze_obligations raised by the alert
    listed,       \* listed[a]: the matched entity carries a sanctions topic or programme
    orgSetting,   \* org_settings.single_operator_mode
    manyOrgs,     \* the database holds more than one organisation
    req,          \* req[s]: the request in slot s
    plainSeen,    \* history: alerts whose entity was at some time not listed
    soloSeen      \* history: single-operator mode was at some time in force

record  == <<alert, reviews, proposal, obligations>>
context == <<listed, orgSetting, manyOrgs, plainSeen, soloSeen>>
vars    == <<record, context, req>>

-------------------------------------------------------------------------------
\* Vocabulary

DISPOSITIONS == {"true_positive", "false_positive", "escalated", "open"}
PENDING      == "pending_review"
Undecided    == {"open", PENDING}
Final        == {"true_positive", "false_positive", "escalated"}

ALLOWED_REASON_CODES ==
    [false_positive |-> {"different_dob", "different_nationality", "name_coincidence",
                         "different_entity_type", "other"},
     true_positive  |-> {"confirmed_match", "other"},
     escalated      |-> {"confirmed_match", "insufficient_data", "other"},
     open           |-> {"insufficient_data", "other"}]

Fits(st, c) == st \in DISPOSITIONS /\ c \in ALLOWED_REASON_CODES[st]

AlertRow  == [status : DISPOSITIONS \cup {PENDING, "gone"}, code : Codes \cup {None},
              independent : {"none", "pending", "completed", "single_operator", "not_required"}]
Proposal  == [status : DISPOSITIONS, code : Codes, op : Operators \cup {None}]
ReviewRow == [action : {"propose", "confirm"}, op : Operators \cup {None}]

\* What a request holds between two of its statements.
Phases  == {"idle", "checked", "topics", "decided", "proposal", "cleared", "bulk", "bulkNext"}
Request == [phase : Phases, op : Operators \cup {None}, alert : Alerts \cup {None},
            status : DISPOSITIONS, code : Codes \cup {None}, agree : BOOLEAN,
            needs : BOOLEAN, staged : BOOLEAN,
            proposal : Proposal \cup {None}, todo : SUBSET Alerts]

NoRequest == [phase |-> "idle", op |-> None, alert |-> None, status |-> "open", code |-> None,
              agree |-> TRUE, needs |-> FALSE, staged |-> FALSE, proposal |-> None, todo |-> {}]

Gone == [status |-> "gone", code |-> None, independent |-> "none"]
Present(a) == alert[a].status # "gone"

-------------------------------------------------------------------------------
\* What the handlers read

SoloUnder(setting, many) ==
    IF setting = "unset" THEN EnvSolo /\ ~many ELSE setting = "on"

single_operator_mode == SoloUnder(orgSetting, manyOrgs)

needs_independent_review(a, st) == st = "false_positive" /\ listed[a]

\* The status check of propose_disposition (Issue #167).
\* Mutation: the check as it was before that issue.
MayProposeAlways(a) == Present(a)
MayPropose(a) == alert[a].status \in Undecided

\* Mutation: the confirming operator is not compared with the proposer.
NeverSameOperator(p, op) == FALSE
same_operator(p, op) == p.op # None /\ p.op = op

\* The write transactions of propose_disposition and confirm_disposition.

\* Mutation: the obligation is raised for an escalation, not for a confirmation.
FreezeOnEscalation(a, st) ==
    st = "escalated" /\ a \in FreezeList /\ listed[a] /\ CustomerOf[a] # None
FreezeRequired(a, st) ==
    st = "true_positive" /\ a \in FreezeList /\ listed[a] /\ CustomerOf[a] # None

_auto_create_freeze_if_required(a, st) ==
    obligations' =
        IF FreezeRequired(a, st) /\ obligations[a] < MaxObligations
        THEN [obligations EXCEPT ![a] = @ + 1]
        ELSE obligations

\* Mutation: a label the column does not know.
IndependentReviewMislabelled(needs, staged) ==
    IF staged THEN "pending" ELSE IF needs THEN "solo" ELSE "not_required"
IndependentReview(needs, staged) ==
    IF staged THEN "pending" ELSE IF needs THEN "single_operator" ELSE "not_required"

\* INSERT INTO alert_reviews; rows of other dispositions are left out, no
\* property reads them.  The confirm row keeps the operator's name.
AddReview(a, action, st, op) ==
    reviews' = IF st = "false_positive"
               THEN [reviews EXCEPT ![a] = @ \cup {[action |-> action, op |-> op]}]
               ELSE reviews

RecordProposal(a, p, needs, staged) ==
    LET applied == IF staged THEN PENDING ELSE p.status
    IN  /\ proposal' = [proposal EXCEPT ![a] = p]
        /\ AddReview(a, "propose", p.status, p.op)
        /\ alert' = [alert EXCEPT ![a] =
               [status |-> applied, code |-> p.code,
                independent |-> IndependentReview(needs, staged)]]
        /\ _auto_create_freeze_if_required(a, applied)

RecordConfirmation(a, op, st, c) ==
    /\ AddReview(a, "confirm", st, op)
    /\ alert' = [alert EXCEPT ![a] =
           [status |-> st, code |-> c, independent |-> "completed"]]
    /\ _auto_create_freeze_if_required(a, st)
    /\ UNCHANGED proposal

-------------------------------------------------------------------------------
Init ==
    /\ alert = [a \in Alerts |->
           IF a \in LegacyPending
           THEN [status |-> PENDING, code |-> "other", independent |-> "pending"]
           ELSE [status |-> "open", code |-> None, independent |-> "none"]]
    /\ proposal = [a \in Alerts |->
           IF a \in LegacyPending
           THEN [status |-> "false_positive", code |-> "other", op |-> None] ELSE None]
    /\ reviews = [a \in Alerts |->
           IF a \in LegacyPending
           THEN {[action |-> "propose", op |-> None]} ELSE {}]
    /\ obligations = [a \in Alerts |-> 0]
    /\ listed \in [Alerts -> BOOLEAN]
    /\ orgSetting = "unset" /\ manyOrgs \in BOOLEAN
    /\ req = [s \in Slots |-> NoRequest]
    /\ plainSeen = {a \in Alerts : ~listed[a]}
    /\ soloSeen = SoloUnder("unset", manyOrgs)

\* The request ends: its answer is sent, it is refused, or the process dies.
Finish(s) == req' = [req EXCEPT ![s] = NoRequest]

\* propose_disposition: SELECT status.  A refused request changes nothing.
ProposeCheckStatus(s, op, a, st, c) ==
    /\ req[s].phase = "idle"
    /\ Fits(st, c)
    /\ MayPropose(a)
    /\ req' = [req EXCEPT ![s] = [NoRequest EXCEPT
           !.phase = "checked", !.op = op, !.alert = a, !.status = st, !.code = c]]
    /\ UNCHANGED <<record, context>>

\* needs_independent_review: for a dismissal, SELECT the entity's topics and programmes.
ReadTopics(s) ==
    LET a == req[s].alert
    IN  /\ req[s].phase = "checked"
        /\ IF req[s].status # "false_positive" \/ Present(a)
           THEN req' = [req EXCEPT ![s].phase = "topics",
                                   ![s].needs = needs_independent_review(a, req[s].status)]
           ELSE Finish(s)
        /\ UNCHANGED <<record, context>>

\* single_operator_mode: SELECT the setting, then decide what to write.
ReadMode(s) ==
    /\ req[s].phase = "topics"
    /\ req' = [req EXCEPT ![s].phase = "decided",
                          ![s].staged = req[s].needs /\ ~single_operator_mode]
    /\ UNCHANGED <<record, context>>

\* The transaction.  The UPDATE names the alert only by its id; it fails, and
\* everything rolls back, only when the row is gone.
CommitProposal(s) ==
    LET r == req[s]
    IN  /\ r.phase = "decided"
        /\ IF Present(r.alert)
           THEN /\ RecordProposal(r.alert, [status |-> r.status, code |-> r.code, op |-> r.op],
                                  r.needs, r.staged)
                /\ req' = [req EXCEPT ![s] = IF r.todo = {} THEN NoRequest ELSE
                       [NoRequest EXCEPT !.phase = "bulkNext", !.op = r.op,
                                         !.code = r.code, !.todo = r.todo]]
           ELSE Finish(s) /\ UNCHANGED record
        /\ UNCHANGED context

\* bulk_dismiss_alerts: SELECT the customer's open alerts ...
BulkSelect(s, op, cust, c) ==
    LET rows == {a \in Alerts : CustomerOf[a] = cust /\ alert[a].status = "open"}
    IN  /\ req[s].phase = "idle"
        /\ rows # {}
        /\ Fits("false_positive", c)
        /\ req' = [req EXCEPT ![s] = [NoRequest EXCEPT
               !.phase = "bulk", !.op = op, !.code = c, !.todo = rows]]
        /\ UNCHANGED <<record, context>>

\* ... propose the first of them like any other dismissal ...
BulkFirst(s, a) ==
    LET r == req[s]
    IN  /\ r.phase = "bulk" /\ a \in r.todo
        /\ IF MayPropose(a)
           THEN req' = [req EXCEPT ![s] = [r EXCEPT
                    !.phase = "checked", !.alert = a, !.status = "false_positive",
                    !.todo = @ \ {a}]]
           ELSE Finish(s)
        /\ UNCHANGED <<record, context>>

\* ... and the others with the write lock held from the status check on: the
\* audit row of the previous alert has opened the transaction they run in.
BulkNext(s, a) ==
    LET r == req[s]
        needs == needs_independent_review(a, "false_positive")
    IN  /\ r.phase = "bulkNext" /\ a \in r.todo
        /\ IF MayPropose(a)
           THEN /\ RecordProposal(a, [status |-> "false_positive", code |-> r.code, op |-> r.op],
                                  needs, needs /\ ~single_operator_mode)
                /\ IF r.todo = {a} THEN Finish(s) ELSE req' = [req EXCEPT ![s].todo = @ \ {a}]
           ELSE Finish(s) /\ UNCHANGED record
        /\ UNCHANGED context

\* confirm_disposition: SELECT the latest proposal.  agree = FALSE is an override.
ConfirmReadProposal(s, op, a, agree, c) ==
    /\ req[s].phase = "idle"
    /\ proposal[a] # None
    /\ agree \/ Fits("escalated", c)
    /\ req' = [req EXCEPT ![s] = [NoRequest EXCEPT
           !.phase = "proposal", !.op = op, !.alert = a, !.agree = agree,
           !.code = IF agree THEN None ELSE c, !.proposal = proposal[a]]]
    /\ UNCHANGED <<record, context>>

\* SELECT status, and the different-operator rule.
ConfirmCheck(s) ==
    LET r == req[s]
    IN  /\ r.phase = "proposal"
        /\ IF alert[r.alert].status = PENDING /\ ~same_operator(r.proposal, r.op)
           THEN req' = [req EXCEPT ![s].phase = "cleared"]
           ELSE Finish(s)
        /\ UNCHANGED <<record, context>>

CommitConfirmation(s) ==
    LET r == req[s]
    IN  /\ r.phase = "cleared"
        /\ IF Present(r.alert)
           THEN IF r.agree
                THEN RecordConfirmation(r.alert, r.op, r.proposal.status, r.proposal.code)
                ELSE RecordConfirmation(r.alert, r.op, "escalated", r.code)
           ELSE UNCHANGED record
        /\ Finish(s)
        /\ UNCHANGED context

\* The worker dies, or the write is abandoned after the busy timeout.
Abort(s) == req[s].phase # "idle" /\ Finish(s) /\ UNCHANGED <<record, context>>

\* An administrator changes the mode; another organisation signs up.
SetSingleOperatorMode(v) ==
    /\ v # orgSetting
    /\ orgSetting' = v
    /\ soloSeen' = (soloSeen \/ SoloUnder(v, manyOrgs))
    /\ UNCHANGED <<record, req, listed, manyOrgs, plainSeen>>

RegisterOrganization ==
    /\ ~manyOrgs /\ manyOrgs' = TRUE
    /\ soloSeen' = (soloSeen \/ SoloUnder(orgSetting, TRUE))
    /\ UNCHANGED <<record, req, listed, orgSetting, plainSeen>>

\* A list refresh rewrites the entity in place, or deletes it and, by cascade,
\* its alerts and their review rows; the obligation survives with a NULL alert_id.
ListChange(a) ==
    /\ Present(a)
    /\ listed' = [listed EXCEPT ![a] = ~@]
    /\ plainSeen' = IF listed[a] THEN plainSeen \cup {a} ELSE plainSeen
    /\ UNCHANGED <<record, req, orgSetting, manyOrgs, soloSeen>>

Delist(a) ==
    /\ Present(a)
    /\ alert' = [alert EXCEPT ![a] = Gone]
    /\ reviews' = [reviews EXCEPT ![a] = {}]
    /\ proposal' = [proposal EXCEPT ![a] = None]
    /\ UNCHANGED <<obligations, context, req>>

Next ==
    \/ \E s \in Slots, op \in Operators, a \in Alerts, c \in Codes :
          \/ \E st \in DISPOSITIONS : ProposeCheckStatus(s, op, a, st, c)
          \/ \E agree \in BOOLEAN : ConfirmReadProposal(s, op, a, agree, c)
    \/ \E s \in Slots, op \in Operators, cust \in Customers, c \in Codes :
          BulkSelect(s, op, cust, c)
    \/ \E s \in Slots, a \in Alerts : BulkFirst(s, a) \/ BulkNext(s, a)
    \/ \E s \in Slots :
          \/ ReadTopics(s) \/ ReadMode(s) \/ CommitProposal(s)
          \/ ConfirmCheck(s) \/ CommitConfirmation(s) \/ Abort(s)
    \/ \E v \in Settings : SetSingleOperatorMode(v)
    \/ RegisterOrganization
    \/ \E a \in Alerts : ListChange(a) \/ Delist(a)

Spec == Init /\ [][Next]_vars

-------------------------------------------------------------------------------
\* Properties

\* Every variable has its type.
TypeOK ==
    /\ alert \in [Alerts -> AlertRow]
    /\ reviews \in [Alerts -> SUBSET ReviewRow]
    /\ proposal \in [Alerts -> Proposal \cup {None}]
    /\ obligations \in [Alerts -> 0..MaxObligations]
    /\ listed \in [Alerts -> BOOLEAN]
    /\ orgSetting \in {"unset", "on", "off"}
    /\ manyOrgs \in BOOLEAN
    /\ req \in [Slots -> Request]
    /\ plainSeen \subseteq Alerts
    /\ soloSeen \in BOOLEAN

TwoOperators(a) ==
    \E p, c \in reviews[a] :
        p.action = "propose" /\ c.action = "confirm" /\ p.op # c.op

\* What the alert's independent_review column says of a dismissal is true:
\* 'completed' means that two different operators proposed and confirmed it,
\* 'single_operator' that the mode was really on, 'not_required' that the
\* entity was really off the sanctions topics.  Hence a match that was always
\* a sanctions match, in a firm that never ran solo, is never cleared by one
\* person, however requests, settings changes and refreshes interleave.
FourEyes ==
    \A a \in Alerts : alert[a].status = "false_positive" =>
        /\ alert[a].independent = "completed" => TwoOperators(a)
        /\ alert[a].independent = "single_operator" => soloSeen
        /\ alert[a].independent = "not_required" => a \in plainSeen
        /\ alert[a].independent \in {"completed", "single_operator", "not_required"}

\* A confirmed match on a UN or UAE list, linked to a customer and listed
\* throughout, has its freeze obligation from the moment it is confirmed.
ConfirmedIsFrozen ==
    \A a \in FreezeList :
        alert[a].status = "true_positive" /\ CustomerOf[a] # None /\ a \notin plainSeen
            => obligations[a] > 0

\* Issue #167: an alert that already has a final disposition is never given
\* another one.  Holds when requests do not overlap.
NoDoubleDisposition ==
    [][\A a \in Alerts : alert[a].status \in Final =>
           alert'[a].status \in {alert[a].status, "gone"}]_vars

\* One alert raises at most one obligation and is not cleared while it stands
\* frozen: the abstract promise AlertDisposition, for requests that do not overlap.
Disposition == INSTANCE AlertDisposition WITH
    status <- [a \in Alerts |-> alert[a].status], frozen <- obligations
DispositionSpec == Disposition!Spec
===============================================================================
