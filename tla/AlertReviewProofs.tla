--------------------------- MODULE AlertReviewProofs ---------------------------
(***************************************************************************)
(* Proofs about AlertReview for every set of alerts, operators and request *)
(* slots: type correctness, the four-eyes rule from an inductive invariant *)
(* on what a request has read and on what was ever true, the freeze behind *)
(* a confirmed match and, for requests that do not overlap, one decision   *)
(* per alert and the abstract specification AlertDisposition.              *)
(***************************************************************************)
EXTENDS AlertReview, TLAPS

\* Constants are typed, NULL is no operator.
USE AlertsAssumption, BoundAssumption, NoneAssumption

\* The actions of one request.
RequestStep(s) ==
    \/ \E op \in Operators, a \in Alerts, c \in Codes :
          \/ \E st \in DISPOSITIONS : ProposeCheckStatus(s, op, a, st, c)
          \/ \E agree \in BOOLEAN : ConfirmReadProposal(s, op, a, agree, c)
    \/ \E op \in Operators, cust \in Customers, c \in Codes : BulkSelect(s, op, cust, c)
    \/ \E a \in Alerts : BulkFirst(s, a) \/ BulkNext(s, a)
    \/ ReadTopics(s) \/ ReadMode(s) \/ CommitProposal(s)
    \/ ConfirmCheck(s) \/ CommitConfirmation(s) \/ Abort(s)

-------------------------------------------------------------------------------
\* Type correctness

RecordOK ==
    /\ alert \in [Alerts -> AlertRow]
    /\ reviews \in [Alerts -> SUBSET ReviewRow]
    /\ proposal \in [Alerts -> Proposal \cup {None}]
    /\ obligations \in [Alerts -> 0..MaxObligations]

ContextOK ==
    /\ listed \in [Alerts -> BOOLEAN]
    /\ orgSetting \in {"unset", "on", "off"}
    /\ manyOrgs \in BOOLEAN
    /\ plainSeen \subseteq Alerts
    /\ soloSeen \in BOOLEAN

\* What a request knows in each of its phases.
Informed(r) ==
    /\ r.phase \in {"checked", "topics", "decided"} =>
           r.alert \in Alerts /\ r.op \in Operators /\ r.code \in Codes
    /\ r.phase \in {"bulk", "bulkNext"} => r.op \in Operators /\ r.code \in Codes
    /\ r.phase \in {"proposal", "cleared"} =>
           /\ r.alert \in Alerts /\ r.op \in Operators /\ r.proposal \in Proposal
           /\ ~r.agree => r.code \in Codes

RequestsOK == req \in [Slots -> Request] /\ \A s \in Slots : Informed(req[s])

TypeInv == RecordOK /\ ContextOK /\ RequestsOK

LEMMA SoloIsBoolean ==
    ASSUME NEW v, NEW many \in BOOLEAN
    PROVE  SoloUnder(v, many) \in BOOLEAN
BY DEF SoloUnder

LEMMA NoRequestOK == NoRequest \in Request /\ Informed(NoRequest)
BY DEF NoRequest, Request, Phases, DISPOSITIONS, Informed

\* A request that ends leaves the others as they are.
LEMMA FinishOK ==
    ASSUME RequestsOK, NEW s \in Slots, Finish(s)
    PROVE  RequestsOK'
BY NoRequestOK DEF RequestsOK, Finish

\* So does one that takes a step to a well-formed state of its own.
LEMMA StepOK ==
    ASSUME RequestsOK, NEW s \in Slots, NEW r \in Request, Informed(r),
           req' = [req EXCEPT ![s] = r]
    PROVE  RequestsOK'
BY DEF RequestsOK

LEMMA FreezeOK ==
    ASSUME RecordOK, NEW a \in Alerts, NEW st, _auto_create_freeze_if_required(a, st)
    PROVE  obligations' \in [Alerts -> 0..MaxObligations]
BY DEF RecordOK, _auto_create_freeze_if_required

LEMMA RecordProposalOK ==
    ASSUME RecordOK, NEW a \in Alerts, NEW p \in Proposal, NEW needs \in BOOLEAN,
           NEW staged \in BOOLEAN, RecordProposal(a, p, needs, staged)
    PROVE  RecordOK'
<1>1. obligations' \in [Alerts -> 0..MaxObligations]
  BY FreezeOK DEF RecordProposal
<1>2. proposal' \in [Alerts -> Proposal \cup {None}]
  BY DEF RecordProposal, RecordOK
<1>3. reviews' \in [Alerts -> SUBSET ReviewRow]
  BY DEF RecordProposal, RecordOK, AddReview, ReviewRow, Proposal
<1>4. alert' \in [Alerts -> AlertRow]
  BY DEF RecordProposal, RecordOK, AlertRow, Proposal, IndependentReview, PENDING
<1>5. QED
  BY <1>1, <1>2, <1>3, <1>4 DEF RecordOK

LEMMA RecordConfirmationOK ==
    ASSUME RecordOK, NEW a \in Alerts, NEW op \in Operators, NEW st \in DISPOSITIONS,
           NEW c \in Codes, RecordConfirmation(a, op, st, c)
    PROVE  RecordOK'
<1>1. obligations' \in [Alerts -> 0..MaxObligations]
  BY FreezeOK DEF RecordConfirmation
<1>2. reviews' \in [Alerts -> SUBSET ReviewRow]
  BY DEF RecordConfirmation, RecordOK, AddReview, ReviewRow
<1>3. alert' \in [Alerts -> AlertRow]
  BY DEF RecordConfirmation, RecordOK, AlertRow
<1>4. QED
  BY <1>1, <1>2, <1>3 DEF RecordOK, RecordConfirmation

LEMMA RequestStepOK ==
    ASSUME TypeInv, NEW s \in Slots, RequestStep(s)
    PROVE  TypeInv'
<1> DEFINE r == req[s]
<1>0. r \in Request /\ Informed(r)
  BY DEF TypeInv, RequestsOK
<1>1. ASSUME NEW op \in Operators, NEW a \in Alerts, NEW c \in Codes,
             NEW st \in DISPOSITIONS, ProposeCheckStatus(s, op, a, st, c)
      PROVE  TypeInv'
  <2> DEFINE q == [NoRequest EXCEPT
           !.phase = "checked", !.op = op, !.alert = a, !.status = st, !.code = c]
  <2>1. q \in Request /\ Informed(q)
    BY NoRequestOK DEF NoRequest, Request, Phases, Informed
  <2>2. RequestsOK'
    BY <1>1, <2>1, StepOK DEF ProposeCheckStatus, TypeInv
  <2>3. QED
    BY <1>1, <2>2 DEF ProposeCheckStatus, TypeInv, RecordOK, ContextOK, record, context
<1>2. ASSUME NEW op \in Operators, NEW a \in Alerts, NEW c \in Codes,
             NEW agree \in BOOLEAN, ConfirmReadProposal(s, op, a, agree, c)
      PROVE  TypeInv'
  <2> DEFINE q == [NoRequest EXCEPT
           !.phase = "proposal", !.op = op, !.alert = a, !.agree = agree,
           !.code = IF agree THEN None ELSE c, !.proposal = proposal[a]]
  <2>1. proposal[a] \in Proposal
    BY <1>2 DEF ConfirmReadProposal, TypeInv, RecordOK
  <2>2. q \in Request /\ Informed(q)
    BY <2>1, NoRequestOK DEF NoRequest, Request, Phases, Informed
  <2>3. RequestsOK'
    BY <1>2, <2>2, StepOK DEF ConfirmReadProposal, TypeInv
  <2>4. QED
    BY <1>2, <2>3 DEF ConfirmReadProposal, TypeInv, RecordOK, ContextOK, record, context
<1>3. ASSUME NEW op \in Operators, NEW cust \in Customers, NEW c \in Codes,
             BulkSelect(s, op, cust, c)
      PROVE  TypeInv'
  <2> DEFINE rows == {a \in Alerts : CustomerOf[a] = cust /\ alert[a].status = "open"}
             q == [NoRequest EXCEPT !.phase = "bulk", !.op = op, !.code = c, !.todo = rows]
  <2>1. q \in Request /\ Informed(q)
    BY NoRequestOK DEF NoRequest, Request, Phases, Informed
  <2>2. RequestsOK'
    BY <1>3, <2>1, StepOK DEF BulkSelect, TypeInv
  <2>3. QED
    BY <1>3, <2>2 DEF BulkSelect, TypeInv, RecordOK, ContextOK, record, context
<1>4. ASSUME NEW a \in Alerts, BulkFirst(s, a)
      PROVE  TypeInv'
  <2> DEFINE q == [r EXCEPT !.phase = "checked", !.alert = a, !.status = "false_positive",
                            !.todo = @ \ {a}]
  <2>1. q \in Request /\ Informed(q)
    BY <1>0, <1>4 DEF BulkFirst, Request, Phases, Informed, DISPOSITIONS
  <2>2. RequestsOK'
    BY <1>4, <2>1, StepOK, FinishOK DEF BulkFirst, TypeInv
  <2>3. QED
    BY <1>4, <2>2 DEF BulkFirst, TypeInv, RecordOK, ContextOK, record, context
<1>5. ASSUME NEW a \in Alerts, BulkNext(s, a)
      PROVE  TypeInv'
  <2> DEFINE p == [status |-> "false_positive", code |-> r.code, op |-> r.op]
             needs == needs_independent_review(a, "false_positive")
             staged == needs /\ ~single_operator_mode
             q == [r EXCEPT !.todo = @ \ {a}]
  <2>1. p \in Proposal /\ needs \in BOOLEAN /\ staged \in BOOLEAN
    BY <1>0, <1>5 DEF BulkNext, Informed, Proposal, DISPOSITIONS, TypeInv, ContextOK,
                      needs_independent_review
  <2>2. q \in Request /\ Informed(q)
    BY <1>0 DEF Request, Informed
  <2>3. RecordOK'
    <3>1. CASE RecordProposal(a, p, needs, staged)
      BY <3>1, <2>1, RecordProposalOK DEF TypeInv
    <3>2. CASE UNCHANGED record
      BY <3>2 DEF TypeInv, RecordOK, record
    <3>3. QED
      BY <1>5, <3>1, <3>2 DEF BulkNext
  <2>4. RequestsOK'
    <3>1. CASE Finish(s)
      BY <3>1, FinishOK DEF TypeInv
    <3>2. CASE req' = [req EXCEPT ![s] = q]
      BY <3>2, <2>2, StepOK DEF TypeInv
    <3>3. [req EXCEPT ![s].todo = @ \ {a}] = [req EXCEPT ![s] = q]
      BY DEF TypeInv, RequestsOK
    <3>4. QED
      BY <1>5, <3>1, <3>2, <3>3 DEF BulkNext
  <2>5. QED
    BY <1>5, <2>3, <2>4 DEF BulkNext, TypeInv, ContextOK, context
<1>6. CASE ReadTopics(s)
  <2> DEFINE q == [r EXCEPT !.phase = "topics",
                            !.needs = needs_independent_review(r.alert, r.status)]
  <2>1. r.phase = "checked" => q \in Request /\ Informed(q)
    BY <1>0 DEF Request, Phases, Informed, needs_independent_review, TypeInv, ContextOK
  <2>2. [req EXCEPT ![s].phase = "topics",
                    ![s].needs = needs_independent_review(r.alert, r.status)]
            = [req EXCEPT ![s] = q]
    BY DEF TypeInv, RequestsOK
  <2>3. RequestsOK'
    BY <1>6, <2>1, <2>2, StepOK, FinishOK DEF ReadTopics, TypeInv
  <2>4. QED
    BY <1>6, <2>3 DEF ReadTopics, TypeInv, RecordOK, ContextOK, record, context
<1>7. CASE ReadMode(s)
  <2> DEFINE q == [r EXCEPT !.phase = "decided", !.staged = r.needs /\ ~single_operator_mode]
  <2>1. r.phase = "topics" => q \in Request /\ Informed(q)
    BY <1>0 DEF Request, Phases, Informed
  <2>2. [req EXCEPT ![s].phase = "decided", ![s].staged = r.needs /\ ~single_operator_mode]
            = [req EXCEPT ![s] = q]
    BY DEF TypeInv, RequestsOK
  <2>3. RequestsOK'
    BY <1>7, <2>1, <2>2, StepOK DEF ReadMode, TypeInv
  <2>4. QED
    BY <1>7, <2>3 DEF ReadMode, TypeInv, RecordOK, ContextOK, record, context
<1>8. CASE CommitProposal(s)
  <2> DEFINE p == [status |-> r.status, code |-> r.code, op |-> r.op]
             q == [NoRequest EXCEPT !.phase = "bulkNext", !.op = r.op, !.code = r.code,
                                    !.todo = r.todo]
  <2>1. p \in Proposal /\ r.needs \in BOOLEAN /\ r.staged \in BOOLEAN /\ r.alert \in Alerts
    BY <1>0, <1>8 DEF CommitProposal, Informed, Proposal, Request
  <2>2. q \in Request /\ Informed(q)
    BY <1>0, <1>8, NoRequestOK DEF CommitProposal, NoRequest, Request, Phases, Informed
  <2>3. RecordOK'
    <3>1. CASE RecordProposal(r.alert, p, r.needs, r.staged)
      BY <3>1, <2>1, RecordProposalOK DEF TypeInv
    <3>2. CASE UNCHANGED record
      BY <3>2 DEF TypeInv, RecordOK, record
    <3>3. QED
      BY <1>8, <3>1, <3>2 DEF CommitProposal
  <2>4. RequestsOK'
    <3>1. CASE Finish(s)
      BY <3>1, FinishOK DEF TypeInv
    <3>2. CASE req' = [req EXCEPT ![s] = q]
      BY <3>2, <2>2, StepOK DEF TypeInv
    <3>3. QED
      BY <1>8, <3>1, <3>2 DEF CommitProposal, Finish
  <2>5. QED
    BY <1>8, <2>3, <2>4 DEF CommitProposal, TypeInv, ContextOK, context
<1>9. CASE ConfirmCheck(s)
  <2> DEFINE q == [r EXCEPT !.phase = "cleared"]
  <2>1. r.phase = "proposal" => q \in Request /\ Informed(q)
    BY <1>0 DEF Request, Phases, Informed
  <2>2. [req EXCEPT ![s].phase = "cleared"] = [req EXCEPT ![s] = q]
    BY DEF TypeInv, RequestsOK
  <2>3. RequestsOK'
    BY <1>9, <2>1, <2>2, StepOK, FinishOK DEF ConfirmCheck, TypeInv
  <2>4. QED
    BY <1>9, <2>3 DEF ConfirmCheck, TypeInv, RecordOK, ContextOK, record, context
<1>10. CASE CommitConfirmation(s)
  <2>1. r.alert \in Alerts /\ r.op \in Operators /\ r.proposal \in Proposal
        /\ (~r.agree => r.code \in Codes)
    BY <1>0, <1>10 DEF CommitConfirmation, Informed
  <2>2. r.proposal.status \in DISPOSITIONS /\ r.proposal.code \in Codes
        /\ "escalated" \in DISPOSITIONS
    BY <2>1 DEF Proposal, DISPOSITIONS
  <2>3. RecordOK'
    <3>1. CASE r.agree /\ RecordConfirmation(r.alert, r.op, r.proposal.status, r.proposal.code)
      BY <3>1, <2>1, <2>2, RecordConfirmationOK DEF TypeInv
    <3>2. CASE ~r.agree /\ RecordConfirmation(r.alert, r.op, "escalated", r.code)
      BY <3>2, <2>1, <2>2, RecordConfirmationOK DEF TypeInv
    <3>3. CASE UNCHANGED record
      BY <3>3 DEF TypeInv, RecordOK, record
    <3>4. QED
      BY <1>10, <3>1, <3>2, <3>3 DEF CommitConfirmation
  <2>4. RequestsOK'
    BY <1>10, FinishOK DEF CommitConfirmation, TypeInv
  <2>5. QED
    BY <1>10, <2>3, <2>4 DEF CommitConfirmation, TypeInv, ContextOK, context
<1>11. CASE Abort(s)
  <2>1. RequestsOK'
    BY <1>11, FinishOK DEF Abort, TypeInv
  <2>2. QED
    BY <1>11, <2>1 DEF Abort, TypeInv, RecordOK, ContextOK, record, context
<1>12. QED
  BY <1>1, <1>2, <1>3, <1>4, <1>5, <1>6, <1>7, <1>8, <1>9, <1>10, <1>11 DEF RequestStep

\* The steps of the surroundings touch no request.
LEMMA SurroundingsOK ==
    ASSUME TypeInv,
           \/ \E v \in Settings : SetSingleOperatorMode(v)
           \/ RegisterOrganization
           \/ \E a \in Alerts : ListChange(a) \/ Delist(a)
    PROVE  TypeInv'
<1>1. ASSUME NEW v \in Settings, SetSingleOperatorMode(v)
      PROVE  TypeInv'
  BY <1>1, SoloIsBoolean
  DEF SetSingleOperatorMode, TypeInv, RecordOK, ContextOK, RequestsOK, record
<1>2. CASE RegisterOrganization
  BY <1>2, SoloIsBoolean
  DEF RegisterOrganization, TypeInv, RecordOK, ContextOK, RequestsOK, record
<1>3. ASSUME NEW a \in Alerts, ListChange(a)
      PROVE  TypeInv'
  BY <1>3 DEF ListChange, TypeInv, RecordOK, ContextOK, RequestsOK, record
<1>4. ASSUME NEW a \in Alerts, Delist(a)
      PROVE  TypeInv'
  <2>1. Gone \in AlertRow
    BY DEF Gone, AlertRow
  <2>2. RecordOK'
    BY <1>4, <2>1 DEF Delist, TypeInv, RecordOK
  <2>3. QED
    BY <1>4, <2>2 DEF Delist, TypeInv, ContextOK, RequestsOK, context
<1>5. QED
  BY <1>1, <1>2, <1>3, <1>4

LEMMA NextSplit ==
    ASSUME Next
    PROVE  \/ \E s \in Slots : RequestStep(s)
           \/ \E v \in Settings : SetSingleOperatorMode(v)
           \/ RegisterOrganization
           \/ \E a \in Alerts : ListChange(a) \/ Delist(a)
BY Zenon DEF Next, RequestStep

LEMMA TypeInit == Init => TypeInv
<1> SUFFICES ASSUME Init PROVE TypeInv
  OBVIOUS
<1>1. RecordOK
  BY DEF Init, RecordOK, AlertRow, Proposal, ReviewRow, DISPOSITIONS, PENDING
<1>2. ContextOK
  BY SoloIsBoolean DEF Init, ContextOK
<1>3. RequestsOK
  BY NoRequestOK DEF Init, RequestsOK
<1>4. QED
  BY <1>1, <1>2, <1>3 DEF TypeInv

LEMMA TypeStep == TypeInv /\ [Next]_vars => TypeInv'
<1> SUFFICES ASSUME TypeInv, [Next]_vars PROVE TypeInv'
  OBVIOUS
<1>1. CASE Next
  BY <1>1, NextSplit, RequestStepOK, SurroundingsOK
<1>2. CASE UNCHANGED vars
  BY <1>2 DEF vars, record, context, TypeInv, RecordOK, ContextOK, RequestsOK
<1>3. QED
  BY <1>1, <1>2

\* Every reachable state is well typed, for all values of the constants.
THEOREM TypeCorrect == Spec => []TypeOK
<1>1. TypeInv => TypeOK
  BY DEF TypeInv, RecordOK, ContextOK, RequestsOK, TypeOK
<1>2. QED
  BY <1>1, TypeInit, TypeStep, PTL DEF Spec

-------------------------------------------------------------------------------
\* The four-eyes rule.  FourEyes alone is not inductive: whether a dismissal may
\* be applied was decided from what the request read some steps earlier.

ProposeRow(p) == [action |-> "propose", op |-> p.op]

\* The history variables remember what is the case now.
HistoryInv ==
    /\ \A a \in Alerts : ~listed[a] => a \in plainSeen
    /\ single_operator_mode => soloSeen

\* The latest proposal, when it dismisses, is among the alert's reviews.
EvidenceInv ==
    \A a \in Alerts :
        proposal[a] # None /\ proposal[a].status = "false_positive"
            => ProposeRow(proposal[a]) \in reviews[a]

\* What a proposal has read was once so ...
ProposeGrounds(r, plain, solo) ==
    /\ r.phase \in {"topics", "decided"} /\ r.status = "false_positive" /\ ~r.needs
           => r.alert \in plain
    /\ r.phase = "decided" /\ r.needs /\ ~r.staged => solo

\* ... and what a confirmation has read is still on record, if the alert is.
ConfirmGrounds(r, rows, revs) ==
    /\ r.phase \in {"proposal", "cleared"} /\ rows[r.alert].status # "gone"
       /\ r.proposal.status = "false_positive"
           => ProposeRow(r.proposal) \in revs[r.alert]
    /\ r.phase = "cleared" => r.proposal.op # r.op

Grounds(r, plain, solo, rows, revs) ==
    ProposeGrounds(r, plain, solo) /\ ConfirmGrounds(r, rows, revs)

GroundsInv == \A s \in Slots : Grounds(req[s], plainSeen, soloSeen, alert, reviews)

ReviewInv == TypeInv /\ HistoryInv /\ EvidenceInv /\ GroundsInv /\ FourEyes

\* History is never forgotten, a removed alert never returns, and the reviews
\* of an alert that is there only grow.
Persist ==
    /\ plainSeen \subseteq plainSeen'
    /\ soloSeen => soloSeen'
    /\ \A a \in Alerts : alert'[a].status # "gone" =>
           alert[a].status # "gone" /\ reviews[a] \subseteq reviews'[a]

\* The grounds of a request that does not move outlive the steps of others.
LEMMA GroundsPersist ==
    ASSUME Persist, NEW r, Informed(r), Grounds(r, plainSeen, soloSeen, alert, reviews)
    PROVE  Grounds(r, plainSeen', soloSeen', alert', reviews')
BY DEF Persist, Informed, Grounds, ProposeGrounds, ConfirmGrounds

\* So a step keeps GroundsInv when the request that moves, if any, has grounds.
LEMMA GroundsStep ==
    ASSUME TypeInv, GroundsInv, Persist, NEW s \in Slots, NEW r,
           req' = [req EXCEPT ![s] = r],
           Grounds(r, plainSeen', soloSeen', alert', reviews')
    PROVE  GroundsInv'
<1>1. ASSUME NEW t \in Slots
      PROVE  Grounds(req'[t], plainSeen', soloSeen', alert', reviews')
  <2>1. CASE t = s
    BY <2>1 DEF TypeInv, RequestsOK
  <2>2. CASE t # s
    <3>1. req'[t] = req[t]
      BY <2>2 DEF TypeInv, RequestsOK
    <3>2. Informed(req[t]) /\ Grounds(req[t], plainSeen, soloSeen, alert, reviews)
      BY DEF TypeInv, RequestsOK, GroundsInv
    <3>3. QED
      BY <3>1, <3>2, GroundsPersist
  <2>3. QED
    BY <2>1, <2>2
<1>2. QED
  BY <1>1 DEF GroundsInv

LEMMA GroundsSame ==
    ASSUME TypeInv, GroundsInv, Persist, UNCHANGED req
    PROVE  GroundsInv'
<1>1. ASSUME NEW t \in Slots
      PROVE  Grounds(req[t], plainSeen', soloSeen', alert', reviews')
  <2>1. Informed(req[t]) /\ Grounds(req[t], plainSeen, soloSeen, alert, reviews)
    BY DEF TypeInv, RequestsOK, GroundsInv
  <2>2. QED
    BY <2>1, GroundsPersist
<1>2. QED
  BY <1>1 DEF GroundsInv

LEMMA NoGrounds ==
    ASSUME NEW plain, NEW solo, NEW rows, NEW revs
    PROVE  Grounds(NoRequest, plain, solo, rows, revs)
BY DEF NoRequest, Grounds, ProposeGrounds, ConfirmGrounds

\* A recorded proposal has evidence, and is labelled for what it was decided on.
LEMMA ProposalEffect ==
    ASSUME ReviewInv, NEW a \in Alerts, NEW p \in Proposal, NEW needs \in BOOLEAN,
           NEW staged \in BOOLEAN, RecordProposal(a, p, needs, staged),
           Present(a), UNCHANGED context,
           p.status = "false_positive" /\ ~needs => a \in plainSeen,
           needs /\ ~staged => soloSeen
    PROVE  Persist /\ HistoryInv' /\ EvidenceInv' /\ FourEyes'
<1> USE DEF ReviewInv, TypeInv
<1>1. Persist
  BY DEF Persist, RecordProposal, AddReview, RecordOK, context, Present
<1>2. HistoryInv'
  BY DEF HistoryInv, context, single_operator_mode, SoloUnder
<1>3. EvidenceInv'
  BY DEF EvidenceInv, RecordProposal, AddReview, RecordOK, ProposeRow
<1>4. FourEyes'
  <2> SUFFICES ASSUME NEW b \in Alerts, alert'[b].status = "false_positive"
               PROVE  /\ alert'[b].independent = "completed" => TwoOperators(b)'
                      /\ alert'[b].independent = "single_operator" => soloSeen'
                      /\ alert'[b].independent = "not_required" => b \in plainSeen'
                      /\ alert'[b].independent \in
                            {"completed", "single_operator", "not_required"}
    BY DEF FourEyes
  <2>1. CASE b = a
    <3>1. alert'[a] = [status |-> IF staged THEN PENDING ELSE p.status, code |-> p.code,
                       independent |-> IndependentReview(needs, staged)]
      BY DEF RecordProposal, RecordOK
    <3>2. ~staged /\ p.status = "false_positive"
      BY <2>1, <3>1 DEF PENDING
    <3>3. alert'[b].independent = IF needs THEN "single_operator" ELSE "not_required"
      BY <2>1, <3>1, <3>2 DEF IndependentReview
    <3>4. QED
      BY <2>1, <3>2, <3>3 DEF context
  <2>2. CASE b # a
    <3>1. alert'[b] = alert[b] /\ reviews'[b] = reviews[b]
      BY <2>2 DEF RecordProposal, AddReview, RecordOK
    <3>2. QED
      BY <3>1 DEF FourEyes, TwoOperators, context
  <2>3. QED
    BY <2>1, <2>2
<1>5. QED
  BY <1>1, <1>2, <1>3, <1>4

\* A recorded confirmation completes a review by two operators.
LEMMA ConfirmationEffect ==
    ASSUME ReviewInv, NEW a \in Alerts, NEW op \in Operators, NEW st \in DISPOSITIONS,
           NEW c \in Codes, RecordConfirmation(a, op, st, c), Present(a), UNCHANGED context,
           st = "false_positive" =>
               \E p \in reviews[a] : p.action = "propose" /\ p.op # op
    PROVE  Persist /\ HistoryInv' /\ EvidenceInv' /\ FourEyes'
<1> USE DEF ReviewInv, TypeInv
<1>1. Persist
  BY DEF Persist, RecordConfirmation, AddReview, RecordOK, context, Present
<1>2. HistoryInv'
  BY DEF HistoryInv, context, single_operator_mode, SoloUnder
<1>3. EvidenceInv'
  BY DEF EvidenceInv, RecordConfirmation, AddReview, RecordOK
<1>4. FourEyes'
  <2> SUFFICES ASSUME NEW b \in Alerts, alert'[b].status = "false_positive"
               PROVE  /\ alert'[b].independent = "completed" => TwoOperators(b)'
                      /\ alert'[b].independent = "single_operator" => soloSeen'
                      /\ alert'[b].independent = "not_required" => b \in plainSeen'
                      /\ alert'[b].independent \in
                            {"completed", "single_operator", "not_required"}
    BY DEF FourEyes
  <2>1. CASE b = a
    <3>1. alert'[a] = [status |-> st, code |-> c, independent |-> "completed"]
      BY DEF RecordConfirmation, RecordOK
    <3>2. st = "false_positive"
      BY <2>1, <3>1
    <3>3. PICK p \in reviews[a] : p.action = "propose" /\ p.op # op
      BY <3>2
    <3> DEFINE row == [action |-> "confirm", op |-> op]
    <3>4. reviews'[a] = reviews[a] \cup {row}
      BY <3>2 DEF RecordConfirmation, AddReview, RecordOK
    <3>5. TwoOperators(b)'
      <4>1. p \in reviews'[b] /\ row \in reviews'[b]
        BY <2>1, <3>4
      <4>2. p.action = "propose" /\ row.action = "confirm" /\ p.op # row.op
        BY <3>3
      <4> HIDE DEF row
      <4>3. QED
        BY <4>1, <4>2 DEF TwoOperators
    <3>6. QED
      BY <2>1, <3>1, <3>5
  <2>2. CASE b # a
    <3>1. alert'[b] = alert[b] /\ reviews'[b] = reviews[b]
      BY <2>2 DEF RecordConfirmation, AddReview, RecordOK
    <3>2. QED
      BY <3>1 DEF FourEyes, TwoOperators, context
  <2>3. QED
    BY <2>1, <2>2
<1>5. QED
  BY <1>1, <1>2, <1>3, <1>4

\* A step of a request that writes nothing changes no ground.
LEMMA ReadEffect ==
    ASSUME ReviewInv, UNCHANGED <<record, context>>
    PROVE  Persist /\ HistoryInv' /\ EvidenceInv' /\ FourEyes'
BY DEF ReviewInv, TypeInv, ContextOK, Persist, HistoryInv, EvidenceInv, FourEyes, TwoOperators,
       record, context, single_operator_mode

LEMMA RequestStepReview ==
    ASSUME ReviewInv, NEW s \in Slots, RequestStep(s)
    PROVE  HistoryInv' /\ EvidenceInv' /\ GroundsInv' /\ FourEyes'
<1> DEFINE r == req[s]
           Kept == Persist /\ HistoryInv' /\ EvidenceInv' /\ FourEyes'
           After(q) == Grounds(q, plainSeen', soloSeen', alert', reviews')
<1>0. r \in Request /\ Informed(r) /\ Grounds(r, plainSeen, soloSeen, alert, reviews)
      /\ TypeInv /\ GroundsInv /\ EvidenceInv /\ HistoryInv /\ RecordOK /\ RequestsOK
  BY DEF ReviewInv, TypeInv, RequestsOK, GroundsInv
<1>a. ASSUME Kept, NEW q, req' = [req EXCEPT ![s] = q], After(q)
      PROVE  HistoryInv' /\ EvidenceInv' /\ GroundsInv' /\ FourEyes'
  BY <1>0, <1>a, GroundsStep
<1>b. ASSUME Kept, Finish(s)
      PROVE  HistoryInv' /\ EvidenceInv' /\ GroundsInv' /\ FourEyes'
  BY <1>a, <1>b, NoGrounds DEF Finish
<1>c. ASSUME UNCHANGED <<record, context>>
      PROVE  Kept /\ plainSeen' = plainSeen /\ soloSeen' = soloSeen /\ alert' = alert
             /\ reviews' = reviews
  BY <1>c, ReadEffect DEF record, context
<1>1. ASSUME NEW op \in Operators, NEW a \in Alerts, NEW c \in Codes,
             NEW st \in DISPOSITIONS, ProposeCheckStatus(s, op, a, st, c)
      PROVE  HistoryInv' /\ EvidenceInv' /\ GroundsInv' /\ FourEyes'
  <2> DEFINE q == [NoRequest EXCEPT
           !.phase = "checked", !.op = op, !.alert = a, !.status = st, !.code = c]
  <2>1. After(q)
    BY DEF NoRequest, Grounds, ProposeGrounds, ConfirmGrounds
  <2>2. QED
    BY <1>1, <1>a, <1>c, <2>1 DEF ProposeCheckStatus
<1>2. ASSUME NEW op \in Operators, NEW a \in Alerts, NEW c \in Codes,
             NEW agree \in BOOLEAN, ConfirmReadProposal(s, op, a, agree, c)
      PROVE  HistoryInv' /\ EvidenceInv' /\ GroundsInv' /\ FourEyes'
  <2> DEFINE q == [NoRequest EXCEPT
           !.phase = "proposal", !.op = op, !.alert = a, !.agree = agree,
           !.code = IF agree THEN None ELSE c, !.proposal = proposal[a]]
  <2>1. q.phase = "proposal" /\ q.alert = a /\ q.proposal = proposal[a]
    BY DEF NoRequest
  <2>2. proposal[a].status = "false_positive" => ProposeRow(proposal[a]) \in reviews[a]
    BY <1>0, <1>2 DEF EvidenceInv, ConfirmReadProposal
  <2>3. reviews' = reviews
    BY <1>2, <1>c DEF ConfirmReadProposal
  <2>4. After(q)
    BY <2>1, <2>2, <2>3 DEF Grounds, ProposeGrounds, ConfirmGrounds
  <2>5. QED
    BY <1>2, <1>a, <1>c, <2>4 DEF ConfirmReadProposal
<1>3. ASSUME NEW op \in Operators, NEW cust \in Customers, NEW c \in Codes,
             BulkSelect(s, op, cust, c)
      PROVE  HistoryInv' /\ EvidenceInv' /\ GroundsInv' /\ FourEyes'
  <2> DEFINE rows == {a \in Alerts : CustomerOf[a] = cust /\ alert[a].status = "open"}
             q == [NoRequest EXCEPT !.phase = "bulk", !.op = op, !.code = c, !.todo = rows]
  <2>1. After(q)
    BY DEF NoRequest, Grounds, ProposeGrounds, ConfirmGrounds
  <2>2. QED
    BY <1>3, <1>a, <1>c, <2>1 DEF BulkSelect
<1>4. ASSUME NEW a \in Alerts, BulkFirst(s, a)
      PROVE  HistoryInv' /\ EvidenceInv' /\ GroundsInv' /\ FourEyes'
  <2> DEFINE q == [r EXCEPT !.phase = "checked", !.alert = a, !.status = "false_positive",
                            !.todo = @ \ {a}]
  <2>1. q.phase = "checked"
    BY <1>0 DEF Request
  <2>2. After(q)
    BY <2>1 DEF Grounds, ProposeGrounds, ConfirmGrounds
  <2>3. QED
    BY <1>4, <1>a, <1>b, <1>c, <2>2 DEF BulkFirst
<1>5. ASSUME NEW a \in Alerts, BulkNext(s, a)
      PROVE  HistoryInv' /\ EvidenceInv' /\ GroundsInv' /\ FourEyes'
  <2> DEFINE p == [status |-> "false_positive", code |-> r.code, op |-> r.op]
             needs == needs_independent_review(a, "false_positive")
             staged == needs /\ ~single_operator_mode
             q == [r EXCEPT !.todo = @ \ {a}]
  <2>1. CASE ~MayPropose(a)
    BY <1>5, <2>1, <1>b, <1>c DEF BulkNext
  <2>2. CASE MayPropose(a)
    <3>1. p \in Proposal /\ needs \in BOOLEAN /\ staged \in BOOLEAN /\ Present(a)
      BY <1>0, <1>5, <2>2 DEF BulkNext, Informed, Proposal, DISPOSITIONS, TypeInv, ContextOK,
             needs_independent_review, MayPropose, Present, Undecided, PENDING
    <3>2. (~needs => a \in plainSeen) /\ (needs /\ ~staged => soloSeen)
      BY <1>0 DEF HistoryInv, needs_independent_review
    <3>3. RecordProposal(a, p, needs, staged) /\ UNCHANGED context
      BY <1>5, <2>2 DEF BulkNext
    <3>4. Kept
      BY <3>1, <3>2, <3>3, ProposalEffect
    <3>5. q.phase = "bulkNext"
      BY <1>0, <1>5 DEF BulkNext, Request
    <3>6. After(q)
      BY <3>5 DEF Grounds, ProposeGrounds, ConfirmGrounds
    <3>7. [req EXCEPT ![s].todo = @ \ {a}] = [req EXCEPT ![s] = q]
      BY <1>0 DEF RequestsOK
    <3>8. QED
      BY <1>5, <2>2, <3>4, <3>6, <3>7, <1>a, <1>b DEF BulkNext
  <2>3. QED
    BY <2>1, <2>2
<1>6. CASE ReadTopics(s)
  <2> DEFINE q == [r EXCEPT !.phase = "topics",
                            !.needs = needs_independent_review(r.alert, r.status)]
  <2>1. q.phase = "topics" /\ q.status = r.status /\ q.alert = r.alert
        /\ q.needs = needs_independent_review(r.alert, r.status)
    BY <1>0 DEF Request
  <2>2. r.alert \in Alerts
    BY <1>0, <1>6 DEF ReadTopics, Informed
  <2>3. q.status = "false_positive" /\ ~q.needs => q.alert \in plainSeen
    BY <1>0, <2>1, <2>2 DEF HistoryInv, needs_independent_review
  <2>4. After(q)
    BY <1>6, <1>c, <2>1, <2>3 DEF ReadTopics, Grounds, ProposeGrounds, ConfirmGrounds
  <2>5. [req EXCEPT ![s].phase = "topics",
                    ![s].needs = needs_independent_review(r.alert, r.status)]
            = [req EXCEPT ![s] = q]
    BY <1>0 DEF RequestsOK
  <2>6. QED
    BY <1>6, <1>a, <1>b, <1>c, <2>4, <2>5 DEF ReadTopics
<1>7. CASE ReadMode(s)
  <2> DEFINE q == [r EXCEPT !.phase = "decided", !.staged = r.needs /\ ~single_operator_mode]
  <2>1. q.phase = "decided" /\ q.status = r.status /\ q.alert = r.alert /\ q.needs = r.needs
        /\ q.staged = (r.needs /\ ~single_operator_mode) /\ r.phase = "topics"
    BY <1>0, <1>7 DEF Request, ReadMode
  <2>2. q.status = "false_positive" /\ ~q.needs => q.alert \in plainSeen
    BY <1>0, <2>1 DEF Grounds, ProposeGrounds
  <2>3. q.needs /\ ~q.staged => soloSeen
    BY <1>0, <2>1 DEF HistoryInv
  <2>4. After(q)
    BY <1>7, <1>c, <2>1, <2>2, <2>3 DEF ReadMode, Grounds, ProposeGrounds, ConfirmGrounds
  <2>5. [req EXCEPT ![s].phase = "decided", ![s].staged = r.needs /\ ~single_operator_mode]
            = [req EXCEPT ![s] = q]
    BY <1>0 DEF RequestsOK
  <2>6. QED
    BY <1>7, <1>a, <1>c, <2>4, <2>5 DEF ReadMode
<1>8. CASE CommitProposal(s)
  <2> DEFINE p == [status |-> r.status, code |-> r.code, op |-> r.op]
             q == [NoRequest EXCEPT !.phase = "bulkNext", !.op = r.op, !.code = r.code,
                                    !.todo = r.todo]
  <2>1. CASE ~Present(r.alert)
    BY <1>8, <2>1, <1>b, <1>c DEF CommitProposal
  <2>2. CASE Present(r.alert)
    <3>1. p \in Proposal /\ r.needs \in BOOLEAN /\ r.staged \in BOOLEAN /\ r.alert \in Alerts
      BY <1>0, <1>8 DEF CommitProposal, Informed, Proposal, Request
    <3>2. /\ p.status = "false_positive" /\ ~r.needs => r.alert \in plainSeen
          /\ r.needs /\ ~r.staged => soloSeen
      BY <1>0, <1>8 DEF CommitProposal, Grounds, ProposeGrounds
    <3>3. RecordProposal(r.alert, p, r.needs, r.staged) /\ UNCHANGED context
      BY <1>8, <2>2 DEF CommitProposal
    <3>4. Kept
      BY <3>1, <3>2, <3>3, <2>2, ProposalEffect
    <3>5. After(q)
      BY DEF NoRequest, Grounds, ProposeGrounds, ConfirmGrounds
    <3>6. QED
      BY <1>8, <2>2, <3>4, <3>5, <1>a, <1>b DEF CommitProposal, Finish
  <2>3. QED
    BY <2>1, <2>2
<1>9. CASE ConfirmCheck(s)
  <2> DEFINE q == [r EXCEPT !.phase = "cleared"]
  <2>1. CASE req' = [req EXCEPT ![s].phase = "cleared"] /\ ~same_operator(r.proposal, r.op)
    <3>1. q.phase = "cleared" /\ q.alert = r.alert /\ q.proposal = r.proposal /\ q.op = r.op
          /\ r.phase = "proposal" /\ r.op \in Operators
      BY <1>0, <1>9 DEF Request, ConfirmCheck, Informed
    <3>2. q.proposal.op # q.op
      BY <2>1, <3>1 DEF same_operator
    <3>3. After(q)
      BY <1>0, <1>9, <1>c, <3>1, <3>2
      DEF ConfirmCheck, Grounds, ProposeGrounds, ConfirmGrounds
    <3>4. [req EXCEPT ![s].phase = "cleared"] = [req EXCEPT ![s] = q]
      BY <1>0 DEF RequestsOK
    <3>5. QED
      BY <1>9, <2>1, <1>a, <1>c, <3>3, <3>4 DEF ConfirmCheck
  <2>2. CASE Finish(s)
    BY <1>9, <2>2, <1>b, <1>c DEF ConfirmCheck
  <2>3. QED
    BY <1>9, <2>1, <2>2 DEF ConfirmCheck
<1>10. CASE CommitConfirmation(s)
  <2>1. CASE ~Present(r.alert)
    BY <1>10, <2>1, <1>b, <1>c DEF CommitConfirmation
  <2>2. CASE Present(r.alert)
    <3>1. r.alert \in Alerts /\ r.op \in Operators /\ r.proposal \in Proposal
          /\ (~r.agree => r.code \in Codes)
      BY <1>0, <1>10 DEF CommitConfirmation, Informed
    <3>2. r.proposal.status \in DISPOSITIONS /\ r.proposal.code \in Codes
          /\ "escalated" \in DISPOSITIONS
      BY <3>1 DEF Proposal, DISPOSITIONS
    <3>3. r.proposal.status = "false_positive" =>
              ProposeRow(r.proposal) \in reviews[r.alert] /\ r.proposal.op # r.op
      BY <1>0, <1>10, <2>2 DEF CommitConfirmation, Grounds, ConfirmGrounds, Present
    <3>4. r.proposal.status = "false_positive" =>
              \E p \in reviews[r.alert] : p.action = "propose" /\ p.op # r.op
      BY <3>3 DEF ProposeRow
    <3>5. UNCHANGED context /\ Finish(s)
      BY <1>10 DEF CommitConfirmation
    <3>6. CASE r.agree
      <4>1. RecordConfirmation(r.alert, r.op, r.proposal.status, r.proposal.code)
        BY <1>10, <2>2, <3>6 DEF CommitConfirmation
      <4>2. QED
        BY <4>1, <2>2, <3>1, <3>2, <3>4, <3>5, <1>b, ConfirmationEffect
    <3>7. CASE ~r.agree
      <4>1. RecordConfirmation(r.alert, r.op, "escalated", r.code)
        BY <1>10, <2>2, <3>7 DEF CommitConfirmation
      <4>2. QED
        BY <4>1, <2>2, <3>1, <3>2, <3>5, <3>7, <1>b, ConfirmationEffect
    <3>8. QED
      BY <3>6, <3>7
  <2>3. QED
    BY <2>1, <2>2
<1>11. CASE Abort(s)
  BY <1>11, <1>b, <1>c DEF Abort
<1>12. QED
  BY <1>1, <1>2, <1>3, <1>4, <1>5, <1>6, <1>7, <1>8, <1>9, <1>10, <1>11 DEF RequestStep

LEMMA SurroundingsReview ==
    ASSUME ReviewInv,
           \/ \E v \in Settings : SetSingleOperatorMode(v)
           \/ RegisterOrganization
           \/ \E a \in Alerts : ListChange(a) \/ Delist(a)
    PROVE  HistoryInv' /\ EvidenceInv' /\ GroundsInv' /\ FourEyes'
<1> USE DEF ReviewInv, TypeInv
<1>1. ASSUME Persist, UNCHANGED req
      PROVE  GroundsInv'
  BY <1>1, GroundsSame
<1>2. ASSUME NEW v \in Settings, SetSingleOperatorMode(v)
      PROVE  Persist /\ HistoryInv' /\ EvidenceInv' /\ FourEyes' /\ UNCHANGED req
  BY <1>2 DEF SetSingleOperatorMode, Persist, HistoryInv, EvidenceInv, FourEyes, TwoOperators,
              record, single_operator_mode, ContextOK
<1>3. ASSUME RegisterOrganization
      PROVE  Persist /\ HistoryInv' /\ EvidenceInv' /\ FourEyes' /\ UNCHANGED req
  BY <1>3 DEF RegisterOrganization, Persist, HistoryInv, EvidenceInv, FourEyes, TwoOperators,
              record, single_operator_mode, ContextOK
<1>4. ASSUME NEW a \in Alerts, ListChange(a)
      PROVE  Persist /\ HistoryInv' /\ EvidenceInv' /\ FourEyes' /\ UNCHANGED req
  <2>1. Persist /\ EvidenceInv' /\ FourEyes' /\ UNCHANGED req
    BY <1>4 DEF ListChange, Persist, EvidenceInv, FourEyes, TwoOperators, record
  <2>2. HistoryInv'
    BY <1>4 DEF ListChange, HistoryInv, single_operator_mode, ContextOK
  <2>3. QED
    BY <2>1, <2>2
<1>5. ASSUME NEW a \in Alerts, Delist(a)
      PROVE  Persist /\ HistoryInv' /\ EvidenceInv' /\ FourEyes' /\ UNCHANGED req
  <2>1. /\ alert'[a].status = "gone" /\ proposal'[a] = None
        /\ \A b \in Alerts \ {a} : /\ alert'[b] = alert[b] /\ proposal'[b] = proposal[b]
                                  /\ reviews'[b] = reviews[b]
    BY <1>5 DEF Delist, RecordOK, Gone
  <2>2. UNCHANGED context /\ UNCHANGED req
    BY <1>5 DEF Delist
  <2>3. Persist /\ HistoryInv'
    BY <2>1, <2>2 DEF Persist, HistoryInv, single_operator_mode, context
  <2>4. EvidenceInv'
    BY <2>1 DEF EvidenceInv
  <2>5. FourEyes'
    BY <2>1, <2>2 DEF FourEyes, TwoOperators, context
  <2>6. QED
    BY <2>2, <2>3, <2>4, <2>5
<1>6. QED
  BY <1>1, <1>2, <1>3, <1>4, <1>5

LEMMA ReviewInit == Init => ReviewInv
<1> SUFFICES ASSUME Init PROVE ReviewInv
  OBVIOUS
<1>1. HistoryInv
  BY DEF Init, HistoryInv, single_operator_mode
<1>2. EvidenceInv
  BY DEF Init, EvidenceInv, ProposeRow
<1>3. GroundsInv
  BY NoGrounds DEF Init, GroundsInv
<1>4. FourEyes
  BY DEF Init, FourEyes, PENDING
<1>5. QED
  BY <1>1, <1>2, <1>3, <1>4, TypeInit DEF ReviewInv

LEMMA ReviewStep == ReviewInv /\ [Next]_vars => ReviewInv'
<1> SUFFICES ASSUME ReviewInv, [Next]_vars PROVE ReviewInv'
  OBVIOUS
<1>1. TypeInv'
  BY TypeStep DEF ReviewInv
<1>2. CASE Next
  BY <1>1, <1>2, NextSplit, RequestStepReview, SurroundingsReview DEF ReviewInv
<1>3. CASE UNCHANGED vars
  <2>1. UNCHANGED <<record, context>> /\ UNCHANGED req
    BY <1>3 DEF vars
  <2>2. QED
    BY <1>1, <2>1, ReadEffect, GroundsSame DEF ReviewInv
<1>4. QED
  BY <1>2, <1>3

\* No interleaving of requests, settings changes and list refreshes lets one
\* person clear a match that was a sanctions match throughout in a firm that
\* never ran solo; and a dismissal always says truly how it was reviewed.
THEOREM FourEyesCorrect == Spec => []FourEyes
<1>1. ReviewInv => FourEyes
  BY DEF ReviewInv
<1>2. QED
  BY <1>1, ReviewInit, ReviewStep, PTL DEF Spec

-------------------------------------------------------------------------------
\* No confirmed sanctions match without its freeze.

\* A request changes the record by a proposal or by a confirmation, or not at all.
RecordStep ==
    \/ UNCHANGED record
    \/ \E a \in Alerts, p \in Proposal, needs, staged \in BOOLEAN :
          RecordProposal(a, p, needs, staged)
    \/ \E a \in Alerts, op \in Operators, st \in DISPOSITIONS, c \in Codes :
          RecordConfirmation(a, op, st, c)

LEMMA RequestWrites ==
    ASSUME TypeInv, NEW s \in Slots, RequestStep(s)
    PROVE  RecordStep /\ UNCHANGED context
<1> DEFINE r == req[s]
<1>0. r \in Request /\ Informed(r)
  BY DEF TypeInv, RequestsOK
<1>1. ASSUME NEW op \in Operators, NEW a \in Alerts, NEW c \in Codes,
             \/ \E st \in DISPOSITIONS : ProposeCheckStatus(s, op, a, st, c)
             \/ \E agree \in BOOLEAN : ConfirmReadProposal(s, op, a, agree, c)
      PROVE  RecordStep /\ UNCHANGED context
  BY <1>1 DEF ProposeCheckStatus, ConfirmReadProposal, RecordStep
<1>2. ASSUME NEW op \in Operators, NEW cust \in Customers, NEW c \in Codes,
             BulkSelect(s, op, cust, c)
      PROVE  RecordStep /\ UNCHANGED context
  BY <1>2 DEF BulkSelect, RecordStep
<1>3. ASSUME NEW a \in Alerts, BulkFirst(s, a)
      PROVE  RecordStep /\ UNCHANGED context
  BY <1>3 DEF BulkFirst, RecordStep
<1>4. ASSUME NEW a \in Alerts, BulkNext(s, a)
      PROVE  RecordStep /\ UNCHANGED context
  <2> DEFINE p == [status |-> "false_positive", code |-> r.code, op |-> r.op]
             needs == needs_independent_review(a, "false_positive")
             staged == needs /\ ~single_operator_mode
  <2>1. p \in Proposal /\ needs \in BOOLEAN /\ staged \in BOOLEAN
    BY <1>0, <1>4 DEF BulkNext, Informed, Proposal, DISPOSITIONS, TypeInv, ContextOK,
                      needs_independent_review
  <2>2. (RecordProposal(a, p, needs, staged) \/ UNCHANGED record) /\ UNCHANGED context
    BY <1>4 DEF BulkNext
  <2> HIDE DEF p, needs, staged
  <2>3. QED
    BY <2>1, <2>2 DEF RecordStep
<1>5. CASE ReadTopics(s) \/ ReadMode(s) \/ ConfirmCheck(s) \/ Abort(s)
  BY <1>5 DEF ReadTopics, ReadMode, ConfirmCheck, Abort, RecordStep
<1>6. CASE CommitProposal(s)
  <2> DEFINE p == [status |-> r.status, code |-> r.code, op |-> r.op]
  <2>1. p \in Proposal /\ r.needs \in BOOLEAN /\ r.staged \in BOOLEAN /\ r.alert \in Alerts
    BY <1>0, <1>6 DEF CommitProposal, Informed, Proposal, Request
  <2>2. (RecordProposal(r.alert, p, r.needs, r.staged) \/ UNCHANGED record)
        /\ UNCHANGED context
    BY <1>6 DEF CommitProposal
  <2> HIDE DEF p, r
  <2>3. QED
    BY <2>1, <2>2 DEF RecordStep
<1>7. CASE CommitConfirmation(s)
  <2>1. /\ r.alert \in Alerts /\ r.op \in Operators /\ r.proposal \in Proposal
        /\ ~r.agree => r.code \in Codes
    BY <1>0, <1>7 DEF CommitConfirmation, Informed
  <2>2. r.proposal.status \in DISPOSITIONS /\ r.proposal.code \in Codes
        /\ "escalated" \in DISPOSITIONS
    BY <2>1 DEF Proposal, DISPOSITIONS
  <2>3. UNCHANGED context
    BY <1>7 DEF CommitConfirmation
  <2>4. \/ UNCHANGED record
        \/ RecordConfirmation(r.alert, r.op, r.proposal.status, r.proposal.code)
        \/ ~r.agree /\ RecordConfirmation(r.alert, r.op, "escalated", r.code)
    BY <1>7 DEF CommitConfirmation
  <2>5. QED
    BY <2>1, <2>2, <2>3, <2>4 DEF RecordStep
<1>8. QED
  BY <1>1, <1>2, <1>3, <1>4, <1>5, <1>6, <1>7 DEF RequestStep

\* The transaction that gives an alert its status raises the obligation with it.
LEMMA StatusWithFreeze ==
    ASSUME TypeInv, HistoryInv, ConfirmedIsFrozen, UNCHANGED context,
           NEW a \in Alerts, NEW row, alert' = [alert EXCEPT ![a] = row],
           _auto_create_freeze_if_required(a, row.status)
    PROVE  ConfirmedIsFrozen'
<1> SUFFICES ASSUME NEW b \in FreezeList, alert'[b].status = "true_positive",
                    CustomerOf[b] # None, b \notin plainSeen
             PROVE  obligations'[b] > 0
  BY DEF ConfirmedIsFrozen, context
<1>0. b \in Alerts /\ obligations \in [Alerts -> 0..MaxObligations] /\ MaxObligations > 0
  BY DEF TypeInv, RecordOK
<1>1. CASE b = a
  <2>1. row.status = "true_positive" /\ listed[a]
    BY <1>0, <1>1 DEF TypeInv, RecordOK, HistoryInv
  <2>2. FreezeRequired(a, row.status)
    BY <1>1, <2>1 DEF FreezeRequired
  <2>3. QED
    BY <1>0, <1>1, <2>2 DEF _auto_create_freeze_if_required
<1>2. CASE b # a
  <2>1. alert'[b] = alert[b] /\ obligations'[b] = obligations[b]
    BY <1>0, <1>2 DEF _auto_create_freeze_if_required, TypeInv, RecordOK
  <2>2. QED
    BY <2>1, <1>0 DEF ConfirmedIsFrozen
<1>3. QED
  BY <1>1, <1>2

LEMMA ConfirmedStep ==
    ASSUME ReviewInv, ConfirmedIsFrozen, [Next]_vars
    PROVE  ConfirmedIsFrozen'
<1>0. TypeInv /\ HistoryInv
  BY DEF ReviewInv
<1>1. ASSUME NEW s \in Slots, RequestStep(s)
      PROVE  ConfirmedIsFrozen'
  <2>1. UNCHANGED context /\ RecordStep
    BY <1>0, <1>1, RequestWrites
  <2>2. CASE UNCHANGED record
    BY <2>1, <2>2 DEF record, context, ConfirmedIsFrozen
  <2>3. ASSUME NEW a \in Alerts, NEW p \in Proposal, NEW needs \in BOOLEAN,
               NEW staged \in BOOLEAN, RecordProposal(a, p, needs, staged)
        PROVE  ConfirmedIsFrozen'
    <3> DEFINE row == [status |-> IF staged THEN PENDING ELSE p.status, code |-> p.code,
                       independent |-> IndependentReview(needs, staged)]
    <3>1. alert' = [alert EXCEPT ![a] = row]
          /\ _auto_create_freeze_if_required(a, row.status)
      BY <2>3 DEF RecordProposal
    <3>2. QED
      BY <1>0, <2>1, <3>1, StatusWithFreeze
  <2>4. ASSUME NEW a \in Alerts, NEW op \in Operators, NEW st \in DISPOSITIONS,
               NEW c \in Codes, RecordConfirmation(a, op, st, c)
        PROVE  ConfirmedIsFrozen'
    <3> DEFINE row == [status |-> st, code |-> c, independent |-> "completed"]
    <3>1. alert' = [alert EXCEPT ![a] = row]
          /\ _auto_create_freeze_if_required(a, row.status)
      BY <2>4 DEF RecordConfirmation
    <3>2. QED
      BY <1>0, <2>1, <3>1, StatusWithFreeze
  <2>5. QED
    BY <2>1, <2>2, <2>3, <2>4 DEF RecordStep
<1>2. CASE (\E v \in Settings : SetSingleOperatorMode(v)) \/ RegisterOrganization
  BY <1>2 DEF SetSingleOperatorMode, RegisterOrganization, record, ConfirmedIsFrozen
<1>3. ASSUME NEW a \in Alerts, ListChange(a)
      PROVE  ConfirmedIsFrozen'
  BY <1>3 DEF ListChange, record, ConfirmedIsFrozen
<1>4. ASSUME NEW a \in Alerts, Delist(a)
      PROVE  ConfirmedIsFrozen'
  <2>1. \A b \in Alerts : alert'[b].status = "true_positive" => alert'[b] = alert[b]
    BY <1>0, <1>4 DEF Delist, Gone, TypeInv, RecordOK
  <2>2. QED
    BY <1>4, <2>1 DEF Delist, context, ConfirmedIsFrozen
<1>5. CASE UNCHANGED vars
  BY <1>5 DEF vars, record, context, ConfirmedIsFrozen
<1>6. QED
  BY <1>1, <1>2, <1>3, <1>4, <1>5, NextSplit

\* A match on a UN or UAE list that is confirmed for a customer, by a single
\* operator, by a second one or out of a bulk run, has its freeze obligation
\* from that transaction on, whatever other requests and refreshes do meanwhile.
THEOREM ConfirmedIsFrozenCorrect == Spec => []ConfirmedIsFrozen
<1>1. Init => ConfirmedIsFrozen
  BY DEF Init, ConfirmedIsFrozen, PENDING
<1>2. ReviewInv /\ ConfirmedIsFrozen /\ [Next]_vars => ReviewInv' /\ ConfirmedIsFrozen'
  BY ReviewStep, ConfirmedStep
<1>3. QED
  BY <1>1, <1>2, ReviewInit, PTL DEF Spec

-------------------------------------------------------------------------------
\* Requests that do not overlap implement AlertDisposition.  What a request
\* checked then still holds when it commits, unless a refresh took the alert away.

OneRequest == \A s, t \in Slots : s = t

Fresh(r, al) ==
    /\ r.phase \in {"checked", "topics", "decided"} =>
           al[r.alert].status \in Undecided \cup {"gone"}
    /\ r.phase = "cleared" => al[r.alert].status \in {PENDING, "gone"}

SequentialInv ==
    /\ \A s \in Slots : Fresh(req[s], alert)
    /\ \A a \in Alerts : alert[a].status \in Undecided => obligations[a] = 0

\* A step of the abstract specification, with the rest of the invariant.
Decides ==
    /\ [Disposition!Next]_(Disposition!vars)
    /\ \A a \in Alerts : alert'[a].status \in Undecided => obligations'[a] = 0
    /\ \A a \in Alerts : alert[a].status \in Final =>
           alert'[a].status \in {alert[a].status, "gone"}

LEMMA NothingDecided ==
    ASSUME SequentialInv, UNCHANGED <<alert, obligations>>
    PROVE  Decides
BY DEF SequentialInv, Decides, Disposition!vars

\* An alert that was undecided is decided, or not, with the obligation due.
LEMMA RowDecides ==
    ASSUME TypeInv, SequentialInv, NEW a \in Alerts, NEW row,
           alert[a].status \in Undecided, row.status \in DISPOSITIONS \cup {PENDING},
           alert' = [alert EXCEPT ![a] = row],
           _auto_create_freeze_if_required(a, row.status)
    PROVE  Decides
<1> DEFINE stat == [b \in Alerts |-> alert[b].status]
           st == row.status
<1>0. /\ alert \in [Alerts -> AlertRow] /\ obligations \in [Alerts -> 0..MaxObligations]
      /\ obligations[a] = 0 /\ MaxObligations \in Nat /\ MaxObligations > 0
  BY DEF TypeInv, RecordOK, SequentialInv
<1>1. stat' = [stat EXCEPT ![a] = st]
  BY <1>0
<1>2. obligations' = IF FreezeRequired(a, st) THEN [obligations EXCEPT ![a] = 1]
                     ELSE obligations
  BY <1>0 DEF _auto_create_freeze_if_required
<1>3. FreezeRequired(a, st) => st = "true_positive"
  BY DEF FreezeRequired
<1>4. \A b \in Alerts : alert'[b].status \in Undecided => obligations'[b] = 0
  BY <1>0, <1>2, <1>3 DEF SequentialInv, Undecided, PENDING
<1>5. \A b \in Alerts : alert[b].status \in Final => alert'[b].status = alert[b].status
  BY <1>0 DEF Undecided, Final, PENDING
<1>6. stat[a] \in Disposition!Undecided
  BY DEF Undecided, PENDING, Disposition!Undecided
<1>7. CASE st \in Undecided
  <2>1. Disposition!KeepUndecided(a)
    BY <1>1, <1>2, <1>3, <1>6, <1>7
    DEF Disposition!KeepUndecided, Disposition!Undecided, Undecided, PENDING
  <2>2. QED
    BY <2>1, <1>4, <1>5 DEF Decides, Disposition!Next
<1>8. CASE st \in {"false_positive", "escalated"}
  <2>1. Disposition!Close(a)
    BY <1>1, <1>2, <1>3, <1>6, <1>8 DEF Disposition!Close
  <2>2. QED
    BY <2>1, <1>4, <1>5 DEF Decides, Disposition!Next
<1>9. CASE st = "true_positive"
  <2>1. obligations = [obligations EXCEPT ![a] = 0]
    BY <1>0
  <2>2. \E n \in 0..1 : obligations' = [obligations EXCEPT ![a] = n]
    <3>1. CASE FreezeRequired(a, st)
      <4>1. obligations' = [obligations EXCEPT ![a] = 1] /\ 1 \in 0..1
        BY <1>2, <3>1
      <4>2. QED
        BY <4>1
    <3>2. CASE ~FreezeRequired(a, st)
      <4>1. obligations' = [obligations EXCEPT ![a] = 0] /\ 0 \in 0..1
        BY <1>2, <2>1, <3>2
      <4>2. QED
        BY <4>1
    <3>3. QED
      BY <3>1, <3>2
  <2>3. Disposition!Confirm(a)
    BY <1>1, <1>6, <1>9, <2>2 DEF Disposition!Confirm
  <2>4. QED
    BY <2>3, <1>4, <1>5 DEF Decides, Disposition!Next
<1>10. QED
  BY <1>7, <1>8, <1>9 DEF DISPOSITIONS, Undecided, PENDING

LEMMA ProposalDecides ==
    ASSUME TypeInv, SequentialInv, NEW a \in Alerts, NEW p \in Proposal, NEW needs,
           NEW staged \in BOOLEAN, alert[a].status \in Undecided,
           RecordProposal(a, p, needs, staged)
    PROVE  Decides
<1> DEFINE row == [status |-> IF staged THEN PENDING ELSE p.status, code |-> p.code,
                   independent |-> IndependentReview(needs, staged)]
<1>1. row.status \in DISPOSITIONS \cup {PENDING}
  BY DEF Proposal
<1>2. alert' = [alert EXCEPT ![a] = row] /\ _auto_create_freeze_if_required(a, row.status)
  BY DEF RecordProposal
<1> HIDE DEF row
<1>3. QED
  BY <1>1, <1>2, RowDecides

LEMMA ConfirmationDecides ==
    ASSUME TypeInv, SequentialInv, NEW a \in Alerts, NEW op, NEW st \in DISPOSITIONS, NEW c,
           alert[a].status \in Undecided, RecordConfirmation(a, op, st, c)
    PROVE  Decides
<1> DEFINE row == [status |-> st, code |-> c, independent |-> "completed"]
<1>1. row.status \in DISPOSITIONS \cup {PENDING}
  OBVIOUS
<1>2. alert' = [alert EXCEPT ![a] = row] /\ _auto_create_freeze_if_required(a, row.status)
  BY DEF RecordConfirmation
<1> HIDE DEF row
<1>3. QED
  BY <1>1, <1>2, RowDecides

LEMMA RequestDecides ==
    ASSUME OneRequest, TypeInv, SequentialInv, NEW s \in Slots, RequestStep(s)
    PROVE  Decides /\ \A t \in Slots : Fresh(req'[t], alert')
<1> DEFINE r == req[s]
           Goal == Decides /\ \A t \in Slots : Fresh(req'[t], alert')
<1>0. r \in Request /\ Informed(r) /\ Fresh(r, alert) /\ RequestsOK
      /\ req \in [Slots -> Request]
  BY DEF TypeInv, RequestsOK, SequentialInv
<1>a. ASSUME Decides, NEW q, req' = [req EXCEPT ![s] = q], Fresh(q, alert')
      PROVE  Goal
  BY <1>0, <1>a DEF OneRequest
<1>b. ASSUME Decides, Finish(s)
      PROVE  Goal
  <2>1. Fresh(NoRequest, alert')
    BY DEF NoRequest, Fresh
  <2>2. QED
    BY <1>a, <1>b, <2>1 DEF Finish
<1>c. ASSUME UNCHANGED <<record, context>>
      PROVE  Decides /\ alert' = alert
  BY <1>c, NothingDecided DEF record
<1>1. ASSUME NEW op \in Operators, NEW a \in Alerts, NEW c \in Codes,
             NEW st \in DISPOSITIONS, ProposeCheckStatus(s, op, a, st, c)
      PROVE  Goal
  <2> DEFINE q == [NoRequest EXCEPT
           !.phase = "checked", !.op = op, !.alert = a, !.status = st, !.code = c]
  <2>1. q.phase = "checked" /\ q.alert = a
    BY DEF NoRequest
  <2>2. Fresh(q, alert')
    BY <1>1, <1>c, <2>1 DEF ProposeCheckStatus, MayPropose, Fresh
  <2>3. QED
    BY <1>1, <1>a, <1>c, <2>2 DEF ProposeCheckStatus
<1>2. ASSUME NEW op \in Operators, NEW a \in Alerts, NEW c \in Codes,
             NEW agree \in BOOLEAN, ConfirmReadProposal(s, op, a, agree, c)
      PROVE  Goal
  <2> DEFINE q == [NoRequest EXCEPT
           !.phase = "proposal", !.op = op, !.alert = a, !.agree = agree,
           !.code = IF agree THEN None ELSE c, !.proposal = proposal[a]]
  <2>1. Fresh(q, alert')
    BY DEF NoRequest, Fresh
  <2>2. QED
    BY <1>2, <1>a, <1>c, <2>1 DEF ConfirmReadProposal
<1>3. ASSUME NEW op \in Operators, NEW cust \in Customers, NEW c \in Codes,
             BulkSelect(s, op, cust, c)
      PROVE  Goal
  <2> DEFINE rows == {a \in Alerts : CustomerOf[a] = cust /\ alert[a].status = "open"}
             q == [NoRequest EXCEPT !.phase = "bulk", !.op = op, !.code = c, !.todo = rows]
  <2>1. Fresh(q, alert')
    BY DEF NoRequest, Fresh
  <2>2. QED
    BY <1>3, <1>a, <1>c, <2>1 DEF BulkSelect
<1>4. ASSUME NEW a \in Alerts, BulkFirst(s, a)
      PROVE  Goal
  <2> DEFINE q == [r EXCEPT !.phase = "checked", !.alert = a, !.status = "false_positive",
                            !.todo = @ \ {a}]
  <2>1. q.phase = "checked" /\ q.alert = a
    BY <1>0 DEF Request
  <2>2. MayPropose(a) => Fresh(q, alert')
    BY <1>4, <1>c, <2>1 DEF BulkFirst, MayPropose, Fresh
  <2>3. QED
    BY <1>4, <1>a, <1>b, <1>c, <2>2 DEF BulkFirst
<1>5. ASSUME NEW a \in Alerts, BulkNext(s, a)
      PROVE  Goal
  <2> DEFINE p == [status |-> "false_positive", code |-> r.code, op |-> r.op]
             needs == needs_independent_review(a, "false_positive")
             staged == needs /\ ~single_operator_mode
             q == [r EXCEPT !.todo = @ \ {a}]
  <2>1. CASE ~MayPropose(a)
    BY <1>5, <2>1, <1>b, <1>c DEF BulkNext
  <2>2. CASE MayPropose(a)
    <3>1. p \in Proposal /\ needs \in BOOLEAN /\ staged \in BOOLEAN
      BY <1>0, <1>5 DEF BulkNext, Informed, Proposal, DISPOSITIONS, TypeInv, ContextOK,
                        needs_independent_review
    <3>2. RecordProposal(a, p, needs, staged)
      BY <1>5, <2>2 DEF BulkNext
    <3>3. Decides
      BY <2>2, <3>1, <3>2, ProposalDecides DEF MayPropose
    <3>4. q.phase = "bulkNext"
      BY <1>0, <1>5 DEF BulkNext, Request
    <3>5. Fresh(q, alert')
      BY <3>4 DEF Fresh
    <3>6. [req EXCEPT ![s].todo = @ \ {a}] = [req EXCEPT ![s] = q]
      BY <1>0
    <3>7. QED
      BY <1>5, <2>2, <3>3, <3>5, <3>6, <1>a, <1>b DEF BulkNext
  <2>3. QED
    BY <2>1, <2>2
<1>6. CASE ReadTopics(s)
  <2> DEFINE q == [r EXCEPT !.phase = "topics",
                            !.needs = needs_independent_review(r.alert, r.status)]
  <2>1. q.phase = "topics" /\ q.alert = r.alert
    BY <1>0 DEF Request
  <2>2. Fresh(q, alert')
    BY <1>0, <1>6, <1>c, <2>1 DEF ReadTopics, Fresh
  <2>3. [req EXCEPT ![s].phase = "topics",
                    ![s].needs = needs_independent_review(r.alert, r.status)]
            = [req EXCEPT ![s] = q]
    BY <1>0
  <2>4. QED
    BY <1>6, <1>a, <1>b, <1>c, <2>2, <2>3 DEF ReadTopics
<1>7. CASE ReadMode(s)
  <2> DEFINE q == [r EXCEPT !.phase = "decided", !.staged = r.needs /\ ~single_operator_mode]
  <2>1. q.phase = "decided" /\ q.alert = r.alert
    BY <1>0 DEF Request
  <2>2. Fresh(q, alert')
    BY <1>0, <1>7, <1>c, <2>1 DEF ReadMode, Fresh
  <2>3. [req EXCEPT ![s].phase = "decided", ![s].staged = r.needs /\ ~single_operator_mode]
            = [req EXCEPT ![s] = q]
    BY <1>0
  <2>4. QED
    BY <1>7, <1>a, <1>c, <2>2, <2>3 DEF ReadMode
<1>8. CASE CommitProposal(s)
  <2> DEFINE p == [status |-> r.status, code |-> r.code, op |-> r.op]
             q == [NoRequest EXCEPT !.phase = "bulkNext", !.op = r.op, !.code = r.code,
                                    !.todo = r.todo]
  <2>1. CASE ~Present(r.alert)
    BY <1>8, <2>1, <1>b, <1>c DEF CommitProposal
  <2>2. CASE Present(r.alert)
    <3>1. p \in Proposal /\ r.needs \in BOOLEAN /\ r.staged \in BOOLEAN /\ r.alert \in Alerts
      BY <1>0, <1>8 DEF CommitProposal, Informed, Proposal, Request
    <3>2. alert[r.alert].status \in Undecided
      BY <1>0, <1>8, <2>2 DEF CommitProposal, Fresh, Present
    <3>3. RecordProposal(r.alert, p, r.needs, r.staged)
      BY <1>8, <2>2 DEF CommitProposal
    <3>4. Decides
      BY <3>1, <3>2, <3>3, ProposalDecides
    <3>5. Fresh(q, alert')
      BY DEF NoRequest, Fresh
    <3>6. QED
      BY <1>8, <2>2, <3>4, <3>5, <1>a, <1>b DEF CommitProposal, Finish
  <2>3. QED
    BY <2>1, <2>2
<1>9. CASE ConfirmCheck(s)
  <2> DEFINE q == [r EXCEPT !.phase = "cleared"]
  <2>1. CASE req' = [req EXCEPT ![s].phase = "cleared"] /\ alert[r.alert].status = PENDING
    <3>1. q.phase = "cleared" /\ q.alert = r.alert
      BY <1>0 DEF Request
    <3>2. Fresh(q, alert')
      BY <1>9, <1>c, <2>1, <3>1 DEF ConfirmCheck, Fresh
    <3>3. [req EXCEPT ![s].phase = "cleared"] = [req EXCEPT ![s] = q]
      BY <1>0
    <3>4. QED
      BY <1>9, <2>1, <1>a, <1>c, <3>2, <3>3 DEF ConfirmCheck
  <2>2. CASE Finish(s)
    BY <1>9, <2>2, <1>b, <1>c DEF ConfirmCheck
  <2>3. QED
    BY <1>9, <2>1, <2>2 DEF ConfirmCheck
<1>10. CASE CommitConfirmation(s)
  <2>1. CASE ~Present(r.alert)
    BY <1>10, <2>1, <1>b, <1>c DEF CommitConfirmation
  <2>2. CASE Present(r.alert)
    <3>1. r.alert \in Alerts /\ r.proposal \in Proposal
      BY <1>0, <1>10 DEF CommitConfirmation, Informed
    <3>2. r.proposal.status \in DISPOSITIONS /\ "escalated" \in DISPOSITIONS
      BY <3>1 DEF Proposal, DISPOSITIONS
    <3>3. alert[r.alert].status \in Undecided
      BY <1>0, <1>10, <2>2 DEF CommitConfirmation, Fresh, Present, Undecided
    <3>4. Decides
      BY <1>10, <2>2, <3>1, <3>2, <3>3, ConfirmationDecides DEF CommitConfirmation
    <3>5. QED
      BY <1>10, <3>4, <1>b DEF CommitConfirmation
  <2>3. QED
    BY <2>1, <2>2
<1>11. CASE Abort(s)
  BY <1>11, <1>b, <1>c DEF Abort
<1>12. QED
  BY <1>1, <1>2, <1>3, <1>4, <1>5, <1>6, <1>7, <1>8, <1>9, <1>10, <1>11 DEF RequestStep

LEMMA SequentialStep ==
    ASSUME OneRequest, TypeInv, SequentialInv, [Next]_vars
    PROVE  SequentialInv' /\ Decides
<1>0. alert \in [Alerts -> AlertRow]
  BY DEF TypeInv, RecordOK
<1>1. ASSUME NEW s \in Slots, RequestStep(s)
      PROVE  SequentialInv' /\ Decides
  BY <1>1, RequestDecides DEF SequentialInv, Decides
<1>2. ASSUME UNCHANGED <<alert, obligations, req>>
      PROVE  SequentialInv' /\ Decides
  BY <1>2, NothingDecided DEF SequentialInv
<1>3. ASSUME \/ \E v \in Settings : SetSingleOperatorMode(v)
             \/ RegisterOrganization
             \/ \E a \in Alerts : ListChange(a)
             \/ UNCHANGED vars
      PROVE  UNCHANGED <<alert, obligations, req>>
  BY <1>3 DEF SetSingleOperatorMode, RegisterOrganization, ListChange, vars, record
<1>4. ASSUME NEW a \in Alerts, Delist(a)
      PROVE  SequentialInv' /\ Decides
  <2> DEFINE stat == [b \in Alerts |-> alert[b].status]
  <2>1. alert' = [alert EXCEPT ![a] = Gone] /\ UNCHANGED <<obligations, req>>
    BY <1>4 DEF Delist
  <2>2. stat' = [stat EXCEPT ![a] = "gone"]
    BY <1>0, <2>1 DEF Gone
  <2>3. \A b \in Alerts : alert'[b].status \in {alert[b].status, "gone"}
    BY <1>0, <2>1 DEF Gone
  <2>4. Disposition!Remove(a)
    BY <2>1, <2>2 DEF Disposition!Remove
  <2>5. Decides
    BY <2>1, <2>3, <2>4 DEF Decides, Disposition!Next, SequentialInv, Undecided, PENDING
  <2>6. ASSUME NEW s \in Slots
        PROVE  Fresh(req'[s], alert')
    <3>1. req'[s] = req[s] /\ Fresh(req[s], alert) /\ Informed(req[s])
      BY <2>1 DEF SequentialInv, TypeInv, RequestsOK
    <3>2. QED
      BY <2>3, <3>1 DEF Fresh, Informed
  <2>7. QED
    BY <2>5, <2>6 DEF SequentialInv, Decides
<1>5. QED
  BY <1>1, <1>2, <1>3, <1>4, NextSplit

LEMMA SequentialInit == Init => SequentialInv
<1> SUFFICES ASSUME Init PROVE SequentialInv
  OBVIOUS
<1>1. \A s \in Slots : Fresh(req[s], alert)
  BY DEF Init, Fresh, NoRequest
<1>2. \A a \in Alerts : obligations[a] = 0
  BY DEF Init
<1>3. QED
  BY <1>1, <1>2 DEF SequentialInv

\* While requests do not overlap, an alert that was given a final disposition
\* keeps it until the alert goes with its entity (Issue #167).
THEOREM NoDoubleDispositionCorrect ==
    ASSUME OneRequest
    PROVE  Spec => NoDoubleDisposition
<1>1. TypeInv /\ SequentialInv /\ [Next]_vars => SequentialInv'
  BY SequentialStep
<1>2. TypeInv /\ SequentialInv /\ [Next]_vars =>
          \/ \A a \in Alerts : alert[a].status \in Final =>
                 alert'[a].status \in {alert[a].status, "gone"}
          \/ UNCHANGED vars
  BY SequentialStep DEF Decides
<1>3. QED
  BY <1>1, <1>2, TypeInit, TypeStep, SequentialInit, PTL DEF Spec, NoDoubleDisposition

\* The staged, two-person, multi-statement disposition of review.py implements
\* the abstract promise: one decision per alert, and at most one freeze obligation,
\* raised by that decision, while requests do not overlap.
THEOREM DispositionImplemented ==
    ASSUME OneRequest
    PROVE  Spec => DispositionSpec
<1>1. Init => Disposition!Init
  BY DEF Init, Disposition!Init, Disposition!Undecided, PENDING
<1>2. TypeInv /\ SequentialInv /\ [Next]_vars =>
          SequentialInv' /\ [Disposition!Next]_(Disposition!vars)
  BY SequentialStep DEF Decides
<1>3. QED
  BY <1>1, <1>2, TypeInit, TypeStep, SequentialInit, PTL
  DEF Spec, DispositionSpec, Disposition!Spec

===============================================================================
