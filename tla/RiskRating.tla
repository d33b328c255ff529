------------------------------- MODULE RiskRating -------------------------------
(***************************************************************************)
(* The risk rating of one customer and its periodic review: risk/model.py  *)
(* and the re-assessments of cases/manager.py.                             *)
(*                                                                         *)
(* A re-assessment builds on the newest row of risk_assessments, replaces  *)
(* the factors its event is about, and appends a row.  Each SELECT runs in *)
(* autocommit, also the one of save() that carries the review date over,   *)
(* since the INSERT after it opens the transaction.  Dates are in years.   *)
(***************************************************************************)
EXTENDS Requests, Integers, Sequences, FiniteSets, FiniteSetsExt

CONSTANTS
    Findings,      \* adverse-media findings that may come up
    Sectors,       \* points of the sectors an officer may enter
    MaxAlerts,     \* bound: transaction alerts open at a time
    MaxReviewYear  \* bound: the last year

ASSUME RatingAssumption == Sectors \subseteq Nat /\ MaxAlerts \in Nat /\ MaxReviewYear \in Nat

VARIABLES
    assessment,    \* the newest row of risk_assessments
    finding,       \* finding[f]: the row of adverse_media_findings
    openAlerts,    \* transaction alerts open, other than large_value
    listed,        \* a sanctions alert not dismissed as a false positive
    ratings,       \* ratings[s]: the request in slot s
    reviewYear,
    reviewed       \* history: a review has saved its assessment this year

ratingVars == <<assessment, finding, openAlerts, listed, ratings, reviewYear, reviewed>>

-------------------------------------------------------------------------------
\* Vocabulary

\* Points of risk/ruleset.yaml; a factor is told apart by its points.
Severities == {10, 25, 35}
review_months == [low |-> 3, medium |-> 2, high |-> 1]

\* A row of risk_assessments: the factors that change after onboarding, and the date
\* of the next review.
Assessment == [media : Severities \cup {0}, cash : {0, 10, 25}, sector : Sectors, hit : BOOLEAN,
               next : Nat]

\* assess, for these factors.
Score(row) == row.media + row.cash + row.sector
Rating(row) == IF row.hit \/ Score(row) >= 50 THEN "high"
               ELSE IF Score(row) >= 25 THEN "medium" ELSE "low"
review_date_for(row) == reviewYear + review_months[Rating(row)]

\* reassess_transaction_risk: the cash factor from the open alerts.
CashLevel(n) == IF n >= 3 THEN 25 ELSE IF n >= 1 THEN 10 ELSE 0

\* adverse_media_severity: the worst finding that was ruled relevant.
adverse_media_severity ==
    Max({0} \cup {finding[f].points : f \in {g \in Findings : finding[g].status = "relevant"}})

\* A request is the steps it has left and the row it is going to save.
NoRating == [todo |-> <<>>, op |-> "none", sector |-> None, wanted |-> None,
             row |-> None, carried |-> 0]

\* Who reads what.  A review with a change assesses anew, any other copies the row.
Steps == [transaction |-> <<"prior", "count", "clock", "save">>,
          media       |-> <<"prior", "severity", "clock", "save">>,
          reassess    |-> <<"prior", "screening", "severity", "clock", "save">>,
          corrected   |-> <<"was", "project", "prior", "screening", "severity", "clock", "save">>,
          changed     |-> <<"prior", "screening", "severity", "save", "record">>,
          unchanged   |-> <<"prior", "save", "record">>]

-------------------------------------------------------------------------------
RatingInit ==
    /\ \E sector \in Sectors :
           assessment = [media |-> 0, cash |-> 0, sector |-> sector, hit |-> FALSE, next |-> 1]
    /\ finding = [f \in Findings |-> [status |-> "none", points |-> 0]]
    /\ openAlerts = 0
    /\ listed = FALSE
    /\ ratings = [s \in Slots |-> NoRating]
    /\ reviewYear = 0
    /\ reviewed = FALSE

Enter(s, op, sector, wanted) ==
    /\ ratings[s].op = "none"
    /\ ratings' = [ratings EXCEPT ![s] = [NoRating EXCEPT
           !.todo = Steps[op], !.op = op, !.sector = sector, !.wanted = wanted]]

\* record_transaction, once its rules have raised an alert.
record_transaction_alerted(s) ==
    /\ openAlerts < MaxAlerts
    /\ openAlerts' = openAlerts + 1
    /\ Enter(s, "transaction", None, None)
    /\ UNCHANGED <<assessment, finding, listed, reviewYear, reviewed>>

\* No re-assessment follows.
disposition_transaction_alert ==
    /\ openAlerts > 0
    /\ openAlerts' = openAlerts - 1
    /\ UNCHANGED <<assessment, finding, listed, ratings, reviewYear, reviewed>>

\* A search files the finding (AdverseMedia).
FindingFiled(f, points) ==
    /\ finding[f].status = "none"
    /\ finding' = [finding EXCEPT ![f] = [status |-> "open", points |-> points]]
    /\ UNCHANGED <<assessment, openAlerts, listed, ratings, reviewYear, reviewed>>

\* A ruling may be changed later.
disposition_adverse_media_finding(s, f, status) ==
    /\ finding[f].status # "none"
    /\ finding' = [finding EXCEPT ![f].status = status]
    /\ Enter(s, "media", None, None)
    /\ UNCHANGED <<assessment, openAlerts, listed, reviewYear, reviewed>>

\* Screenings and decisions (Screening, AlertReview).
ListingChanges ==
    /\ listed' = ~listed
    /\ UNCHANGED <<assessment, finding, openAlerts, ratings, reviewYear, reviewed>>

\* The risk button and the mobile disposition.
reassess_risk(s) ==
    /\ Enter(s, "reassess", None, None)
    /\ UNCHANGED <<assessment, finding, openAlerts, listed, reviewYear, reviewed>>

\* The factors an officer corrects in the app: without a reason, the rating is projected
\* first and must not be lower than the one there was.
update_risk_factors(s, sector, reasoned) ==
    /\ Enter(s, IF reasoned THEN "reassess" ELSE "corrected", sector, None)
    /\ UNCHANGED <<assessment, finding, openAlerts, listed, reviewYear, reviewed>>

\* The mobile client may state the rating it expects of a change.
complete_periodic_review(s, outcome, wanted) ==
    /\ Enter(s, outcome, None, wanted)
    /\ UNCHANGED <<assessment, finding, openAlerts, listed, reviewYear, reviewed>>

\* One SELECT of the request in slot s.  Mutation: save() takes the freshly computed
\* date.
FreshDate(s) == [ratings[s] EXCEPT !.carried = 0]
Carried(s) == [ratings[s] EXCEPT !.carried = assessment.next]
PriorRow(s) ==
    [ratings[s] EXCEPT !.row = IF ratings[s].sector = None THEN assessment
                               ELSE [assessment EXCEPT !.sector = ratings[s].sector]]

Read(s) ==
    LET r == ratings[s]
        step == Head(r.todo)
        read == CASE step = "was" -> [r EXCEPT !.wanted = Rating(assessment)]
                  [] step = "prior" -> PriorRow(s)
                  [] step = "count" -> [r EXCEPT !.row.cash = CashLevel(openAlerts)]
                  [] step = "severity" -> [r EXCEPT !.row.media = adverse_media_severity]
                  [] step = "screening" -> [r EXCEPT !.row.hit = listed]
                  [] step = "clock" -> Carried(s)
    IN
    /\ r.todo # <<>> /\ step \notin {"project", "save", "record"}
    /\ ratings' = [ratings EXCEPT ![s] = [read EXCEPT !.todo = Tail(r.todo)]]
    /\ UNCHANGED <<assessment, finding, openAlerts, listed, reviewYear, reviewed>>

\* The dry run, here one step, is only compared with the rating there was.
_RATING_RANK == [low |-> 0, medium |-> 1, high |-> 2]
Project(s) ==
    LET r == ratings[s]
        projected == [PriorRow(s).row EXCEPT !.hit = listed, !.media = adverse_media_severity]
    IN
    /\ r.todo # <<>> /\ Head(r.todo) = "project"
    /\ ratings' = [ratings EXCEPT ![s] =
           IF _RATING_RANK[Rating(projected)] < _RATING_RANK[r.wanted] THEN NoRating
           ELSE [r EXCEPT !.todo = Tail(@), !.wanted = None]]
    /\ UNCHANGED <<assessment, finding, openAlerts, listed, reviewYear, reviewed>>

\* After its last step, or when the rating is not the wanted one, a request is over:
\* complete_periodic_review has saved the new date by then.
After(s) ==
    LET r == ratings[s]
        refused == r.wanted \notin {None, Rating(r.row)}
    IN IF Len(r.todo) = 1 \/ refused THEN NoRating ELSE [r EXCEPT !.todo = Tail(@)]

save(s) ==
    LET r == ratings[s] IN
    /\ r.todo # <<>> /\ Head(r.todo) = "save"
    /\ assessment' = [r.row EXCEPT !.next = IF r.carried = 0 THEN review_date_for(r.row)
                                            ELSE r.carried]
    /\ ratings' = [ratings EXCEPT ![s] = After(s)]
    /\ reviewed' = (reviewed \/ r.op \in {"changed", "unchanged"})
    /\ UNCHANGED <<finding, openAlerts, listed, reviewYear>>

\* The row of periodic_reviews.
RecordReview(s) ==
    /\ ratings[s].todo # <<>> /\ Head(ratings[s].todo) = "record"
    /\ ratings' = [ratings EXCEPT ![s] = After(s)]
    /\ UNCHANGED <<assessment, finding, openAlerts, listed, reviewYear, reviewed>>

RatingDies(s) ==
    /\ ratings[s].op # "none"
    /\ ratings' = [ratings EXCEPT ![s] = NoRating]
    /\ UNCHANGED <<assessment, finding, openAlerts, listed, reviewYear, reviewed>>

\* No request lasts into the next year.
ReviewYearPasses ==
    /\ reviewYear < MaxReviewYear
    /\ \A s \in Slots : ratings[s].op = "none"
    /\ reviewYear' = reviewYear + 1
    /\ reviewed' = FALSE
    /\ UNCHANGED <<assessment, finding, openAlerts, listed, ratings>>

RatingRequest(s) ==
    \/ record_transaction_alerted(s)
    \/ \E f \in Findings, status \in {"relevant", "not_relevant"} :
           disposition_adverse_media_finding(s, f, status)
    \/ reassess_risk(s)
    \/ \E sector \in Sectors, reasoned \in BOOLEAN : update_risk_factors(s, sector, reasoned)
    \/ complete_periodic_review(s, "unchanged", None)
    \/ \E wanted \in {None, "low"} : complete_periodic_review(s, "changed", wanted)

RatingNext ==
    \/ ReviewYearPasses \/ ListingChanges \/ disposition_transaction_alert
    \/ \E f \in Findings, points \in Severities : FindingFiled(f, points)
    \/ \E s \in Slots : \/ RatingRequest(s)
                        \/ Read(s) \/ Project(s) \/ save(s) \/ RecordReview(s) \/ RatingDies(s)

RatingSpec == RatingInit /\ [][RatingNext]_ratingVars

-------------------------------------------------------------------------------
\* Properties

\* Types of the rows, the requests and the histories.
RatingTypeOK ==
    /\ assessment \in Assessment
    /\ finding \in [Findings -> [status : {"none", "open", "relevant", "not_relevant"},
                                 points : Severities \cup {0}]]
    /\ openAlerts \in 0..MaxAlerts /\ reviewYear \in 0..MaxReviewYear
    /\ \A s \in Slots : ratings[s].row \in Assessment \cup {None}
    /\ {listed, reviewed} \subseteq BOOLEAN

\* However transactions, findings, corrections and reviews overlap and die, an
\* overdue review stops being overdue only when a review has saved its assessment.
OverdueNeedsReview ==
    [][assessment.next <= reviewYear /\ assessment'.next > reviewYear => reviewed']_ratingVars
===============================================================================
