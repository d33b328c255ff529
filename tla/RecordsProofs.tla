----------------------------- MODULE RecordsProofs -----------------------------
(***************************************************************************)
(* Proofs about the records of customers and of the organisation: one      *)
(* finding per article (AdverseMedia), reviews that stay overdue           *)
(* (RiskRating), onboardings answered as done (Onboarding), verified       *)
(* identities (IdentityCheck), names of colleagues (Organisations),        *)
(* retention and purge (Retention), the upgrade of a database              *)
(* (Migrations), recorded owners (Ownership), amounts split over several   *)
(* transactions (Kyt) and the list that is downloaded (LocalList), and the *)
(* types of these modules and of Staleness, each for every value of the    *)
(* constants.                                                              *)
(***************************************************************************)
EXTENDS AdverseMedia, RiskRating, Onboarding, IdentityCheck, Organisations, Retention, Kyt,
        Ownership, LocalList, Migrations, Staleness, SetLemmas, SequenceTheorems

-------------------------------------------------------------------------------
\* Adverse media

\* However checks overlap, repeat and die, an article is filed once:
\* _persist_adverse_media looks for the article in the transaction that inserts it.
THEOREM OneFindingPerArticleCorrect == MediaSpec => []OneFindingPerArticle
<1> DEFINE FiledOnce == filed \in [Urls -> {0, 1}]
<1>1. MediaInit => FiledOnce
  BY DEF MediaInit
<1>2. FiledOnce /\ [MediaNext]_mediaVars => FiledOnce'
  <2> SUFFICES ASSUME FiledOnce, [MediaNext]_mediaVars  PROVE FiledOnce'
    OBVIOUS
  <2>1. CASE filed' = filed
    BY <2>1
  <2>2. ASSUME NEW s \in Slots, _persist_adverse_media(s)  PROVE FiledOnce'
    BY <2>2 DEF _persist_adverse_media, Unfiled
  <2>3. filed' = filed \/ \E s \in Slots : _persist_adverse_media(s)
    BY DEF MediaNext, mediaVars, MediaTick, Rerated, run_adverse_media, run_due_adverse_media,
           MediaUnavailable, EnoughArticles, fetch, _resolve_entities, _triage, _finish_run, MediaDies
  <2> QED  BY <2>1, <2>2, <2>3
<1>3. FiledOnce => OneFindingPerArticle
  BY DEF OneFindingPerArticle
<1> QED  BY <1>1, <1>2, <1>3, PTL DEF MediaSpec

-------------------------------------------------------------------------------
\* The review of the rating

Reviews == {"changed", "unchanged"}

RatingSteps == {"was", "project", "prior", "count", "severity", "screening", "clock", "save", "record"}
RatingOps == {"none", "transaction", "media", "reassess", "corrected", "changed", "unchanged"}

RatingRequests ==
    [todo : Seq(RatingSteps), op : RatingOps, sector : Sectors \cup {None},
     wanted : {None, "low", "medium", "high"}, row : Assessment \cup {None}, carried : Nat]

\* The reads a request still has before it saves: the row it starts from and, unless it
\* is a review, the date that it carries over.
StepsInOrder(r) ==
    \A i \in 1..Len(r.todo) :
        /\ r.todo[i] \in {"count", "severity", "screening", "save"} /\ r.row \notin Assessment
              => \E j \in 1..(i - 1) : r.todo[j] = "prior"
        /\ r.todo[i] = "save" /\ r.op \notin Reviews /\ r.carried = 0
              => \E j \in 1..(i - 1) : r.todo[j] = "clock"

RatingOK(r) ==
    /\ r \in RatingRequests /\ StepsInOrder(r)
    /\ r.op = "none" => r.todo = <<>> /\ r.carried = 0

RatingRequestsOK ==
    /\ ratings \in [Slots -> RatingRequests]
    /\ \A s \in Slots : RatingOK(ratings[s])

LEMMA NoRatingOK == RatingOK(NoRating) /\ NoRating.carried = 0
<1>1. ASSUME NEW todo \in Seq(RatingSteps), NEW op \in RatingOps, NEW carried \in Nat
      PROVE  LET r == [todo |-> todo, op |-> op, sector |-> None, wanted |-> None,
                       row |-> None, carried |-> carried]
             IN  r \in RatingRequests /\ r.todo = todo /\ r.carried = carried
  BY DEF RatingRequests
<1>2. <<>> \in Seq(RatingSteps) /\ "none" \in RatingOps /\ 0 \in Nat
  BY DEF RatingOps
<1>3. NoRating \in RatingRequests /\ NoRating.todo = <<>> /\ NoRating.carried = 0
  BY <1>1, <1>2, Zenon DEF NoRating
<1> QED  BY <1>3 DEF RatingOK, StepsInOrder

LEMMA StepsAreOrdered ==
    ASSUME NEW op \in {"transaction", "media", "reassess", "corrected", "changed", "unchanged"},
           NEW r \in RatingRequests, r.op = op, r.todo = Steps[op]
    PROVE  StepsInOrder(r)
<1>1. CASE op = "transaction"
  BY <1>1 DEF Steps, StepsInOrder, Reviews
<1>2. CASE op = "media"
  BY <1>2 DEF Steps, StepsInOrder, Reviews
<1>3. CASE op = "reassess"
  BY <1>3 DEF Steps, StepsInOrder, Reviews
<1>4. CASE op = "corrected"
  BY <1>4 DEF Steps, StepsInOrder, Reviews
<1>5. CASE op = "changed"
  BY <1>5 DEF Steps, StepsInOrder, Reviews
<1>6. CASE op = "unchanged"
  BY <1>6 DEF Steps, StepsInOrder, Reviews
<1> QED  BY <1>1, <1>2, <1>3, <1>4, <1>5, <1>6

LEMMA StepsAreSequences ==
    ASSUME NEW op \in {"transaction", "media", "reassess", "corrected", "changed", "unchanged"}
    PROVE  Steps[op] \in Seq(RatingSteps)
<1>1. CASE op = "transaction"
  BY <1>1 DEF Steps, RatingSteps
<1>2. CASE op = "media"
  BY <1>2 DEF Steps, RatingSteps
<1>3. CASE op = "reassess"
  BY <1>3 DEF Steps, RatingSteps
<1>4. CASE op = "corrected"
  BY <1>4 DEF Steps, RatingSteps
<1>5. CASE op = "changed"
  BY <1>5 DEF Steps, RatingSteps
<1>6. CASE op = "unchanged"
  BY <1>6 DEF Steps, RatingSteps
<1> QED  BY <1>1, <1>2, <1>3, <1>4, <1>5, <1>6

\* A request that has taken its first step is in order still.
LEMMA NextInOrder ==
    ASSUME NEW r, NEW q, StepsInOrder(r), r.todo \in Seq(RatingSteps), r.todo # <<>>,
           q.todo = Tail(r.todo), q.op = r.op,
           r.row \in Assessment \/ Head(r.todo) = "prior" => q.row \in Assessment,
           r.carried # 0 \/ Head(r.todo) = "clock" => q.carried # 0
    PROVE  StepsInOrder(q)
<1> SUFFICES ASSUME NEW i \in 1..Len(q.todo)
             PROVE  /\ q.todo[i] \in {"count", "severity", "screening", "save"} /\ q.row \notin Assessment
                          => \E j \in 1..(i - 1) : q.todo[j] = "prior"
                    /\ q.todo[i] = "save" /\ q.op \notin Reviews /\ q.carried = 0
                          => \E j \in 1..(i - 1) : q.todo[j] = "clock"
  BY DEF StepsInOrder
<1>1. i + 1 \in 1..Len(r.todo) /\ q.todo[i] = r.todo[i + 1]
  OBVIOUS
<1>2. \A j \in 1..i : j # 1 => j - 1 \in 1..(i - 1) /\ q.todo[j - 1] = r.todo[j]
  OBVIOUS
<1>3. Head(r.todo) = r.todo[1]
  OBVIOUS
<1>4. ASSUME q.todo[i] \in {"count", "severity", "screening", "save"}, q.row \notin Assessment
      PROVE  \E j \in 1..(i - 1) : q.todo[j] = "prior"
  <2>1. PICK j \in 1..((i + 1) - 1) : r.todo[j] = "prior"
    BY <1>1, <1>4 DEF StepsInOrder
  <2>2. j \in 1..i /\ j # 1
    BY <1>3, <1>4, <2>1
  <2> QED  BY <1>2, <2>1, <2>2
<1>5. ASSUME q.todo[i] = "save", q.op \notin Reviews, q.carried = 0
      PROVE  \E j \in 1..(i - 1) : q.todo[j] = "clock"
  <2>1. PICK j \in 1..((i + 1) - 1) : r.todo[j] = "clock"
    BY <1>1, <1>5 DEF StepsInOrder
  <2>2. j \in 1..i /\ j # 1
    BY <1>3, <1>5, <2>1
  <2> QED  BY <1>2, <2>1, <2>2
<1> QED  BY <1>4, <1>5

LEMMA RatingUpdate ==
    ASSUME RatingRequestsOK, NEW s \in Slots, NEW q, RatingOK(q),
           ratings' = [ratings EXCEPT ![s] = q]
    PROVE  /\ RatingRequestsOK'
           /\ ratings'[s] = q /\ \A t \in Slots \ {s} : ratings'[t] = ratings[t]
<1>1. /\ ratings' \in [Slots -> RatingRequests]
      /\ ratings'[s] = q /\ \A t \in Slots \ {s} : ratings'[t] = ratings[t]
  BY DEF RatingRequestsOK, RatingOK
<1>2. ASSUME NEW t \in Slots  PROVE RatingOK(ratings'[t])
  BY <1>1 DEF RatingRequestsOK
<1>3. \A t \in Slots : RatingOK(ratings'[t])
  BY <1>2
<1> QED  BY <1>1, <1>3 DEF RatingRequestsOK, RatingOK, StepsInOrder

RatingRowsOK ==
    /\ assessment \in Assessment /\ assessment.next # 0
    /\ finding \in [Findings -> [status : {"none", "open", "relevant", "not_relevant"},
                                 points : Severities \cup {0}]]
    /\ openAlerts \in 0..MaxAlerts /\ reviewYear \in 0..MaxReviewYear
    /\ listed \in BOOLEAN /\ reviewed \in BOOLEAN

LEMMA WorstSeverity ==
    ASSUME RatingRowsOK
    PROVE  adverse_media_severity \in Severities \cup {0}
<1> DEFINE S == {0} \cup {finding[f].points : f \in {g \in Findings : finding[g].status = "relevant"}}
<1>1. S \subseteq Severities \cup {0} /\ S # {}
  BY DEF RatingRowsOK
<1>2. Severities \cup {0} \subseteq 0..35 /\ 35 \in Nat
  BY DEF Severities
<1> HIDE DEF S
<1>3. S \in SUBSET (0..35) /\ S # {}
  BY <1>1, <1>2
<1>4. Max(S) \in S
  BY <1>2, <1>3, MaxIsMember
<1> QED  BY <1>1, <1>4 DEF S, adverse_media_severity

LEMMA RatingIsRated ==
    ASSUME NEW row
    PROVE  Rating(row) \in {"low", "medium", "high"}
BY DEF Rating

\* A review sets its date ahead of the year.
LEMMA ReviewIsAhead ==
    ASSUME RatingRowsOK, NEW row \in Assessment
    PROVE  review_date_for(row) \in Nat /\ review_date_for(row) > reviewYear
<1>1. review_months[Rating(row)] \in {1, 2, 3}
  BY RatingIsRated DEF review_months
<1> HIDE DEF review_months
<1> QED  BY <1>1 DEF review_date_for, RatingRowsOK

\* A step that sets one field of a request, and takes the step off its list.
LEMMA FieldOK ==
    ASSUME NEW r, RatingOK(r), r.todo # <<>>, NEW q \in RatingRequests,
           q.todo = Tail(r.todo), q.op = r.op,
           r.row \in Assessment \/ Head(r.todo) = "prior" => q.row \in Assessment,
           r.carried # 0 \/ Head(r.todo) = "clock" => q.carried # 0
    PROVE  RatingOK(q)
<1>1. r.todo \in Seq(RatingSteps) /\ r.op # "none"
  BY DEF RatingOK, RatingRequests
<1>2. StepsInOrder(q)
  BY <1>1, NextInOrder DEF RatingOK
<1> QED  BY <1>1, <1>2 DEF RatingOK

LEMMA PriorRowOK ==
    ASSUME RatingRowsOK, NEW s \in Slots, ratings[s] \in RatingRequests
    PROVE  /\ PriorRow(s) \in RatingRequests /\ PriorRow(s).row \in Assessment
           /\ PriorRow(s).todo = ratings[s].todo /\ PriorRow(s).op = ratings[s].op
           /\ PriorRow(s).carried = ratings[s].carried
<1> DEFINE r == ratings[s]
           row == IF r.sector = None THEN assessment ELSE [assessment EXCEPT !.sector = r.sector]
<1>1. row \in Assessment
  BY DEF RatingRowsOK, Assessment, RatingRequests
<1>2. PriorRow(s) = [r EXCEPT !.row = row]
  BY DEF PriorRow
<1> HIDE DEF row
<1> QED  BY <1>1, <1>2 DEF RatingRequests

\* What one SELECT makes of a request.
LEMMA ReadFields ==
    ASSUME RatingRowsOK, RatingRequestsOK, NEW s \in Slots, Read(s)
    PROVE  \E q : /\ RatingOK(q) /\ ratings' = [ratings EXCEPT ![s] = q]
                  /\ q.carried = ratings[s].carried \/ q.carried = assessment.next
<1> DEFINE r == ratings[s]
           step == Head(r.todo)
<1>1. /\ r \in RatingRequests /\ RatingOK(r) /\ r.todo # <<>>
      /\ step \in RatingSteps /\ Tail(r.todo) \in Seq(RatingSteps)
      /\ step \in {"count", "severity", "screening"} => r.row \in Assessment
  <2>1. r \in RatingRequests /\ RatingOK(r) /\ r.todo # <<>> /\ r.todo \in Seq(RatingSteps)
    BY DEF RatingRequestsOK, RatingRequests, Read
  <2>2. step = r.todo[1] /\ 1 \in 1..Len(r.todo) /\ step \in RatingSteps
        /\ Tail(r.todo) \in Seq(RatingSteps)
    BY <2>1
  <2>3. step \in {"count", "severity", "screening"} => r.row \in Assessment
    BY <2>1, <2>2 DEF RatingOK, StepsInOrder
  <2> QED  BY <2>1, <2>2, <2>3
<1> DEFINE rest == Tail(r.todo)
           OneField(q) == /\ q \in RatingRequests /\ q.todo = rest /\ q.op = r.op
                          /\ r.row \in Assessment \/ step = "prior" => q.row \in Assessment
                          /\ r.carried # 0 \/ step = "clock" => q.carried # 0
                          /\ q.carried = r.carried \/ q.carried = assessment.next
                          /\ ratings' = [ratings EXCEPT ![s] = q]
<1>2. ASSUME step = "was"  PROVE \E q : OneField(q)
  <2> DEFINE wanted == Rating(assessment)
             q == [[r EXCEPT !.wanted = wanted] EXCEPT !.todo = rest]
  <2>1. ratings' = [ratings EXCEPT ![s] = q]
    BY <1>2 DEF Read
  <2>2. wanted \in {None, "low", "medium", "high"}
    BY RatingIsRated
  <2> HIDE DEF wanted, rest
  <2>3. q \in RatingRequests /\ q.todo = rest /\ q.op = r.op /\ q.row = r.row /\ q.carried = r.carried
    BY <1>1, <2>2 DEF RatingRequests, rest
  <2> HIDE DEF q
  <2>4. OneField(q)
    BY <1>2, <2>1, <2>3
  <2> QED  BY <2>4
<1>3. ASSUME step = "prior"  PROVE \E q : OneField(q)
  <2> DEFINE p == PriorRow(s)
             q == [p EXCEPT !.todo = rest]
  <2>1. ratings' = [ratings EXCEPT ![s] = q]
    BY <1>3 DEF Read
  <2>2. p \in RatingRequests /\ p.row \in Assessment /\ p.op = r.op /\ p.carried = r.carried
    BY <1>1, PriorRowOK
  <2> HIDE DEF p, rest
  <2>3. q \in RatingRequests /\ q.todo = rest /\ q.op = r.op /\ q.row \in Assessment
        /\ q.carried = r.carried
    BY <1>1, <2>2 DEF RatingRequests, rest
  <2> HIDE DEF q
  <2>4. OneField(q)
    BY <1>3, <2>1, <2>3
  <2> QED  BY <2>4
<1>4. ASSUME step \in {"count", "severity", "screening"}  PROVE \E q : OneField(q)
  <2>1. PICK row \in Assessment : ratings' = [ratings EXCEPT ![s] = [[r EXCEPT !.row = row] EXCEPT !.todo = rest]]
    <3>1. CASE step = "count"
      <4> DEFINE cash == CashLevel(openAlerts)
                 row == [r.row EXCEPT !.cash = cash]
      <4>1. ratings' = [ratings EXCEPT ![s] = [[r EXCEPT !.row = row] EXCEPT !.todo = rest]]
        BY <3>1 DEF Read
      <4>2. cash \in {0, 10, 25}
        BY DEF CashLevel
      <4>3. row \in Assessment
        BY <1>1, <3>1, <4>2 DEF Assessment
      <4> QED  BY <4>1, <4>3
    <3>2. CASE step = "severity"
      <4> DEFINE media == adverse_media_severity
                 row == [r.row EXCEPT !.media = media]
      <4>1. ratings' = [ratings EXCEPT ![s] = [[r EXCEPT !.row = row] EXCEPT !.todo = rest]]
        BY <3>2 DEF Read
      <4>2. media \in Severities \cup {0}
        BY WorstSeverity
      <4> HIDE DEF media
      <4>3. row \in Assessment
        BY <1>1, <3>2, <4>2 DEF Assessment
      <4> QED  BY <4>1, <4>3
    <3>3. CASE step = "screening"
      <4> DEFINE row == [r.row EXCEPT !.hit = listed]
      <4>1. ratings' = [ratings EXCEPT ![s] = [[r EXCEPT !.row = row] EXCEPT !.todo = rest]]
        BY <3>3 DEF Read
      <4>2. row \in Assessment
        BY <1>1, <3>3 DEF Assessment, RatingRowsOK
      <4> QED  BY <4>1, <4>2
    <3> QED  BY <1>4, <3>1, <3>2, <3>3
  <2> DEFINE q == [[r EXCEPT !.row = row] EXCEPT !.todo = rest]
  <2> HIDE DEF rest
  <2>2. q \in RatingRequests /\ q.todo = rest /\ q.op = r.op /\ q.row = row /\ q.carried = r.carried
    BY <1>1 DEF RatingRequests, rest
  <2>3. ratings' = [ratings EXCEPT ![s] = q]
    BY <2>1
  <2> HIDE DEF q
  <2>4. OneField(q)
    BY <1>4, <2>2, <2>3
  <2> QED  BY <2>4
<1>5. ASSUME step = "clock"  PROVE \E q : OneField(q)
  <2> DEFINE next == assessment.next
             q == [[r EXCEPT !.carried = next] EXCEPT !.todo = rest]
  <2>1. ratings' = [ratings EXCEPT ![s] = q]
    BY <1>5 DEF Read, Carried
  <2>2. next \in Nat /\ next # 0
    BY DEF RatingRowsOK, Assessment
  <2>3. next = assessment.next
    OBVIOUS
  <2> HIDE DEF next, rest
  <2>4. q \in RatingRequests /\ q.todo = rest /\ q.op = r.op /\ q.row = r.row /\ q.carried = next
    BY <1>1, <2>2 DEF RatingRequests, rest
  <2> HIDE DEF q
  <2>5. OneField(q)
    BY <1>5, <2>1, <2>2, <2>3, <2>4
  <2> QED  BY <2>5
<1>6. \E q : OneField(q)
  <2>1. step \notin {"project", "save", "record"}
    BY DEF Read
  <2> QED  BY <1>1, <1>2, <1>3, <1>4, <1>5, <2>1 DEF RatingSteps
<1>7. ASSUME NEW q, OneField(q)  PROVE RatingOK(q)
  BY <1>1, <1>7, FieldOK
<1> QED  BY <1>6, <1>7

\* A request enters with its steps before it, and no date carried over.
LEMMA EnterOK ==
    ASSUME NEW s \in Slots, NEW op \in RatingOps \ {"none"}, NEW sector \in Sectors \cup {None},
           NEW wanted \in {None, "low"}, Enter(s, op, sector, wanted)
    PROVE  \E q : RatingOK(q) /\ q.carried = 0 /\ ratings' = [ratings EXCEPT ![s] = q]
<1> DEFINE todo == Steps[op]
           q == [NoRating EXCEPT !.todo = todo, !.op = op, !.sector = sector, !.wanted = wanted]
<1>1. todo \in Seq(RatingSteps)
  BY StepsAreSequences DEF RatingOps
<1>2. ratings' = [ratings EXCEPT ![s] = q]
  BY DEF Enter
<1>3. todo = Steps[op]
  OBVIOUS
<1> HIDE DEF todo
<1>4. /\ q \in RatingRequests /\ q.op = op /\ q.todo = todo /\ q.carried = NoRating.carried
  BY <1>1, NoRatingOK DEF RatingOK, RatingRequests
<1> HIDE DEF q
<1>5. StepsInOrder(q)
  BY <1>3, <1>4, StepsAreOrdered DEF RatingOps
<1> QED  BY <1>2, <1>4, <1>5, NoRatingOK DEF RatingOK

LEMMA EntersFields ==
    ASSUME RatingRowsOK, NEW s \in Slots, RatingRequest(s)
    PROVE  /\ \E q : RatingOK(q) /\ q.carried = 0 /\ ratings' = [ratings EXCEPT ![s] = q]
           /\ RatingRowsOK' /\ UNCHANGED <<assessment, reviewYear, reviewed>>
<1> DEFINE Entered == \E q : RatingOK(q) /\ q.carried = 0 /\ ratings' = [ratings EXCEPT ![s] = q]
<1>1. Entered
  <2>1. \A op \in RatingOps \ {"none"}, sector \in Sectors \cup {None}, wanted \in {None, "low"} :
           Enter(s, op, sector, wanted) => Entered
    BY EnterOK
  <2>2. /\ {"transaction", "media", "reassess", "corrected", "changed", "unchanged"}
              \subseteq RatingOps \ {"none"}
        /\ None \in Sectors \cup {None} /\ None \in {None, "low"}
    BY DEF RatingOps
  <2> HIDE DEF Entered
  <2>3. record_transaction_alerted(s) \/ reassess_risk(s) => Entered
    BY <2>1, <2>2 DEF record_transaction_alerted, reassess_risk
  <2>4. (\E f \in Findings, status \in {"relevant", "not_relevant"} :
            disposition_adverse_media_finding(s, f, status)) => Entered
    BY <2>1, <2>2 DEF disposition_adverse_media_finding
  <2>5. (\E sector \in Sectors, reasoned \in BOOLEAN : update_risk_factors(s, sector, reasoned))
           => Entered
    BY <2>1, <2>2 DEF update_risk_factors
  <2>6. complete_periodic_review(s, "unchanged", None)
        \/ (\E wanted \in {None, "low"} : complete_periodic_review(s, "changed", wanted)) => Entered
    BY <2>1, <2>2 DEF complete_periodic_review
  <2> QED  BY <2>3, <2>4, <2>5, <2>6 DEF RatingRequest
<1>2. UNCHANGED <<assessment, reviewYear, reviewed, listed>>
  BY DEF RatingRequest, record_transaction_alerted, disposition_adverse_media_finding,
         reassess_risk, update_risk_factors, complete_periodic_review
<1>3. openAlerts' \in 0..MaxAlerts
  <2>1. openAlerts' = openAlerts \/ (openAlerts < MaxAlerts /\ openAlerts' = openAlerts + 1)
    BY Zenon DEF RatingRequest, record_transaction_alerted, disposition_adverse_media_finding,
           reassess_risk, update_risk_factors, complete_periodic_review
  <2> QED  BY <2>1, RatingAssumption DEF RatingRowsOK
<1>4. finding' = finding \/ \E f \in Findings, status \in {"relevant", "not_relevant"} :
                               finding' = [finding EXCEPT ![f].status = status]
  BY Zenon DEF RatingRequest, record_transaction_alerted, disposition_adverse_media_finding,
         reassess_risk, update_risk_factors, complete_periodic_review
<1>5. finding' \in [Findings -> [status : {"none", "open", "relevant", "not_relevant"},
                                 points : Severities \cup {0}]]
  BY <1>4 DEF RatingRowsOK
<1> QED  BY <1>1, <1>2, <1>3, <1>5 DEF RatingRowsOK

\* The dates that requests have carried over agree with the newest row on whether the
\* review is overdue, unless one has just been reviewed.
DatesAgree ==
    \A s \in Slots : ratings[s].carried # 0
        => \/ reviewed
           \/ ratings[s].carried > reviewYear <=> assessment.next > reviewYear

LEMMA AfterOK ==
    ASSUME RatingRequestsOK, NEW s \in Slots, ratings[s].todo # <<>>,
           Head(ratings[s].todo) \in {"save", "record"}
    PROVE  /\ RatingOK(After(s))
           /\ After(s).carried = 0 \/ After(s).carried = ratings[s].carried
<1> DEFINE r == ratings[s]
           q == [r EXCEPT !.todo = Tail(r.todo)]
<1>1. r \in RatingRequests /\ RatingOK(r) /\ r.todo \in Seq(RatingSteps)
  BY DEF RatingRequestsOK, RatingRequests
<1>2. /\ q \in RatingRequests /\ q.todo = Tail(r.todo) /\ q.op = r.op
      /\ q.row = r.row /\ q.carried = r.carried
  BY <1>1 DEF RatingRequests
<1>3. After(s) = NoRating \/ After(s) = q
  BY DEF After
<1> HIDE DEF q
<1>4. RatingOK(q)
  BY <1>1, <1>2, FieldOK
<1> QED  BY <1>2, <1>3, <1>4, NoRatingOK

\* A saved assessment keeps an overdue review overdue, unless it is the review's.
LEMMA SaveFields ==
    ASSUME RatingRowsOK, RatingRequestsOK, DatesAgree, NEW s \in Slots, save(s)
    PROVE  /\ RatingRowsOK'
           /\ reviewed' \/ (assessment'.next > reviewYear <=> assessment.next > reviewYear)
           /\ reviewed => reviewed'
<1> DEFINE r == ratings[s]
           next == IF r.carried = 0 THEN review_date_for(r.row) ELSE r.carried
<1>1. r \in RatingRequests /\ RatingOK(r) /\ r.todo \in Seq(RatingSteps) /\ r.todo # <<>>
  BY DEF RatingRequestsOK, RatingRequests, save
<1>2. r.todo[1] = "save" /\ 1 \in 1..Len(r.todo)
  BY <1>1 DEF save
<1>3. r.row \in Assessment /\ (r.op \notin Reviews => r.carried # 0)
  BY <1>1, <1>2 DEF RatingOK, StepsInOrder
<1>4. next \in Nat /\ next # 0 /\ (r.carried # 0 => next = r.carried)
  <2>1. review_date_for(r.row) \in Nat /\ review_date_for(r.row) > reviewYear
    BY <1>3, ReviewIsAhead
  <2> QED  BY <1>1, <2>1 DEF RatingRequests, RatingRowsOK
<1>5. assessment' = [r.row EXCEPT !.next = next]
  BY DEF save
<1> HIDE DEF next
<1>6. assessment' \in Assessment /\ assessment'.next = next
  BY <1>3, <1>4, <1>5 DEF Assessment
<1>7. /\ reviewed' \in BOOLEAN /\ (reviewed => reviewed') /\ (r.op \in Reviews => reviewed')
      /\ UNCHANGED <<finding, openAlerts, listed, reviewYear>>
  BY DEF save, Reviews, RatingRowsOK
<1>8. RatingRowsOK'
  BY <1>4, <1>6, <1>7 DEF RatingRowsOK
<1>9. reviewed' \/ (assessment'.next > reviewYear <=> assessment.next > reviewYear)
  BY <1>3, <1>4, <1>6, <1>7 DEF DatesAgree
<1> QED  BY <1>7, <1>8, <1>9

\* A request that goes on without saving.
LEMMA GoesOnFields ==
    ASSUME RatingRowsOK, RatingRequestsOK, NEW s \in Slots,
           Read(s) \/ Project(s) \/ RecordReview(s) \/ RatingDies(s)
    PROVE  /\ \E q : /\ RatingOK(q) /\ ratings' = [ratings EXCEPT ![s] = q]
                     /\ q.carried \in {0, ratings[s].carried, assessment.next}
           /\ RatingRowsOK' /\ UNCHANGED <<assessment, reviewYear, reviewed>>
<1>1. UNCHANGED <<assessment, finding, openAlerts, listed, reviewYear, reviewed>>
  BY DEF Read, Project, RecordReview, RatingDies
<1>2. RatingRowsOK'
  BY <1>1 DEF RatingRowsOK
<1> DEFINE Goes == \E q : /\ RatingOK(q) /\ ratings' = [ratings EXCEPT ![s] = q]
                          /\ q.carried \in {0, ratings[s].carried, assessment.next}
<1>3. ASSUME Read(s)  PROVE Goes
  BY <1>3, ReadFields
<1>4. ASSUME Project(s)  PROVE Goes
  <2> DEFINE r == ratings[s]
             rest == Tail(r.todo)
             q == [r EXCEPT !.todo = rest, !.wanted = None]
  <2>1. r \in RatingRequests /\ RatingOK(r) /\ r.todo \in Seq(RatingSteps) /\ r.todo # <<>>
        /\ Head(r.todo) = "project"
    BY <1>4 DEF RatingRequestsOK, RatingRequests, Project
  <2>2. rest \in Seq(RatingSteps) /\ rest = Tail(r.todo)
    BY <2>1
  <2>3. \/ ratings' = [ratings EXCEPT ![s] = NoRating] \/ ratings' = [ratings EXCEPT ![s] = q]
    BY <1>4 DEF Project
  <2> HIDE DEF rest
  <2>5. /\ q \in RatingRequests /\ q.todo = rest /\ q.op = r.op
        /\ q.row = r.row /\ q.carried = r.carried
    BY <2>1, <2>2 DEF RatingRequests
  <2> HIDE DEF q
  <2>4. RatingOK(q)
    BY <2>1, <2>2, <2>5, FieldOK
  <2> QED  BY <2>3, <2>4, <2>5, NoRatingOK
<1>5. ASSUME RecordReview(s)  PROVE Goes
  BY <1>5, AfterOK DEF RecordReview
<1>6. ASSUME RatingDies(s)  PROVE Goes
  BY <1>6, NoRatingOK DEF RatingDies
<1> QED  BY <1>1, <1>2, <1>3, <1>4, <1>5, <1>6

RatingInv == RatingRowsOK /\ RatingRequestsOK /\ DatesAgree

LEMMA RatingInitOK == ASSUME RatingInit PROVE RatingInv
<1>1. RatingRequestsOK /\ DatesAgree
  BY NoRatingOK DEF RatingInit, RatingRequestsOK, RatingOK, DatesAgree
<1>2. ASSUME NEW sector \in Sectors, NEW hit \in BOOLEAN, NEW cash \in {0, 10, 25},
             NEW media \in Severities \cup {0}, NEW next \in Nat
      PROVE  LET row == [media |-> media, cash |-> cash, sector |-> sector, hit |-> hit, next |-> next]
             IN  row \in Assessment /\ row.next = next
  BY DEF Assessment
<1>3. assessment \in Assessment /\ assessment.next = 1
  <2>1. PICK sector \in Sectors :
           assessment = [media |-> 0, cash |-> 0, sector |-> sector, hit |-> FALSE, next |-> 1]
    BY DEF RatingInit
  <2>2. 0 \in Severities \cup {0} /\ 0 \in {0, 10, 25} /\ 1 \in Nat /\ FALSE \in BOOLEAN
    OBVIOUS
  <2> QED  BY <1>2, <2>1, <2>2, Zenon
<1>4. finding \in [Findings -> [status : {"none", "open", "relevant", "not_relevant"},
                                points : Severities \cup {0}]]
  BY DEF RatingInit
<1>5. openAlerts = 0 /\ listed \in BOOLEAN /\ reviewYear = 0 /\ reviewed \in BOOLEAN
  <2>1. openAlerts = 0 /\ listed = FALSE /\ reviewYear = 0 /\ reviewed = FALSE
    BY Zenon DEF RatingInit
  <2> QED  BY <2>1, Zenon
<1>6. openAlerts \in 0..MaxAlerts /\ reviewYear \in 0..MaxReviewYear /\ assessment.next # 0
  BY <1>3, <1>5, RatingAssumption
<1>7. RatingRowsOK
  BY <1>3, <1>4, <1>5, <1>6 DEF RatingRowsOK
<1> QED  BY <1>1, <1>7 DEF RatingInv

RatingWorks(s) == Read(s) \/ Project(s) \/ RecordReview(s) \/ RatingDies(s)

\* What happens beside the requests: the year passes only when nobody works on a rating.
RatingAside ==
    \/ ReviewYearPasses \/ ListingChanges \/ disposition_transaction_alert
    \/ \E f \in Findings, points \in Severities : FindingFiled(f, points)

LEMMA RatingAsideOK ==
    ASSUME RatingInv, RatingAside
    PROVE  /\ RatingInv' /\ assessment' = assessment
           /\ reviewYear' # reviewYear => reviewYear' = reviewYear + 1
<1>1. assessment' = assessment /\ ratings' = ratings
  BY DEF RatingAside, ReviewYearPasses, ListingChanges, disposition_transaction_alert, FindingFiled
<1>2. RatingRequestsOK'
  BY <1>1 DEF RatingInv, RatingRequestsOK, RatingOK, StepsInOrder
<1>3. \/ \A s \in Slots : ratings[s].op = "none" /\ ratings[s].carried = 0
      \/ reviewYear' = reviewYear /\ reviewed' = reviewed
  BY DEF RatingAside, ReviewYearPasses, ListingChanges, disposition_transaction_alert, FindingFiled,
         RatingInv, RatingRequestsOK, RatingOK
<1>4. DatesAgree'
  BY <1>1, <1>3 DEF RatingInv, DatesAgree
<1>5. finding' \in [Findings -> [status : {"none", "open", "relevant", "not_relevant"},
                                 points : Severities \cup {0}]]
  <2>1. finding' = finding \/ \E f \in Findings, points \in Severities, status \in {"open"} :
                                 finding' = [finding EXCEPT ![f] = [status |-> status, points |-> points]]
    BY Zenon DEF RatingAside, ReviewYearPasses, ListingChanges, disposition_transaction_alert, FindingFiled
  <2> QED  BY <2>1 DEF RatingInv, RatingRowsOK
<1>6. openAlerts' \in 0..MaxAlerts
  <2>1. openAlerts' = openAlerts \/ (openAlerts > 0 /\ openAlerts' = openAlerts - 1)
    BY Zenon DEF RatingAside, ReviewYearPasses, ListingChanges, disposition_transaction_alert, FindingFiled
  <2> QED  BY <2>1, RatingAssumption DEF RatingInv, RatingRowsOK
<1>7. reviewYear' \in 0..MaxReviewYear /\ (reviewYear' # reviewYear => reviewYear' = reviewYear + 1)
  <2>1. reviewYear' = reviewYear \/ (reviewYear < MaxReviewYear /\ reviewYear' = reviewYear + 1)
    BY Zenon DEF RatingAside, ReviewYearPasses, ListingChanges, disposition_transaction_alert, FindingFiled
  <2> QED  BY <2>1, RatingAssumption DEF RatingInv, RatingRowsOK
<1>8. listed' \in BOOLEAN /\ reviewed' \in BOOLEAN
  BY DEF RatingAside, ReviewYearPasses, ListingChanges, disposition_transaction_alert, FindingFiled,
         RatingInv, RatingRowsOK
<1>9. RatingRowsOK'
  BY <1>1, <1>5, <1>6, <1>7, <1>8 DEF RatingInv, RatingRowsOK
<1> QED  BY <1>1, <1>2, <1>4, <1>7, <1>9 DEF RatingInv

LEMMA RatingStep ==
    ASSUME RatingInv, RatingNext
    PROVE  /\ RatingInv'
           /\ assessment.next <= reviewYear /\ assessment'.next > reviewYear => reviewed'
<1>1. ASSUME NEW s \in Slots, NEW q, RatingOK(q), ratings' = [ratings EXCEPT ![s] = q],
             q.carried \in {0, ratings[s].carried, assessment.next},
             RatingRowsOK', UNCHANGED <<assessment, reviewYear, reviewed>>
      PROVE  /\ RatingInv'
             /\ assessment.next <= reviewYear /\ assessment'.next > reviewYear => reviewed'
  <2>1. /\ RatingRequestsOK'
        /\ ratings'[s] = q /\ \A t \in Slots \ {s} : ratings'[t] = ratings[t]
    BY <1>1, RatingUpdate DEF RatingInv
  <2>2. DatesAgree'
    BY <1>1, <2>1 DEF RatingInv, DatesAgree
  <2>3. assessment.next \in Nat /\ reviewYear \in Nat
    BY DEF RatingInv, RatingRowsOK, Assessment
  <2> QED  BY <1>1, <2>1, <2>2, <2>3 DEF RatingInv
<1>2. ASSUME NEW s \in Slots, RatingRequest(s)
      PROVE  /\ RatingInv'
             /\ assessment.next <= reviewYear /\ assessment'.next > reviewYear => reviewed'
  BY <1>1, <1>2, EntersFields DEF RatingInv
<1>3. ASSUME NEW s \in Slots, RatingWorks(s)
      PROVE  /\ RatingInv'
             /\ assessment.next <= reviewYear /\ assessment'.next > reviewYear => reviewed'
  BY <1>1, <1>3, GoesOnFields DEF RatingInv, RatingWorks
<1>4. ASSUME NEW s \in Slots, save(s)
      PROVE  /\ RatingInv'
             /\ assessment.next <= reviewYear /\ assessment'.next > reviewYear => reviewed'
  <2>1. /\ RatingRowsOK' /\ (reviewed => reviewed')
        /\ reviewed' \/ (assessment'.next > reviewYear <=> assessment.next > reviewYear)
    BY <1>4, SaveFields DEF RatingInv
  <2>2. reviewYear' = reviewYear /\ ratings' = [ratings EXCEPT ![s] = After(s)]
    BY <1>4 DEF save
  <2>3. RatingOK(After(s)) /\ (After(s).carried = 0 \/ After(s).carried = ratings[s].carried)
    BY <1>4, AfterOK DEF save, RatingInv
  <2>4. /\ RatingRequestsOK'
        /\ ratings'[s] = After(s) /\ \A t \in Slots \ {s} : ratings'[t] = ratings[t]
    BY <2>2, <2>3, RatingUpdate DEF RatingInv
  <2>5. DatesAgree'
    BY <2>1, <2>2, <2>3, <2>4 DEF RatingInv, DatesAgree
  <2>6. assessment.next \in Nat /\ reviewYear \in Nat
    BY DEF RatingInv, RatingRowsOK, Assessment
  <2> QED  BY <2>1, <2>4, <2>5, <2>6 DEF RatingInv
<1>5. ASSUME RatingAside
      PROVE  /\ RatingInv'
             /\ assessment.next <= reviewYear /\ assessment'.next > reviewYear => reviewed'
  <2>1. assessment.next \in Nat /\ reviewYear \in Nat
    BY DEF RatingInv, RatingRowsOK, Assessment
  <2> QED  BY <1>5, <2>1, RatingAsideOK
<1> QED  BY <1>2, <1>3, <1>4, <1>5, Zenon DEF RatingNext, RatingWorks, RatingAside

LEMMA RatingStepOK == RatingInv /\ [RatingNext]_ratingVars => RatingInv'
<1>1. RatingInv /\ UNCHANGED ratingVars => RatingInv'
  BY DEF ratingVars, RatingInv, RatingRowsOK, RatingRequestsOK, RatingOK, StepsInOrder, DatesAgree
<1> QED  BY <1>1, RatingStep

\* However transactions, findings, corrections and reviews overlap and die, an overdue
\* review stops being overdue only when a review has saved its assessment: save()
\* carries over the date that the newest row held within the year.
THEOREM OverdueNeedsReviewCorrect == RatingSpec => OverdueNeedsReview
<1>1. RatingInv /\ [RatingNext]_ratingVars
         => [assessment.next <= reviewYear /\ assessment'.next > reviewYear => reviewed']_ratingVars
  BY RatingStep
<1> QED  BY <1>1, RatingInitOK, RatingStepOK, PTL DEF RatingSpec, OverdueNeedsReview

\* Types of the assessment and the rows that it is made from; a request saves a whole row.
THEOREM RatingTypeCorrect == RatingSpec => []RatingTypeOK
<1>1. RatingInv => RatingTypeOK
  BY DEF RatingInv, RatingRowsOK, RatingRequestsOK, RatingRequests, RatingTypeOK
<1> QED  BY <1>1, RatingInitOK, RatingStepOK, PTL DEF RatingSpec

-----------------------------------------------------------------------
\* The answer of an onboarding

\* The steps between the insert of the customer and the answer.
Answering == {"latin", "arabic", "owner", "screenOwner"}

\* What an onboarding that is under way can rely on: its customer is there and not yet
\* answered for, and each name that found nothing to search is among those it will name.
Fits(r, row) ==
    r.phase \in Answering =>
        /\ row.status # "absent" /\ row.answer # "done"
        /\ row.unsearched \subseteq r.unnamed
        /\ r.phase = "latin" => row.unsearched = {}
Complete(row) == row.answer = "done" => row.rating # "none" /\ row.unsearched = {}

OnboardingInv ==
    /\ client \in [Applicants -> Client]
    /\ onreq \in [Slots -> OnboardingRequest]
    /\ \A s \in Slots : onreq[s].phase # "idle" =>
           onreq[s].file \in Applicants /\ Fits(onreq[s], client[onreq[s].file])
    /\ \A s, t \in Slots :
           onreq[s].phase \in Answering /\ onreq[t].phase \in Answering
               /\ onreq[s].file = onreq[t].file => s = t
    /\ \A c \in Applicants : Complete(client[c])

LEMMA NoOnboardingOK ==
    NoOnboarding \in OnboardingRequest /\ NoOnboarding.phase = "idle" /\ NoOnboarding.unnamed = {}
<1>1. ASSUME NEW phase \in {"idle"}, NEW no \in BOOLEAN, NEW score \in {0}, NEW owners \in 0..MaxOwners
      PROVE  LET found == [searched |-> ~no, listed |-> no, score |-> score]
             IN  no = FALSE =>
                  [phase |-> phase, file |-> None, arabic |-> no, owners |-> owners, self |-> no,
                   kept |-> found, ownerListed |-> no, unnamed |-> {}] \in OnboardingRequest
  BY <1>1 DEF OnboardingRequest, Outcome
<1>2. 0 \in 0..MaxOwners
  BY OnboardingAssumption
<1>3. (~FALSE) = TRUE /\ FALSE \in BOOLEAN
  OBVIOUS
<1> QED  BY <1>1, <1>2, <1>3 DEF NoOnboarding, Clear

LEMMA NoClientOK == NoClient \in Client /\ NoClient.unsearched = {} /\ NoClient.answer = "none"
  BY DEF NoClient, Client

LEMMA OnboardingUpdate ==
    ASSUME OnboardingInv, NEW s \in Slots, NEW c \in Applicants,
           NEW q \in OnboardingRequest, NEW row \in Client,
           client' = [client EXCEPT ![c] = row], onreq' = [onreq EXCEPT ![s] = q],
           q.phase # "idle" => q.file = c,  Fits(q, row),  Complete(row),
           \/ onreq[s].phase \in Answering /\ onreq[s].file = c
           \/ ~Exists_(c)
           \/ /\ q.phase \notin Answering
              /\ row.status = "absent" => client[c].status = "absent"
              /\ row.answer = "done" => client[c].answer = "done"
              /\ row.unsearched = client[c].unsearched
    PROVE  OnboardingInv'
<1>1. client' \in [Applicants -> Client] /\ onreq' \in [Slots -> OnboardingRequest]
  BY DEF OnboardingInv
<1>2. /\ client'[c] = row /\ \A d \in Applicants \ {c} : client'[d] = client[d]
      /\ onreq'[s] = q /\ \A t \in Slots \ {s} : onreq'[t] = onreq[t]
  BY DEF OnboardingInv
<1>3. \A d \in Applicants : Complete(client'[d])
  BY <1>2 DEF OnboardingInv
<1>4. ASSUME NEW t \in Slots \ {s}, onreq[t].phase \in Answering, onreq[t].file = c
      PROVE  q.phase \notin Answering /\ Fits(onreq[t], row)
  <2>1. Exists_(c) /\ Fits(onreq[t], client[c])
    BY <1>4 DEF OnboardingInv, Fits, Exists_, Answering
  <2>2. ~(onreq[s].phase \in Answering /\ onreq[s].file = c)
    BY <1>4 DEF OnboardingInv
  <2> QED  BY <2>1, <2>2, <1>4 DEF Fits, Exists_
<1>5. ASSUME NEW t \in Slots, onreq'[t].phase # "idle"
      PROVE  onreq'[t].file \in Applicants /\ Fits(onreq'[t], client'[onreq'[t].file])
  <2>1. CASE t = s
    BY <1>2, <1>5, <2>1
  <2>2. CASE t # s
    <3>1. onreq'[t] = onreq[t] /\ onreq[t].file \in Applicants /\ Fits(onreq[t], client[onreq[t].file])
      BY <1>2, <1>5, <2>2 DEF OnboardingInv
    <3>2. CASE onreq[t].file = c
      BY <1>2, <1>4, <2>2, <3>1, <3>2 DEF Fits
    <3>3. CASE onreq[t].file # c
      BY <1>2, <3>1, <3>3
    <3> QED  BY <3>2, <3>3
  <2> QED  BY <2>1, <2>2
<1>6. ASSUME NEW t \in Slots, NEW u \in Slots, onreq'[t].phase \in Answering,
             onreq'[u].phase \in Answering, onreq'[t].file = onreq'[u].file
      PROVE  t = u
  <2>1. ASSUME NEW v \in Slots, v # s, onreq'[s].phase \in Answering, onreq'[v].phase \in Answering
        PROVE  onreq'[v].file # onreq'[s].file
    BY <1>2, <1>4, <2>1 DEF Answering
  <2>2. CASE t = s \/ u = s
    BY <1>6, <2>1, <2>2
  <2>3. CASE t # s /\ u # s
    BY <1>2, <1>6, <2>3 DEF OnboardingInv
  <2> QED  BY <2>2, <2>3
<1> QED  BY <1>1, <1>3, <1>5, <1>6 DEF OnboardingInv, Complete, Fits

\* A screening of an onboarding, that leads to request q.
LEMMA ScreeningOK ==
    ASSUME OnboardingInv, NEW s \in Slots, NEW name \in Names, NEW found \in Outcome,
           onreq[s].phase \in Answering, Screened(onreq[s].file, name, found),
           NEW q \in OnboardingRequest, q.phase \in {"arabic", "owner"}, q.file = onreq[s].file,
           client[q.file].unsearched \cup Unsearched(name, found) \subseteq q.unnamed,
           onreq' = [onreq EXCEPT ![s] = q]
    PROVE  OnboardingInv'
<1> DEFINE c == onreq[s].file
           listed_ == client[c].listed \/ found.listed
           unsearched == client[c].unsearched \cup Unsearched(name, found)
           row == [client[c] EXCEPT !.listed = listed_, !.unsearched = unsearched]
<1>1. /\ c \in Applicants /\ client[c] \in Client /\ client \in [Applicants -> Client]
      /\ client[c].status # "absent" /\ client[c].answer # "done"
  BY DEF OnboardingInv, Fits, Answering
<1>2. listed_ \in BOOLEAN /\ unsearched \in SUBSET Names
  BY <1>1 DEF Client, Outcome, Unsearched, Names
<1>3. client' = [client EXCEPT ![c].listed = listed_, ![c].unsearched = unsearched]
  BY DEF Screened
<1>4. unsearched \subseteq q.unnamed /\ q.file = c
  OBVIOUS
<1>5. onreq[s].phase \in Answering /\ onreq[s].file = c
  OBVIOUS
<1> HIDE DEF listed_, unsearched, c
<1>6. client' = [client EXCEPT ![c] = row]
  BY <1>1, <1>3
<1>7. row \in Client /\ row.status = client[c].status /\ row.answer = client[c].answer
      /\ row.unsearched = unsearched
  BY <1>1, <1>2 DEF Client
<1> HIDE DEF row
<1>8. Fits(q, row) /\ Complete(row)
  BY <1>1, <1>4, <1>7 DEF Fits, Complete
<1> QED  BY <1>1, <1>4, <1>5, <1>6, <1>7, <1>8, OnboardingUpdate

\* One action of a request after the other.
LEMMA OnboardingKept ==
    ASSUME OnboardingInv, NEW s \in Slots, NEW c \in Applicants,
           NEW q \in OnboardingRequest, q.phase \notin Answering, q.phase # "idle" => q.file = c,
           onreq' = [onreq EXCEPT ![s] = q],
           NEW row \in Client, client' = [client EXCEPT ![c] = row],
           row.status = "absent" => client[c].status = "absent",
           row.answer = client[c].answer, row.rating = client[c].rating,
           row.unsearched = client[c].unsearched
    PROVE  OnboardingInv'
<1>1. Fits(q, row) /\ Complete(row)
  BY DEF Fits, Complete, OnboardingInv
<1> QED  BY <1>1, OnboardingUpdate

\* A request that begins or ends and leaves the customer alone.
LEMMA OnboardingTurns ==
    ASSUME OnboardingInv, NEW s \in Slots, NEW c \in Applicants,
           NEW q \in OnboardingRequest, q.phase \notin Answering, q.phase # "idle" => q.file = c,
           onreq' = [onreq EXCEPT ![s] = q], client' = client
    PROVE  OnboardingInv'
<1>1. client[c] \in Client /\ client' = [client EXCEPT ![c] = client[c]]
  BY DEF OnboardingInv
<1> QED  BY <1>1, OnboardingKept

LEMMA OnboardingBegins ==
    ASSUME OnboardingInv, NEW s \in Slots, NEW c \in Applicants,
           \/ AddOwnerLater(s, c) \/ ReopenCheck(s, c)
           \/ \E arabic, self \in BOOLEAN, owners \in 0..MaxOwners :
                 OnboardCheck(s, c, arabic, owners, self)
    PROVE  OnboardingInv'
<1>1. ASSUME NEW phase \in {"insert", "screenLater", "reopen"}, NEW arabic \in BOOLEAN,
             NEW self \in BOOLEAN, NEW owners \in 0..MaxOwners, client' = client,
             GoTo(s, [NoOnboarding EXCEPT !.phase = phase, !.file = c, !.arabic = arabic,
                                          !.owners = owners, !.self = self])
      PROVE  OnboardingInv'
  <2> DEFINE q == [NoOnboarding EXCEPT !.phase = phase, !.file = c, !.arabic = arabic,
                                       !.owners = owners, !.self = self]
  <2>1. q \in OnboardingRequest /\ q.phase = phase /\ q.file = c
    BY NoOnboardingOK DEF OnboardingRequest
  <2>2. onreq' = [onreq EXCEPT ![s] = q]
    BY <1>1 DEF GoTo
  <2> HIDE DEF q
  <2>3. q.phase \notin Answering
    BY <2>1 DEF Answering
  <2> QED  BY <1>1, <2>1, <2>2, <2>3, OnboardingTurns
<1>2. ASSUME NEW phase \in {"screenLater", "reopen"}, client' = client,
             GoTo(s, [NoOnboarding EXCEPT !.phase = phase, !.file = c])
      PROVE  OnboardingInv'
  <2>1. NoOnboarding.arabic \in BOOLEAN /\ NoOnboarding.self \in BOOLEAN
        /\ NoOnboarding.owners \in 0..MaxOwners
    BY NoOnboardingOK DEF OnboardingRequest
  <2>2. [NoOnboarding EXCEPT !.phase = phase, !.file = c]
          = [NoOnboarding EXCEPT !.phase = phase, !.file = c, !.arabic = NoOnboarding.arabic,
                                 !.owners = NoOnboarding.owners, !.self = NoOnboarding.self]
    BY NoOnboardingOK DEF OnboardingRequest
  <2> QED  BY <1>1, <1>2, <2>1, <2>2
<1>3. ASSUME AddOwnerLater(s, c)  PROVE OnboardingInv'
  BY <1>2, <1>3, Zenon DEF AddOwnerLater
<1>4. ASSUME ReopenCheck(s, c)  PROVE OnboardingInv'
  BY <1>2, <1>4, Zenon DEF ReopenCheck
<1>5. ASSUME NEW arabic \in BOOLEAN, NEW self \in BOOLEAN, NEW owners \in 0..MaxOwners,
             OnboardCheck(s, c, arabic, owners, self)
      PROVE  OnboardingInv'
  BY <1>1, <1>5, Zenon DEF OnboardCheck
<1> QED  BY <1>3, <1>4, <1>5, Zenon

LEMMA OnboardingScreens ==
    ASSUME OnboardingInv, NEW s \in Slots, NEW found \in Outcome,
           ScreenLatin(s, found) \/ ScreenArabic(s, found) \/ ScreenOwner(s, found)
    PROVE  OnboardingInv'
<1> DEFINE r == onreq[s]
           more(name) == r.unnamed \cup Unscreenable(name, found)
<1>1. r \in OnboardingRequest /\ r.phase \in Answering
  BY DEF OnboardingInv, ScreenLatin, ScreenArabic, ScreenOwner, Answering
<1>2. Fits(r, client[r.file])
  BY <1>1 DEF OnboardingInv, Answering
<1>3. ASSUME NEW name \in Names
      PROVE  /\ Unscreenable(name, found) = Unsearched(name, found)
             /\ Unscreenable(name, found) \in SUBSET Names /\ more(name) \in SUBSET Names
             /\ client[r.file].unsearched \cup Unsearched(name, found) \subseteq more(name)
  BY <1>1, <1>2 DEF Unscreenable, Unsearched, Names, OnboardingRequest, Fits
<1>4. ASSUME ScreenLatin(s, found)  PROVE OnboardingInv'
  <2> DEFINE phase == IF r.arabic THEN "arabic" ELSE "owner"
             unnamed == Unscreenable("latin", found)
             q == [r EXCEPT !.phase = phase, !.kept = found, !.unnamed = unnamed]
  <2>1. "latin" \in Names /\ phase \in {"arabic", "owner"}
    BY DEF Names
  <2>2. unnamed \in SUBSET Names /\ client[r.file].unsearched \cup Unsearched("latin", found) \subseteq unnamed
    <3>1. r.phase = "latin"
      BY <1>4 DEF ScreenLatin
    <3>2. client[r.file].unsearched = {}
      BY <1>1, <1>2, <3>1 DEF Fits
    <3> QED  BY <1>3, <2>1, <3>2
  <2>3. /\ Screened(r.file, "latin", found)
        /\ onreq' = [onreq EXCEPT ![s].phase = phase, ![s].kept = found, ![s].unnamed = unnamed]
    BY <1>4 DEF ScreenLatin
  <2> HIDE DEF phase, unnamed
  <2>4. /\ q \in OnboardingRequest /\ q.phase = phase /\ q.file = r.file /\ q.unnamed = unnamed
    BY <1>1, <2>1, <2>2 DEF OnboardingRequest
  <2>5. onreq' = [onreq EXCEPT ![s] = q]
    BY <2>3 DEF OnboardingInv
  <2> HIDE DEF q
  <2> QED  BY <1>1, <2>1, <2>2, <2>3, <2>4, <2>5, ScreeningOK
<1>5. ASSUME ScreenArabic(s, found)  PROVE OnboardingInv'
  <2> DEFINE phase == "owner"
             kept == IF found.score > r.kept.score THEN found ELSE r.kept
             unnamed == more("arabic")
             q == [r EXCEPT !.phase = phase, !.kept = kept, !.unnamed = unnamed]
  <2>1. "arabic" \in Names /\ phase \in {"arabic", "owner"} /\ kept \in Outcome
    BY <1>1 DEF Names, OnboardingRequest
  <2>2. unnamed \in SUBSET Names /\ client[r.file].unsearched \cup Unsearched("arabic", found) \subseteq unnamed
    BY <1>3, <2>1
  <2>3. /\ Screened(r.file, "arabic", found)
        /\ onreq' = [onreq EXCEPT ![s].phase = phase, ![s].kept = kept, ![s].unnamed = unnamed]
    BY <1>5 DEF ScreenArabic
  <2> HIDE DEF phase, kept, unnamed
  <2>4. /\ q \in OnboardingRequest /\ q.phase = phase /\ q.file = r.file /\ q.unnamed = unnamed
    BY <1>1, <2>1, <2>2 DEF OnboardingRequest
  <2>5. onreq' = [onreq EXCEPT ![s] = q]
    BY <2>3 DEF OnboardingInv
  <2> HIDE DEF q
  <2> QED  BY <1>1, <2>1, <2>2, <2>3, <2>4, <2>5, ScreeningOK
<1>6. ASSUME ScreenOwner(s, found)  PROVE OnboardingInv'
  <2> DEFINE phase == "owner"
             listed_ == r.ownerListed \/ found.listed
             unnamed == more("owner")
             q == [r EXCEPT !.phase = phase, !.unnamed = unnamed, !.ownerListed = listed_]
  <2>1. "owner" \in Names /\ phase \in {"arabic", "owner"} /\ listed_ \in BOOLEAN
    BY <1>1 DEF Names, OnboardingRequest
  <2>2. unnamed \in SUBSET Names /\ client[r.file].unsearched \cup Unsearched("owner", found) \subseteq unnamed
    BY <1>3, <2>1
  <2>3. /\ Screened(r.file, "owner", found)
        /\ onreq' = [onreq EXCEPT ![s].phase = phase, ![s].unnamed = unnamed, ![s].ownerListed = listed_]
    BY <1>6 DEF ScreenOwner
  <2> HIDE DEF phase, listed_, unnamed
  <2>4. /\ q \in OnboardingRequest /\ q.phase = phase /\ q.file = r.file /\ q.unnamed = unnamed
    BY <1>1, <2>1, <2>2 DEF OnboardingRequest
  <2>5. onreq' = [onreq EXCEPT ![s] = q]
    BY <2>3 DEF OnboardingInv
  <2> HIDE DEF q
  <2> QED  BY <1>1, <2>1, <2>2, <2>3, <2>4, <2>5, ScreeningOK
<1> QED  BY <1>4, <1>5, <1>6

LEMMA OnboardingWorks ==
    ASSUME OnboardingInv, NEW s \in Slots,
           \/ OnboardInsert(s) \/ OnboardOwner(s) \/ Reopen(s) \/ OnboardingDies(s)
           \/ \E found \in Outcome : ScreenLater(s, found)
           \/ \E others \in {"normal", "high"} : OnboardRate(s, others)
    PROVE  OnboardingInv'
<1> DEFINE r == onreq[s]
           c == r.file
<1>1. /\ r \in OnboardingRequest /\ r.phase # "idle" /\ c \in Applicants
      /\ client[c] \in Client /\ client \in [Applicants -> Client]
      /\ Fits(r, client[c]) /\ Complete(client[c])
  BY DEF OnboardingInv, OnboardInsert, OnboardOwner, Reopen, OnboardingDies, ScreenLater, OnboardRate
<1>2. /\ NoOnboarding \in OnboardingRequest /\ NoOnboarding.phase = "idle"
      /\ NoOnboarding.phase \notin Answering
  BY NoOnboardingOK DEF Answering
<1>3. ASSUME Finish(s), client' = client  PROVE OnboardingInv'
  BY <1>1, <1>2, <1>3, OnboardingTurns DEF Finish, GoTo
<1>4. ASSUME OnboardInsert(s), ~Exists_(c)  PROVE OnboardingInv'
  <2> DEFINE row == [NoClient EXCEPT !.status = "active"]
             phase == "latin"
             q == [r EXCEPT !.phase = phase]
  <2>1. client' = [client EXCEPT ![c] = row] /\ onreq' = [onreq EXCEPT ![s].phase = phase]
    BY <1>4 DEF OnboardInsert
  <2>2. row \in Client /\ row.unsearched = {} /\ row.answer = "none" /\ row.status = "active"
    BY NoClientOK DEF Client
  <2>3. phase \in {"latin"}
    OBVIOUS
  <2> HIDE DEF row, phase
  <2>4. q \in OnboardingRequest /\ q.phase = phase /\ q.file = c /\ q.unnamed = r.unnamed
    BY <1>1, <2>3 DEF OnboardingRequest
  <2>5. onreq' = [onreq EXCEPT ![s] = q]
    BY <2>1 DEF OnboardingInv
  <2> HIDE DEF q
  <2>6. Fits(q, row) /\ Complete(row)
    BY <2>2, <2>4 DEF Fits, Complete
  <2> QED  BY <1>1, <1>4, <2>1, <2>2, <2>4, <2>5, <2>6, OnboardingUpdate
<1>5. ASSUME OnboardInsert(s)  PROVE OnboardingInv'
  <2>1. Exists_(c) => Finish(s) /\ client' = client
    BY <1>5 DEF OnboardInsert
  <2> QED  BY <1>3, <1>4, <1>5, <2>1
<1>6. ASSUME OnboardOwner(s)  PROVE OnboardingInv'
  <2>1. r.phase = "owner" /\ r.phase \in Answering /\ r.owners > 0
    BY <1>6 DEF OnboardOwner, Answering
  <2>2. CASE r.self
    <3> DEFINE answer == "refused"
               row == [client[c] EXCEPT !.answer = answer]
    <3>1. client' = [client EXCEPT ![c].answer = answer] /\ onreq' = [onreq EXCEPT ![s] = NoOnboarding]
      BY <1>6, <2>2 DEF OnboardOwner, Finish, GoTo
    <3>2. answer \in {"refused"}
      OBVIOUS
    <3> HIDE DEF answer
    <3>3. client' = [client EXCEPT ![c] = row]
      BY <1>1, <3>1
    <3>4. row \in Client /\ row.answer = answer
      BY <1>1, <3>2 DEF Client
    <3> HIDE DEF row
    <3>5. Fits(NoOnboarding, row) /\ Complete(row)
      BY <1>2, <3>2, <3>4 DEF Fits, Complete
    <3> QED  BY <1>1, <1>2, <2>1, <3>1, <3>3, <3>4, <3>5, OnboardingUpdate
  <2>3. CASE ~r.self
    <3> DEFINE phase == "screenOwner"
               owners == r.owners - 1
               q == [r EXCEPT !.phase = phase, !.owners = owners]
    <3>1. client' = client /\ onreq' = [onreq EXCEPT ![s].phase = phase, ![s].owners = owners]
      BY <1>6, <2>3 DEF OnboardOwner
    <3>2. phase \in {"screenOwner"} /\ owners \in 0..MaxOwners
      BY <1>1, <2>1, OnboardingAssumption DEF OnboardingRequest
    <3> HIDE DEF phase, owners
    <3>3. q \in OnboardingRequest /\ q.phase = phase /\ q.file = c /\ q.unnamed = r.unnamed
      BY <1>1, <3>2 DEF OnboardingRequest
    <3>4. onreq' = [onreq EXCEPT ![s] = q] /\ client' = [client EXCEPT ![c] = client[c]]
      BY <1>1, <3>1 DEF OnboardingInv
    <3> HIDE DEF q
    <3>5. Fits(q, client[c])
      BY <1>1, <2>1, <3>2, <3>3 DEF Fits
    <3> QED  BY <1>1, <2>1, <3>3, <3>4, <3>5, OnboardingUpdate
  <2> QED  BY <2>2, <2>3
<1>7. ASSUME NEW others \in {"normal", "high"}, OnboardRate(s, others)  PROVE OnboardingInv'
  <2> DEFINE rating == IF r.kept.listed \/ r.ownerListed THEN "high" ELSE others
             answer == "done"
             unsearched == client[c].unsearched \ r.unnamed
             row == [client[c] EXCEPT !.rating = rating, !.answer = answer, !.unsearched = unsearched]
  <2>1. /\ r.phase = "owner" /\ onreq' = [onreq EXCEPT ![s] = NoOnboarding]
        /\ client' = [client EXCEPT ![c].rating = rating, ![c].answer = answer, ![c].unsearched = unsearched]
    BY <1>7 DEF OnboardRate, Finish, GoTo
  <2>2. r.phase \in Answering
    BY <2>1 DEF Answering
  <2>3. rating \in {"normal", "high"} /\ answer \in {"done"} /\ unsearched = {}
    BY <1>1, <2>2 DEF Fits
  <2> HIDE DEF rating, answer, unsearched
  <2>4. client' = [client EXCEPT ![c] = row]
    BY <1>1, <2>1
  <2>5. row \in Client /\ row.rating = rating /\ row.unsearched = unsearched
    BY <1>1, <2>3 DEF Client
  <2> HIDE DEF row
  <2>6. Fits(NoOnboarding, row) /\ Complete(row)
    BY <1>2, <2>3, <2>5 DEF Fits, Complete
  <2> QED  BY <1>1, <1>2, <2>1, <2>2, <2>4, <2>5, <2>6, OnboardingUpdate
<1>8. ASSUME NEW found \in Outcome, ScreenLater(s, found)  PROVE OnboardingInv'
  <2>1. client' = [client EXCEPT ![c].unsearched = client[c].unsearched] /\ Finish(s)
    BY <1>8 DEF ScreenLater, Unscreenable
  <2>2. client' = client
    BY <1>1, <2>1 DEF Client
  <2> QED  BY <1>3, <2>1, <2>2
<1>9. ASSUME Reopen(s)  PROVE OnboardingInv'
  <2> DEFINE status == "active"
             row == [client[c] EXCEPT !.status = status]
  <2>1. client' = [client EXCEPT ![c].status = status] /\ onreq' = [onreq EXCEPT ![s] = NoOnboarding]
    BY <1>9 DEF Reopen, Finish, GoTo
  <2>2. status \in {"active"}
    OBVIOUS
  <2> HIDE DEF status
  <2>3. client' = [client EXCEPT ![c] = row]
    BY <1>1, <2>1
  <2>4. row \in Client /\ row.status = status /\ row.answer = client[c].answer
        /\ row.rating = client[c].rating /\ row.unsearched = client[c].unsearched
    BY <1>1, <2>2 DEF Client
  <2> HIDE DEF row
  <2>5. row.status # "absent"
    BY <2>2, <2>4
  <2> QED  BY <1>1, <1>2, <2>1, <2>3, <2>4, <2>5, OnboardingKept
<1>10. ASSUME OnboardingDies(s)  PROVE OnboardingInv'
  BY <1>3, <1>10 DEF OnboardingDies
<1> QED  BY <1>5, <1>6, <1>7, <1>8, <1>9, <1>10, Zenon

LEMMA CloseFileOK ==
    ASSUME OnboardingInv, NEW c \in Applicants, CloseFile(c)
    PROVE  OnboardingInv'
<1> DEFINE status == "closed"
           row == [client[c] EXCEPT !.status = status]
<1>1. PICK s \in Slots : onreq[s].phase = "idle"
  BY DEF CloseFile, Idle
<1>2. client' = [client EXCEPT ![c].status = status] /\ onreq' = onreq
  BY DEF CloseFile
<1>3. status \in {"closed"} /\ client[c] \in Client /\ client \in [Applicants -> Client]
      /\ onreq[s] \in OnboardingRequest /\ onreq' = [onreq EXCEPT ![s] = onreq[s]]
      /\ onreq[s].phase \notin Answering
  BY <1>1, <1>2 DEF OnboardingInv, Answering
<1> HIDE DEF status
<1>4. client' = [client EXCEPT ![c] = row]
  BY <1>2, <1>3
<1>5. row \in Client /\ row.status = status /\ row.answer = client[c].answer
      /\ row.rating = client[c].rating /\ row.unsearched = client[c].unsearched
  BY <1>3 DEF Client
<1> HIDE DEF row
<1>6. row.status # "absent"
  BY <1>3, <1>5
<1> QED  BY <1>1, <1>3, <1>4, <1>5, <1>6, OnboardingKept

LEMMA OnboardingInitOK == OnboardingInit => OnboardingInv
<1> SUFFICES ASSUME OnboardingInit  PROVE OnboardingInv
  OBVIOUS
<1>1. client \in [Applicants -> Client] /\ onreq \in [Slots -> OnboardingRequest]
  BY NoClientOK, NoOnboardingOK DEF OnboardingInit
<1>2. \A s \in Slots : onreq[s].phase = "idle" /\ onreq[s].phase \notin Answering
  BY NoOnboardingOK DEF OnboardingInit, Answering
<1>3. \A c \in Applicants : Complete(client[c])
  BY NoClientOK DEF OnboardingInit, Complete
<1> QED  BY <1>1, <1>2, <1>3 DEF OnboardingInv

LEMMA OnboardingStepOK == OnboardingInv /\ [OnboardingNext]_onboardingVars => OnboardingInv'
<1> SUFFICES ASSUME OnboardingInv, [OnboardingNext]_onboardingVars  PROVE OnboardingInv'
  OBVIOUS
<1>1. ASSUME client' = client, onreq' = onreq  PROVE OnboardingInv'
  BY <1>1 DEF OnboardingInv, Fits, Complete
<1>2. ASSUME NEW s \in Slots, OnboardingStep(s)  PROVE OnboardingInv'
  BY <1>2, OnboardingBegins, OnboardingScreens, OnboardingWorks, Zenon DEF OnboardingStep
<1>3. ASSUME PlanChanges \/ UNCHANGED onboardingVars  PROVE OnboardingInv'
  BY <1>1, <1>3 DEF PlanChanges, onboardingVars
<1> QED  BY <1>2, <1>3, CloseFileOK, Zenon DEF OnboardingNext

\* However onboardings, later owners, closings and reactivations overlap and die, the
\* answer "done" is given with a rating and names every name that was not searched: the
\* insert gives the customer to one request, that collects what its screenings return.
THEOREM DoneIsCompleteCorrect == OnboardingSpec => []DoneIsComplete
<1>1. OnboardingInv => DoneIsComplete
  BY DEF OnboardingInv, DoneIsComplete, Complete
<1> QED  BY <1>1, OnboardingInitOK, OnboardingStepOK, PTL DEF OnboardingSpec

\* Types of the customers, the plan and the requests.
THEOREM OnboardingTypeCorrect == OnboardingSpec => []OnboardingTypeOK
<1> DEFINE PlanOK == subscription \in Subscription
<1>1. OnboardingInit => PlanOK
  BY DEF OnboardingInit
<1>2. PlanOK /\ [OnboardingNext]_onboardingVars => PlanOK'
  <2>1. ASSUME NEW s \in Slots, OnboardingStep(s)  PROVE subscription' = subscription
    <3>1. \A c \in Applicants :
              /\ AddOwnerLater(s, c) \/ ReopenCheck(s, c) => subscription' = subscription
              /\ \A arabic, self \in BOOLEAN, owners \in 0..MaxOwners :
                     OnboardCheck(s, c, arabic, owners, self) => subscription' = subscription
      BY DEF AddOwnerLater, ReopenCheck, OnboardCheck
    <3>2. OnboardInsert(s) \/ OnboardOwner(s) \/ Reopen(s) \/ OnboardingDies(s)
              => subscription' = subscription
      BY DEF OnboardInsert, OnboardOwner, Reopen, OnboardingDies
    <3>4. \A others \in {"normal", "high"} : OnboardRate(s, others) => subscription' = subscription
      BY DEF OnboardRate
    <3>3. \A found \in Outcome :
              ScreenLatin(s, found) \/ ScreenArabic(s, found) \/ ScreenOwner(s, found) \/ ScreenLater(s, found)
                  => subscription' = subscription
      BY DEF ScreenLatin, ScreenArabic, ScreenOwner, ScreenLater
    <3> QED  BY <2>1, <3>1, <3>2, <3>3, <3>4, Zenon DEF OnboardingStep
  <2>2. ASSUME NEW c \in Applicants, CloseFile(c)  PROVE subscription' = subscription
    BY <2>2 DEF CloseFile
  <2>3. PlanChanges => PlanOK'
    BY DEF PlanChanges
  <2> QED  BY <2>1, <2>2, <2>3 DEF OnboardingNext, onboardingVars
<1>3. OnboardingInv /\ PlanOK => OnboardingTypeOK
  BY DEF OnboardingInv, OnboardingTypeOK
<1> QED  BY <1>1, <1>2, <1>3, OnboardingInitOK, OnboardingStepOK, PTL DEF OnboardingSpec

-------------------------------------------------------------------------------
\* The names of colleagues

AnyName == Spellings \cup {Nobody.name}
MemberRow == [firm : Firms \cup {None}, name : AnyName, role : {"officer", "mlro"},
              active : BOOLEAN, super_admin : BOOLEAN]
OrgRequest == [phase : {"idle", "register", "setup", "create", "rename", "deactivate", "reactivate"},
               firm : Firms \cup {None}, email : Mailboxes \cup {None}, name : AnyName,
               role : {"officer", "mlro"}, paid : BOOLEAN]

\* Nobody of firm f but x has a name, in rows m, that reads like n.
NameFree(m, f, n, x) ==
    \A e \in Mailboxes \ {x} :
        m[e].firm = f => operator_name_lookalike_key(m[e].name) # operator_name_lookalike_key(n)
NoTwins(m) == \A e \in Mailboxes : m[e].firm # None => NameFree(m, m[e].firm, m[e].name, e)

\* What a request that has passed its check relies on.
Passed(r, m, firms) ==
    /\ r.phase # "idle" => r.email \in Mailboxes
    /\ r.phase \in {"register", "setup", "create"} => r.firm \in Firms
    /\ r.phase \in {"setup", "create"} => firms[r.firm] # "absent" /\ NameFree(m, r.firm, r.name, None)
    /\ r.phase = "rename" => /\ m[r.email].firm # None
                             /\ NameFree(m, m[r.email].firm, r.name, r.email)

FirmsOK(firms, links, m) ==
    /\ firms \in [Firms -> Firm] /\ links \subseteq Firms
    /\ \A f \in links : firms[f] # "absent"
    /\ m \in [Mailboxes -> MemberRow]
    /\ \A e \in Mailboxes : m[e].firm # None => firms[m[e].firm] # "absent"

OrganisationInv ==
    /\ FirmsOK(firm, setupLink, member)
    /\ orgreq \in [Slots -> OrgRequest]
    /\ NoTwins(member)
    /\ \A s \in Slots : Passed(orgreq[s], member, firm)

LEMMA NoOrganisationRequestOK ==
    /\ NoOrganisationRequest \in OrgRequest
    /\ NoOrganisationRequest.phase = "idle"
<1>1. ASSUME NEW phase \in {"idle"}, NEW role \in {"officer"}, NEW paid \in BOOLEAN
      PROVE  [phase |-> phase, firm |-> None, email |-> None, name |-> Nobody.name,
              role |-> role, paid |-> paid] \in OrgRequest
  BY DEF OrgRequest, AnyName
<1>2. NoOrganisationRequest.phase = "idle"
  BY DEF NoOrganisationRequest
<1>3. TRUE \in BOOLEAN
  OBVIOUS
<1> QED  BY <1>1, <1>2, <1>3, Zenon DEF NoOrganisationRequest

LEMMA NobodyOK == Nobody \in MemberRow /\ Nobody.firm = None
<1>1. ASSUME NEW role \in {"officer"}, NEW no \in BOOLEAN, NEW name, name = Nobody.name
      PROVE  [firm |-> None, name |-> name, role |-> role, active |-> no, super_admin |-> no] \in MemberRow
  BY <1>1 DEF MemberRow, AnyName
<1>2. Nobody.firm = None /\ Nobody.name = CHOOSE n \in Spellings : TRUE
  BY DEF Nobody
<1>3. FALSE \in BOOLEAN
  OBVIOUS
<1> QED  BY <1>1, <1>2, <1>3, Zenon DEF Nobody

\* A request that has asked relies on what its check found.
LEMMA Asked ==
    ASSUME OrganisationInv, NEW s \in Slots, NEW r \in OrgRequest, Passed(r, member, firm), Ask(s, r)
    PROVE  OrganisationInv'
<1>1. orgreq' = [orgreq EXCEPT ![s] = r] /\ UNCHANGED <<firm, setupLink, member>>
  BY DEF Ask
<1>2. orgreq' \in [Slots -> OrgRequest] /\ orgreq'[s] = r /\ \A t \in Slots \ {s} : orgreq'[t] = orgreq[t]
  BY <1>1 DEF OrganisationInv
<1>3. FirmsOK(firm, setupLink, member)' /\ NoTwins(member)'
  BY <1>1 DEF OrganisationInv, FirmsOK, NoTwins, NameFree
<1>4. ASSUME NEW t \in Slots  PROVE Passed(orgreq[t], member, firm)'
  <2>1. Passed(orgreq'[t], member, firm)
    BY <1>2 DEF OrganisationInv
  <2> QED  BY <1>1, <2>1 DEF Passed, NameFree
<1> QED  BY <1>2, <1>3, <1>4 DEF OrganisationInv

\* When the one request in flight is answered, only firms and rows matter.
LEMMA AnsweredOK ==
    ASSUME OneRequest, OrganisationInv, NEW s \in Slots, Answered(s),
           FirmsOK(firm', setupLink', member'), NoTwins(member')
    PROVE  OrganisationInv'
<1>1. orgreq' = [orgreq EXCEPT ![s] = NoOrganisationRequest]
  BY DEF Answered
<1>2. orgreq' \in [Slots -> OrgRequest] /\ \A t \in Slots : orgreq'[t] = NoOrganisationRequest
  BY <1>1, NoOrganisationRequestOK DEF OrganisationInv, OneRequest
<1>3. \A t \in Slots : Passed(orgreq'[t], member', firm')
  BY <1>2, NoOrganisationRequestOK DEF Passed
<1> QED  BY <1>2, <1>3 DEF OrganisationInv, FirmsOK, NoTwins, NameFree, Passed

\* No name and no firm of an operator changes.
SameNames(m, new) == \A e \in Mailboxes : new[e].firm = m[e].firm /\ new[e].name = m[e].name

LEMMA NamesKept ==
    ASSUME NEW m, NEW new, NoTwins(m), SameNames(m, new)
    PROVE  NoTwins(new)
  BY DEF NoTwins, NameFree, SameNames

\* The new colleague's name is read from the rows.
LEMMA NotTaken ==
    ASSUME NEW f, NEW n, NEW x, ~operator_name_taken(f, n, x)
    PROVE  NameFree(member, f, n, x)
  BY DEF operator_name_taken, NameFree, Of

LEMMA OrganisationAsks ==
    ASSUME OrganisationInv, NEW s \in Slots,
           \/ \E e \in Mailboxes, n \in Spellings, f \in Firms :
                 \/ SetupCheck(s, f, e, n)
                 \/ \E paid \in BOOLEAN : RegisterCheck(s, f, e, n, paid)
                 \/ \E role \in {"officer", "mlro"} : ProvisionCheck(s, f, e, n, role)
           \/ \E by, e \in Mailboxes :
                 \/ ReactivateCheck(s, by, e)
                 \/ \E app \in BOOLEAN : DeactivateCheck(s, by, e, app)
                 \/ \E n \in Spellings : \/ RenameCheck(s, by, e, n)
                                         \/ \E role \in {"officer", "mlro"} : CreateCheck(s, by, e, n, role)
    PROVE  OrganisationInv'
<1> DEFINE Request(phase, f, e, n, role, paid) ==
               [NoOrganisationRequest EXCEPT !.phase = phase, !.firm = f, !.email = e, !.name = n,
                                             !.role = role, !.paid = paid]
<1>1. ASSUME NEW phase \in {"setup", "create", "register"}, NEW f \in Firms, NEW e \in Mailboxes,
             NEW n \in Spellings, NEW role \in {"officer", "mlro"}, NEW paid \in BOOLEAN,
             phase # "register" => firm[f] # "absent" /\ NameFree(member, f, n, None),
             Ask(s, Request(phase, f, e, n, role, paid))
      PROVE  OrganisationInv'
  <2> DEFINE r == Request(phase, f, e, n, role, paid)
  <2>1. r \in OrgRequest /\ r.phase = phase /\ r.firm = f /\ r.email = e /\ r.name = n
    BY NoOrganisationRequestOK DEF OrgRequest, AnyName
  <2> HIDE DEF r
  <2>2. Passed(r, member, firm)
    BY <1>1, <2>1 DEF Passed
  <2> QED  BY <1>1, <2>1, <2>2, Asked DEF r
<1>2. ASSUME NEW phase \in {"rename", "deactivate", "reactivate"}, NEW e \in Mailboxes,
             NEW n \in AnyName,
             phase = "rename" => member[e].firm # None /\ NameFree(member, member[e].firm, n, e),
             Ask(s, [NoOrganisationRequest EXCEPT !.phase = phase, !.email = e, !.name = n])
      PROVE  OrganisationInv'
  <2> DEFINE r == [NoOrganisationRequest EXCEPT !.phase = phase, !.email = e, !.name = n]
  <2>1. r \in OrgRequest /\ r.phase = phase /\ r.email = e /\ r.name = n
    BY NoOrganisationRequestOK DEF OrgRequest
  <2> HIDE DEF r
  <2>2. Passed(r, member, firm)
    BY <1>2, <2>1 DEF Passed
  <2> QED  BY <1>2, <2>1, <2>2, Asked DEF r
<1>3. /\ NoOrganisationRequest \in OrgRequest /\ NoOrganisationRequest.paid \in BOOLEAN
      /\ NoOrganisationRequest.name \in AnyName
  BY NoOrganisationRequestOK DEF OrgRequest
<1>4. FirmsOK(firm, setupLink, member)
  BY DEF OrganisationInv
<1>5. ASSUME NEW e \in Mailboxes, NEW n \in Spellings, NEW f \in Firms, SetupCheck(s, f, e, n)
      PROVE  OrganisationInv'
  <2> DEFINE role == "mlro"  paid == NoOrganisationRequest.paid
  <2>1. Ask(s, [NoOrganisationRequest EXCEPT !.phase = "setup", !.firm = f, !.email = e,
                                             !.name = n, !.role = role])
        /\ f \in setupLink /\ NameFree(member, f, n, None)
    BY <1>5, NotTaken DEF SetupCheck
  <2>2. role \in {"officer", "mlro"} /\ paid \in BOOLEAN /\ paid = NoOrganisationRequest.paid
    BY <1>3
  <2> HIDE DEF role, paid
  <2>3. Ask(s, Request("setup", f, e, n, role, paid))
    BY <1>3, <2>1, <2>2 DEF OrgRequest
  <2>4. firm[f] # "absent"
    BY <1>4, <2>1 DEF FirmsOK
  <2> QED  BY <1>1, <2>1, <2>2, <2>3, <2>4
<1>6. ASSUME NEW e \in Mailboxes, NEW n \in Spellings, NEW f \in Firms, NEW paid \in BOOLEAN,
             RegisterCheck(s, f, e, n, paid)
      PROVE  OrganisationInv'
  <2>1. Ask(s, Request("register", f, e, n, "mlro", paid))
    BY <1>6 DEF RegisterCheck
  <2> QED  BY <1>1, <2>1
<1>7. ASSUME NEW e \in Mailboxes, NEW n \in Spellings, NEW f \in Firms,
             NEW role \in {"officer", "mlro"}, firm[f] # "absent", ~operator_name_taken(f, n, None),
             Ask(s, [NoOrganisationRequest EXCEPT !.phase = "create", !.firm = f, !.email = e,
                                                  !.name = n, !.role = role])
      PROVE  OrganisationInv'
  <2> DEFINE paid == NoOrganisationRequest.paid
  <2>1. paid \in BOOLEAN /\ paid = NoOrganisationRequest.paid
    BY <1>3
  <2> HIDE DEF paid
  <2>2. Ask(s, Request("create", f, e, n, role, paid))
    BY <1>3, <1>7, <2>1 DEF OrgRequest
  <2> QED  BY <1>1, <1>7, <2>1, <2>2, NotTaken
<1>8. ASSUME NEW by \in Mailboxes, NEW e \in Mailboxes, NEW n \in Spellings,
             NEW role \in {"officer", "mlro"}, CreateCheck(s, by, e, n, role)
      PROVE  OrganisationInv'
  <2> DEFINE f == member[by].firm
  <2>1. f \in Firms /\ firm[f] # "absent"
    BY <1>4, <1>8 DEF CreateCheck, IsMlro, FirmsOK, MemberRow
  <2>2. /\ ~operator_name_taken(f, n, None)
        /\ Ask(s, [NoOrganisationRequest EXCEPT !.phase = "create", !.firm = f, !.email = e,
                                                !.name = n, !.role = role])
    BY <1>8 DEF CreateCheck
  <2> HIDE DEF f
  <2> QED  BY <1>7, <2>1, <2>2
<1>9. ASSUME NEW by \in Mailboxes, NEW e \in Mailboxes, NEW n \in Spellings, RenameCheck(s, by, e, n)
      PROVE  OrganisationInv'
  <2>1. /\ member[e].firm # None /\ NameFree(member, member[e].firm, n, e) /\ n \in AnyName
        /\ Ask(s, [NoOrganisationRequest EXCEPT !.phase = "rename", !.email = e, !.name = n])
    BY <1>9, NotTaken DEF RenameCheck, IsMlro, AnyName
  <2> QED  BY <1>2, <2>1
<1>10. ASSUME NEW e \in Mailboxes, NEW phase \in {"deactivate", "reactivate"},
              Ask(s, [NoOrganisationRequest EXCEPT !.phase = phase, !.email = e])
       PROVE  OrganisationInv'
  <2> DEFINE n == NoOrganisationRequest.name
  <2>1. [NoOrganisationRequest EXCEPT !.phase = phase, !.email = e]
          = [NoOrganisationRequest EXCEPT !.phase = phase, !.email = e, !.name = n]
    BY <1>3 DEF OrgRequest
  <2> QED  BY <1>2, <1>3, <1>10, <2>1
<1>11. ASSUME NEW by \in Mailboxes, NEW e \in Mailboxes, ReactivateCheck(s, by, e)
       PROVE  OrganisationInv'
  BY <1>10, <1>11 DEF ReactivateCheck
<1>12. ASSUME NEW by \in Mailboxes, NEW e \in Mailboxes, NEW app \in BOOLEAN, DeactivateCheck(s, by, e, app)
       PROVE  OrganisationInv'
  BY <1>10, <1>12 DEF DeactivateCheck
<1>13. ASSUME NEW e \in Mailboxes, NEW n \in Spellings, NEW f \in Firms,
              NEW role \in {"officer", "mlro"}, ProvisionCheck(s, f, e, n, role)
       PROVE  OrganisationInv'
  BY <1>7, <1>13 DEF ProvisionCheck
<1> QED  BY <1>5, <1>6, <1>8, <1>9, <1>11, <1>12, <1>13, Zenon

\* A colleague whose name is free is hired: no two names read alike after it.
LEMMA HiredOK ==
    ASSUME OrganisationInv, NEW e \in Mailboxes, NEW f \in Firms, NEW n \in AnyName,
           NEW role \in {"officer", "mlro"}, member[e].firm = None, NameFree(member, f, n, None),
           NEW firms, NEW links, firms \in [Firms -> Firm], links \subseteq setupLink,
           firms[f] # "absent", \A g \in Firms : firm[g] # "absent" => firms[g] # "absent"
    PROVE  FirmsOK(firms, links, Hired(e, f, n, role)) /\ NoTwins(Hired(e, f, n, role))
<1> DEFINE m == Hired(e, f, n, role)
<1>1. ASSUME NEW yes \in BOOLEAN, NEW no \in BOOLEAN
      PROVE  LET row == [firm |-> f, name |-> n, role |-> role, active |-> yes, super_admin |-> no]
             IN  row \in MemberRow /\ row.firm = f /\ row.name = n
  BY DEF MemberRow
<1>2. TRUE \in BOOLEAN /\ FALSE \in BOOLEAN
  OBVIOUS
<1>3. PICK row \in MemberRow : m = [member EXCEPT ![e] = row] /\ row.firm = f /\ row.name = n
  BY <1>1, <1>2, Zenon DEF Hired
<1> HIDE DEF m
<1>4. FirmsOK(firm, setupLink, member) /\ NoTwins(member)
  BY DEF OrganisationInv
<1>5. /\ m \in [Mailboxes -> MemberRow] /\ m[e].firm = f /\ m[e].name = n
      /\ \A o \in Mailboxes \ {e} : m[o] = member[o]
  BY <1>3, <1>4 DEF FirmsOK
<1>6. f # None /\ \A o \in Mailboxes : o # None
  BY OrganisationsAssumption
<1>7. FirmsOK(firms, links, m)
  <2>1. ASSUME NEW o \in Mailboxes, m[o].firm # None  PROVE firms[m[o].firm] # "absent"
    <3>1. CASE o = e
      BY <1>5, <3>1
    <3>2. CASE o # e
      <4>1. member[o].firm \in Firms /\ firm[member[o].firm] # "absent" /\ m[o] = member[o]
        BY <1>4, <1>5, <2>1, <3>2 DEF FirmsOK, MemberRow
      <4> QED  BY <4>1
    <3> QED  BY <3>1, <3>2
  <2> QED  BY <1>4, <1>5, <2>1 DEF FirmsOK
<1>8. NoTwins(m)
  <2>1. ASSUME NEW o \in Mailboxes, m[o].firm # None  PROVE NameFree(m, m[o].firm, m[o].name, o)
    <3>1. CASE o = e
      BY <1>5, <1>6, <3>1 DEF NameFree
    <3>2. CASE o # e
      <4>1. NameFree(member, m[o].firm, m[o].name, o)
        BY <1>4, <1>5, <2>1, <3>2 DEF NoTwins
      <4>2. m[o].firm = f => operator_name_lookalike_key(m[o].name) # operator_name_lookalike_key(n)
        BY <1>5, <1>6, <3>2 DEF NameFree
      <4> QED  BY <1>5, <4>1, <4>2 DEF NameFree
    <3> QED  BY <3>1, <3>2
  <2> QED  BY <2>1 DEF NoTwins
<1> QED  BY <1>7, <1>8 DEF m

LEMMA OrganisationAnswers ==
    ASSUME OneRequest, OrganisationInv, NEW s \in Slots,
           \/ register_organization(s) \/ complete_initial_setup(s) \/ provision_operator(s)
           \/ rename_operator(s) \/ SetActive(s) \/ OrganisationDies(s)
    PROVE  OrganisationInv'
<1> DEFINE r == orgreq[s]
<1>1. /\ FirmsOK(firm, setupLink, member) /\ NoTwins(member)
      /\ r \in OrgRequest /\ Passed(r, member, firm)
  BY DEF OrganisationInv
<1>2. Answered(s)
  BY DEF register_organization, complete_initial_setup, provision_operator, rename_operator,
         SetActive, OrganisationDies
<1>3. ASSUME UNCHANGED <<firm, setupLink, member>>  PROVE OrganisationInv'
  BY <1>1, <1>2, <1>3, AnsweredOK
<1>4. ASSUME register_organization(s)  PROVE OrganisationInv'
  <2> DEFINE paid == IF r.paid THEN "legacy" ELSE "pending_payment"
  <2>1. UNCHANGED setupLink /\ r.phase = "register"
    BY <1>4 DEF register_organization
  <2>2. r.firm \in Firms /\ r.email \in Mailboxes /\ r.name \in AnyName /\ r.role \in {"officer", "mlro"}
    BY <1>1, <2>1 DEF Passed, OrgRequest
  <2>3. CASE firm[r.firm] = "absent" /\ member[r.email].firm = None
    <3>1. firm' = [firm EXCEPT ![r.firm] = paid] /\ member' = Hired(r.email, r.firm, r.name, r.role)
      BY <1>4, <2>3 DEF register_organization
    <3>2. paid \in Firm /\ paid # "absent"
      BY DEF Firm
    <3> HIDE DEF paid
    <3>3. /\ firm' \in [Firms -> Firm] /\ firm'[r.firm] # "absent"
          /\ \A g \in Firms : firm[g] # "absent" => firm'[g] # "absent"
      BY <1>1, <2>2, <3>1, <3>2 DEF FirmsOK
    <3>4. NameFree(member, r.firm, r.name, None)
      BY <1>1, <2>2, <2>3, OrganisationsAssumption DEF FirmsOK, NameFree
    <3>5. FirmsOK(firm', setupLink', member') /\ NoTwins(member')
      BY <2>1, <2>2, <2>3, <3>1, <3>3, <3>4, HiredOK
    <3> QED  BY <1>2, <3>5, AnsweredOK
  <2>4. CASE ~(firm[r.firm] = "absent" /\ member[r.email].firm = None)
    <3>1. UNCHANGED <<firm, member>>
      BY <1>4, <2>4 DEF register_organization
    <3> QED  BY <1>3, <2>1, <3>1
  <2> QED  BY <2>3, <2>4
<1>5. ASSUME r.phase \in {"setup", "create"}, firm' = firm, setupLink' \subseteq setupLink,
             member' = Hired(r.email, r.firm, r.name, r.role), Insertable(r.email, r.firm, r.name)
      PROVE  OrganisationInv'
  <2>1. /\ r.firm \in Firms /\ r.email \in Mailboxes /\ r.name \in AnyName /\ r.role \in {"officer", "mlro"}
        /\ firm[r.firm] # "absent" /\ NameFree(member, r.firm, r.name, None)
    BY <1>1, <1>5 DEF Passed, OrgRequest
  <2>2. member[r.email].firm = None /\ firm \in [Firms -> Firm]
    BY <1>1, <1>5 DEF Insertable, FirmsOK
  <2>3. FirmsOK(firm', setupLink', member') /\ NoTwins(member')
    BY <1>5, <2>1, <2>2, HiredOK
  <2> QED  BY <1>2, <2>3, AnsweredOK
<1>6. ASSUME complete_initial_setup(s)  PROVE OrganisationInv'
  <2> DEFINE done == r.firm \in setupLink /\ Insertable(r.email, r.firm, r.name)
  <2>1. r.phase = "setup" /\ firm' = firm
    BY <1>6 DEF complete_initial_setup
  <2>2. done => setupLink' = setupLink \ {r.firm} /\ member' = Hired(r.email, r.firm, r.name, r.role)
    BY <1>6 DEF complete_initial_setup
  <2>3. ~done => setupLink' = setupLink /\ member' = member
    BY <1>6 DEF complete_initial_setup
  <2>4. CASE done
    BY <1>5, <2>1, <2>2, <2>4
  <2>5. CASE ~done
    BY <1>3, <2>1, <2>3, <2>5
  <2> QED  BY <2>4, <2>5
<1>7. ASSUME provision_operator(s)  PROVE OrganisationInv'
  <2>1. r.phase = "create" /\ UNCHANGED <<firm, setupLink>>
    BY <1>7 DEF provision_operator
  <2>2. CASE Insertable(r.email, r.firm, r.name)
    BY <1>5, <1>7, <2>1, <2>2 DEF provision_operator
  <2>3. CASE ~Insertable(r.email, r.firm, r.name)
    BY <1>3, <1>7, <2>1, <2>3 DEF provision_operator
  <2> QED  BY <2>2, <2>3
<1>8. ASSUME rename_operator(s)  PROVE OrganisationInv'
  <2> DEFINE e == r.email
             row == [member[e] EXCEPT !.name = r.name]
  <2>1. r.phase = "rename" /\ UNCHANGED <<firm, setupLink>>
    BY <1>8 DEF rename_operator
  <2>2. /\ e \in Mailboxes /\ r.name \in AnyName /\ member[e] \in MemberRow
        /\ NameFree(member, member[e].firm, r.name, e) /\ member \in [Mailboxes -> MemberRow]
    BY <1>1, <2>1 DEF Passed, OrgRequest, FirmsOK
  <2>3. CASE member' = [member EXCEPT ![e].name = r.name]
    <3>1. member' = [member EXCEPT ![e] = row]
      BY <2>2, <2>3
    <3>2. row \in MemberRow /\ row.firm = member[e].firm /\ row.name = r.name
      BY <2>2 DEF MemberRow
    <3> HIDE DEF row
    <3>3. /\ member' \in [Mailboxes -> MemberRow] /\ member'[e] = row
          /\ \A o \in Mailboxes \ {e} : member'[o] = member[o]
      BY <2>2, <3>1, <3>2
    <3>4. FirmsOK(firm', setupLink', member')
      BY <1>1, <2>1, <2>2, <3>2, <3>3 DEF FirmsOK
    <3>5. NoTwins(member')
      <4>1. ASSUME NEW o \in Mailboxes, member'[o].firm # None
            PROVE  NameFree(member', member'[o].firm, member'[o].name, o)
        <5>1. CASE o = e
          BY <2>2, <3>2, <3>3, <5>1 DEF NameFree
        <5>2. CASE o # e
          <6>1. NameFree(member, member'[o].firm, member'[o].name, o)
            BY <1>1, <3>3, <4>1, <5>2 DEF NoTwins
          <6>2. member'[o].firm = member[e].firm =>
                    operator_name_lookalike_key(member'[o].name) # operator_name_lookalike_key(r.name)
            BY <2>2, <3>3, <5>2 DEF NameFree
          <6> QED  BY <3>2, <3>3, <6>1, <6>2 DEF NameFree
        <5> QED  BY <5>1, <5>2
      <4> QED  BY <4>1 DEF NoTwins
    <3> QED  BY <1>2, <3>4, <3>5, AnsweredOK
  <2>4. CASE member' = member
    BY <1>3, <2>1, <2>4
  <2> QED  BY <1>8, <2>3, <2>4 DEF rename_operator
<1>9. ASSUME SetActive(s)  PROVE OrganisationInv'
  <2> DEFINE e == r.email
             active == r.phase = "reactivate"
             row == [member[e] EXCEPT !.active = active]
  <2>1. r.phase \in {"deactivate", "reactivate"} /\ UNCHANGED <<firm, setupLink>>
        /\ member' = [member EXCEPT ![e].active = active]
    BY <1>9 DEF SetActive
  <2>2. e \in Mailboxes /\ member[e] \in MemberRow /\ member \in [Mailboxes -> MemberRow]
        /\ active \in BOOLEAN
    BY <1>1, <2>1 DEF Passed, FirmsOK
  <2> HIDE DEF active
  <2>3. member' = [member EXCEPT ![e] = row]
    BY <2>1, <2>2
  <2>4. row \in MemberRow /\ row.firm = member[e].firm /\ row.name = member[e].name
    BY <2>2 DEF MemberRow
  <2> HIDE DEF row
  <2>5. member' \in [Mailboxes -> MemberRow] /\ SameNames(member, member')
    BY <2>2, <2>3, <2>4 DEF SameNames
  <2>6. FirmsOK(firm', setupLink', member') /\ NoTwins(member')
    BY <1>1, <2>1, <2>5, NamesKept DEF FirmsOK, SameNames
  <2> QED  BY <1>2, <2>6, AnsweredOK
<1>10. ASSUME OrganisationDies(s)  PROVE OrganisationInv'
  BY <1>3, <1>10 DEF OrganisationDies
<1> QED  BY <1>4, <1>6, <1>7, <1>8, <1>9, <1>10

\* What happens beside the requests about names.
OrganisationAside ==
    \/ \E f \in Firms : Subscribe(f)
    \/ purge_expired \/ DayPasses
    \/ \E a \in Leads :
          \/ delete_application(a) \/ \E status \in Statuses : set_status(a, status)
          \/ \E complete, consent, honeypot \in BOOLEAN : apply_submit(a, complete, consent, honeypot)

LEMMA OrganisationRowsKept ==
    ASSUME OrganisationInv, orgreq' = orgreq, FirmsOK(firm', setupLink', member'),
           SameNames(member, member'),
           \A f \in Firms : firm[f] # "absent" => firm'[f] # "absent"
    PROVE  OrganisationInv'
<1>1. NoTwins(member')
  BY NamesKept DEF OrganisationInv
<1>2. ASSUME NEW s \in Slots  PROVE Passed(orgreq[s], member', firm')
  <2>1. Passed(orgreq[s], member, firm)
    BY DEF OrganisationInv
  <2> QED  BY <2>1 DEF Passed, NameFree, SameNames
<1> QED  BY <1>1, <1>2 DEF OrganisationInv, FirmsOK, NoTwins, NameFree, Passed

\* While requests do not overlap, two colleagues never have names that read alike,
\* whichever door they came through.
THEOREM NoLookalikesCorrect ==
    ASSUME OneRequest  PROVE OrganisationSpec => []NoLookalikes
<1>1. OrganisationInit => OrganisationInv
  <2> SUFFICES ASSUME OrganisationInit  PROVE OrganisationInv
    OBVIOUS
  <2>1. PICK f \in Firms : /\ firm = [g \in Firms |-> IF g = f THEN "legacy" ELSE "absent"]
                           /\ setupLink = {f}
    BY DEF OrganisationInit
  <2>2. firm \in [Firms -> Firm] /\ setupLink \subseteq Firms /\ \A g \in setupLink : firm[g] # "absent"
    BY <2>1 DEF Firm
  <2>3. member \in [Mailboxes -> MemberRow] /\ \A e \in Mailboxes : member[e].firm = None
    BY NobodyOK DEF OrganisationInit
  <2>4. orgreq \in [Slots -> OrgRequest] /\ \A s \in Slots : orgreq[s].phase = "idle"
    BY NoOrganisationRequestOK DEF OrganisationInit
  <2> QED  BY <2>2, <2>3, <2>4 DEF OrganisationInv, FirmsOK, NoTwins, Passed
<1>2. OrganisationInv /\ [OrganisationNext]_organisationVars => OrganisationInv'
  <2> SUFFICES ASSUME OrganisationInv, [OrganisationNext]_organisationVars  PROVE OrganisationInv'
    OBVIOUS
  <2>1. ASSUME UNCHANGED <<setupLink, member, orgreq>>, firm' \in [Firms -> Firm],
               \A f \in Firms : firm[f] # "absent" => firm'[f] # "absent"
        PROVE  OrganisationInv'
    <3>1. FirmsOK(firm, setupLink, member) /\ SameNames(member, member')
      BY <2>1 DEF OrganisationInv, SameNames
    <3>2. \A e \in Mailboxes : member[e].firm # None => member[e].firm \in Firms
      BY <3>1 DEF FirmsOK, MemberRow
    <3>3. FirmsOK(firm', setupLink', member')
      BY <2>1, <3>1, <3>2 DEF FirmsOK
    <3> QED  BY <2>1, <3>1, <3>3, OrganisationRowsKept
  <2>2. ASSUME UNCHANGED <<firm, setupLink, member, orgreq>>  PROVE OrganisationInv'
    BY <2>1, <2>2 DEF OrganisationInv, FirmsOK
  <2>3. ASSUME NEW s \in Slots, OrganisationStep(s)  PROVE OrganisationInv'
    BY <2>3, OrganisationAsks, OrganisationAnswers, Zenon DEF OrganisationStep
  <2>4. ASSUME NEW e \in Mailboxes, NEW grant \in BOOLEAN, set_super_admin(e, grant)
        PROVE  OrganisationInv'
    <3> DEFINE row == [member[e] EXCEPT !.super_admin = grant]
    <3>1. FirmsOK(firm, setupLink, member) /\ member[e] \in MemberRow
      BY DEF OrganisationInv, FirmsOK
    <3>2. member' = [member EXCEPT ![e] = row] /\ UNCHANGED <<firm, setupLink, orgreq>>
      BY <2>4, <3>1 DEF set_super_admin, FirmsOK
    <3>3. row \in MemberRow /\ row.firm = member[e].firm /\ row.name = member[e].name
      BY <3>1 DEF MemberRow
    <3> HIDE DEF row
    <3>4. member' \in [Mailboxes -> MemberRow] /\ SameNames(member, member')
      BY <3>1, <3>2, <3>3 DEF FirmsOK, SameNames
    <3>5. FirmsOK(firm', setupLink', member')
      BY <3>1, <3>2, <3>4 DEF FirmsOK, SameNames
    <3> QED  BY <3>2, <3>4, <3>5, OrganisationRowsKept
  <2>5. ASSUME NEW f \in Firms, Subscribe(f)  PROVE OrganisationInv'
    <3>1. firm \in [Firms -> Firm] /\ firm' = [firm EXCEPT ![f] = "subscribed"]
          /\ UNCHANGED <<setupLink, member, orgreq>>
      BY <2>5 DEF Subscribe, OrganisationInv, FirmsOK
    <3>2. firm' \in [Firms -> Firm] /\ \A g \in Firms : firm[g] # "absent" => firm'[g] # "absent"
      BY <3>1 DEF Firm
    <3> QED  BY <2>1, <3>1, <3>2
  <2>6. ASSUME OrganisationAside  PROVE OrganisationInv'
    <3>1. (\E f \in Firms : Subscribe(f)) \/ UNCHANGED <<firm, setupLink, member, orgreq>>
      BY <2>6, Zenon DEF OrganisationAside, purge_expired, DayPasses, delete_application, set_status,
                         apply_submit, OnLeads
    <3> QED  BY <2>2, <2>5, <3>1
  <2>7. ASSUME UNCHANGED organisationVars  PROVE OrganisationInv'
    BY <2>2, <2>7 DEF organisationVars
  <2> QED  BY <2>3, <2>4, <2>6, <2>7, Zenon DEF OrganisationNext, OrganisationAside
<1>3. OrganisationInv => NoLookalikes
  BY DEF OrganisationInv, NoTwins, NameFree, NoLookalikes
<1> QED  BY <1>1, <1>2, <1>3, PTL DEF OrganisationSpec

-------------------------------------------------------------------------------
\* Retention and purge

KeptRow == [status : {"absent", "active", "closed", "purged"}, exit : Nat, until : Nat,
            transaction : Nat, report : Nat, draft : BOOLEAN, work : BOOLEAN, files : BOOLEAN]
Task == [phase : {"idle", "close", "reactivate", "submit", "store", "row", "extend", "purge"},
         customer : Customers \cup {None}, todo : SUBSET Customers]
Stored == {"active", "closed"}

\* The date of a customer covers what happened, and reaches no further than this year or the
\* last transaction demands: the one covers every date when the relationship ends.
RowOK(row, y) ==
    /\ row.status = "purged" => row.files = Absent.files
    /\ row.status \in Stored =>
           /\ row.exit <= y /\ row.report <= y
           /\ row.until <= retention_from(y) \/ row.until <= retention_from(row.transaction)
    /\ row.status = "closed" =>
           \A date \in {row.transaction, row.report} : date # 0 => retention_from(date) <= row.until

\* A customer who may be purged, from the selection to the last row.
Due(row, y) ==
    /\ row.status = "closed" /\ ~Blocked(row)
    /\ \A date \in {row.exit, row.transaction, row.report} : date # 0 => retention_from(date) < y

TaskOK(t, rows, y) ==
    /\ t.phase \in {"close", "reactivate", "submit", "store", "row"} => t.customer \in Customers
    /\ t.phase = "extend" =>
           \A c \in t.todo : rows[c].status = "closed" /\ rows[c].until < retention_from(rows[c].exit)
    /\ t.phase = "purge" =>
           /\ \A c \in t.todo : Due(rows[c], y)
           /\ t.customer # None => t.customer \in t.todo /\ rows[t.customer].files = Absent.files

RetentionInv ==
    /\ customer \in [Customers -> KeptRow] /\ year \in Nat /\ year # 0
    /\ rreq \in [Slots -> Task]
    /\ \A c \in Customers : RowOK(customer[c], year)
    /\ \A s \in Slots : TaskOK(rreq[s], customer, year)

\* What a step may do to a row: the two action properties.
RowStep(row, new, y) ==
    /\ new.status = "purged" /\ row.status # "purged" => Due(row, y)
    /\ row.status \in Stored /\ new.status \in Stored /\ new.until < row.until
           => new.status = "active" /\ row.transaction > y

LEMMA RecomputedOK ==
    ASSUME NEW row \in KeptRow
    PROVE  LET new == Recomputed(row)
           IN  /\ new \in KeptRow /\ new = [row EXCEPT !.until = new.until]
               /\ row.until <= new.until
               /\ \A a \in Anchors(row) : retention_from(a) <= new.until
               /\ new.until = row.until \/ \E a \in Anchors(row) : new.until = retention_from(a)
<1> DEFINE n == row.transaction + row.report + row.exit
           m == retention_from(Max(Anchors(row)))
           u == Max({row.until, m})
           new == Recomputed(row)
<1>1. Anchors(row) \in SUBSET (0..n) /\ n \in Nat /\ row.until \in Nat
  BY DEF Anchors, KeptRow
<1>2. CASE Anchors(row) = {}
  <2>1. new = row
    BY <1>2 DEF Recomputed
  <2>2. row = [row EXCEPT !.until = row.until]
    BY DEF KeptRow
  <2> QED  BY <1>1, <1>2, <2>1, <2>2
<1>3. CASE Anchors(row) # {}
  <2>1. Max(Anchors(row)) \in Anchors(row) /\ \A a \in Anchors(row) : a <= Max(Anchors(row))
    BY <1>1, <1>3, MaxIsMember
  <2>2. /\ Max(Anchors(row)) \in Nat /\ \A a \in Anchors(row) : a \in Nat
        /\ RETENTION_YEARS \in Nat
    BY <1>1, <2>1, RetentionAssumption
  <2>3. m \in Nat /\ \A a \in Anchors(row) : retention_from(a) <= m /\ retention_from(a) \in Nat
    BY <2>1, <2>2 DEF retention_from
  <2>4. \E a \in Anchors(row) : m = retention_from(a)
    BY <2>1
  <2>5. new = [row EXCEPT !.until = u]
    BY <1>3 DEF Recomputed
  <2> HIDE DEF m
  <2>6. u \in {row.until, m} /\ row.until <= u /\ m <= u
    BY <1>1, <2>3, MaxOfTwo
  <2> HIDE DEF u, new
  <2>7. u \in Nat /\ new \in KeptRow /\ new.until = u
    BY <1>1, <2>3, <2>5, <2>6 DEF KeptRow
  <2>8. \A a \in Anchors(row) : retention_from(a) <= u
    BY <1>1, <2>3, <2>6, <2>7
  <2>9. u = row.until \/ \E a \in Anchors(row) : u = retention_from(a)
    BY <2>4, <2>6
  <2> QED  BY <2>5, <2>6, <2>7, <2>8, <2>9 DEF new
<1> QED  BY <1>2, <1>3

LEMMA DueStays ==
    ASSUME NEW row \in KeptRow, NEW y \in Nat, Due(row, y)
    PROVE  Due(row, y + 1)
<1>1. \A date \in {row.exit, row.transaction, row.report} :
          date \in Nat /\ retention_from(date) \in Nat
  BY RetentionAssumption DEF KeptRow, retention_from
<1> QED  BY <1>1 DEF Due

\* The only request writes one row, or begins, or goes on.
LEMMA RowWritten ==
    ASSUME OneRequest, RetentionInv, NEW s \in Slots, NEW c \in Customers, NEW new \in KeptRow,
           RowOK(new, year), RowStep(customer[c], new, year),
           customer' = [customer EXCEPT ![c] = new], year' = year,
           NEW t \in Task, TaskOK(t, customer', year), rreq' = [rreq EXCEPT ![s] = t]
    PROVE  /\ RetentionInv'
           /\ \A d \in Customers : RowStep(customer[d], customer'[d], year)
<1>1. /\ customer' \in [Customers -> KeptRow] /\ customer'[c] = new
      /\ \A d \in Customers \ {c} : customer'[d] = customer[d]
      /\ rreq' \in [Slots -> Task] /\ \A u \in Slots : rreq'[u] = t
  BY DEF RetentionInv, OneRequest
<1>2. ASSUME NEW d \in Customers  PROVE RowOK(customer'[d], year) /\ RowStep(customer[d], customer'[d], year)
  <2>1. customer[d] \in KeptRow /\ RowOK(customer[d], year)
    BY DEF RetentionInv
  <2>2. RowStep(customer[d], customer[d], year)
    BY <2>1 DEF RowStep, KeptRow
  <2> QED  BY <1>1, <2>1, <2>2
<1>3. \A u \in Slots : TaskOK(rreq'[u], customer', year)
  BY <1>1
<1>4. RetentionInv'
  BY <1>1, <1>2, <1>3 DEF RetentionInv, RowOK, TaskOK, Due
<1> QED  BY <1>2, <1>4

LEMMA NoTaskOK == NoTask \in Task /\ \A rows, y : TaskOK(NoTask, rows, y)
<1>1. ASSUME NEW phase \in {"idle"}
      PROVE  [phase |-> phase, customer |-> None, todo |-> {}] \in Task
  BY DEF Task
<1>2. NoTask.phase = "idle"
  BY DEF NoTask
<1> QED  BY <1>1, <1>2, Zenon DEF NoTask, TaskOK

\* A request that changes no row.
LEMMA TaskTurns ==
    ASSUME OneRequest, RetentionInv, NEW s \in Slots, customer' = customer, year' = year,
           NEW t \in Task, TaskOK(t, customer, year), rreq' = [rreq EXCEPT ![s] = t]
    PROVE  /\ RetentionInv'
           /\ \A d \in Customers : RowStep(customer[d], customer'[d], year)
<1>1. rreq' \in [Slots -> Task] /\ \A u \in Slots : rreq'[u] = t
  BY DEF RetentionInv, OneRequest
<1>2. \A u \in Slots : TaskOK(rreq'[u], customer, year)
  BY <1>1
<1>3. RetentionInv'
  BY <1>1, <1>2 DEF RetentionInv, RowOK, TaskOK, Due
<1>4. ASSUME NEW d \in Customers  PROVE RowStep(customer[d], customer[d], year)
  <2>1. customer[d] \in KeptRow
    BY DEF RetentionInv
  <2> QED  BY <2>1 DEF RowStep, KeptRow
<1> QED  BY <1>3, <1>4

LEMMA TasksBegin ==
    ASSUME OneRequest, RetentionInv, NEW s \in Slots,
           \/ \E c \in Customers :
                 CloseRead(s, c) \/ ReactivateRead(s, c) \/ SubmitRead(s, c) \/ UploadRead(s, c)
           \/ UploadStore(s) \/ ExtendSelect(s) \/ PurgeSelect(s) \/ TaskDies(s)
           \/ \E c \in Customers : PurgeFilesFail(s, c)
    PROVE  /\ RetentionInv' /\ year' = year
           /\ \A d \in Customers : RowStep(customer[d], customer'[d], year)
<1> DEFINE Fine == /\ RetentionInv' /\ year' = year
                   /\ \A d \in Customers : RowStep(customer[d], customer'[d], year)
<1>1. ASSUME NEW t \in Task, TaskOK(t, customer, year), rreq' = [rreq EXCEPT ![s] = t],
             customer' = customer, year' = year
      PROVE  Fine
  BY <1>1, TaskTurns
<1>2. ASSUME NEW phase \in {"close", "reactivate", "submit", "store"}, NEW c \in Customers,
             Begin(s, phase, c)
      PROVE  Fine
  <2> DEFINE t == [phase |-> phase, customer |-> c, todo |-> {}]
  <2>1. t \in Task /\ t.phase = phase /\ t.customer = c
    BY DEF Task
  <2>2. rreq' = [rreq EXCEPT ![s] = t] /\ customer' = customer /\ year' = year
    BY <1>2 DEF Begin
  <2> HIDE DEF t
  <2>3. TaskOK(t, customer, year)
    BY <2>1 DEF TaskOK
  <2> QED  BY <1>1, <2>1, <2>2, <2>3
<1>3. ASSUME NEW c \in Customers,
             CloseRead(s, c) \/ ReactivateRead(s, c) \/ SubmitRead(s, c) \/ UploadRead(s, c)
      PROVE  Fine
  BY <1>2, <1>3 DEF CloseRead, ReactivateRead, SubmitRead, UploadRead
<1>4. ASSUME NEW phase \in {"extend", "purge"}, NEW todo \in SUBSET Customers,
             phase = "extend" => \A c \in todo : Extendable(c),
             phase = "purge" => \A c \in todo : Expired(c),
             rreq' = [rreq EXCEPT ![s] = [phase |-> phase, customer |-> None, todo |-> todo]],
             customer' = customer, year' = year
      PROVE  Fine
  <2> DEFINE t == [phase |-> phase, customer |-> None, todo |-> todo]
  <2>1. t \in Task /\ t.phase = phase /\ t.customer = None /\ t.todo = todo
    BY DEF Task
  <2>2. rreq' = [rreq EXCEPT ![s] = t]
    BY <1>4
  <2> HIDE DEF t
  <2>3. ASSUME NEW c \in todo, phase = "extend"
        PROVE  customer[c].status = "closed" /\ customer[c].until < retention_from(customer[c].exit)
    BY <1>4, <2>3 DEF Extendable
  <2>4. ASSUME NEW c \in todo, phase = "purge"  PROVE Due(customer[c], year)
    <3> DEFINE row == customer[c]
    <3>1. /\ row.status = "closed" /\ row.until < year /\ ~(retention_from(row.exit) >= year)
          /\ ~Blocked(row)
      BY <1>4, <2>4 DEF Expired, _inside_policy_window
    <3>2. row \in KeptRow /\ RowOK(row, year) /\ year \in Nat
      BY DEF RetentionInv
    <3>3. \A date \in {row.transaction, row.report} : date # 0 => retention_from(date) <= row.until
      BY <3>1, <3>2 DEF RowOK
    <3>4. /\ row.until \in Nat /\ retention_from(row.exit) \in Nat
          /\ retention_from(row.transaction) \in Nat /\ retention_from(row.report) \in Nat
      BY <3>2, RetentionAssumption DEF KeptRow, retention_from
    <3> HIDE DEF row
    <3>5. /\ retention_from(row.exit) < year
          /\ row.transaction # 0 => retention_from(row.transaction) < year
          /\ row.report # 0 => retention_from(row.report) < year
      BY <3>1, <3>2, <3>3, <3>4
    <3>6. Due(row, year)
      BY <3>1, <3>5 DEF Due
    <3> QED  BY <3>6 DEF row
  <2>5. TaskOK(t, customer, year)
    BY <2>1, <2>3, <2>4 DEF TaskOK
  <2> QED  BY <1>1, <1>4, <2>1, <2>2, <2>5
<1>5. ASSUME ExtendSelect(s)  PROVE Fine
  <2> DEFINE todo == {c \in Customers : Extendable(c)}
  <2>1. /\ rreq' = [rreq EXCEPT ![s] = [phase |-> "extend", customer |-> None, todo |-> todo]]
        /\ customer' = customer /\ year' = year
    BY <1>5 DEF ExtendSelect
  <2>2. todo \in SUBSET Customers /\ \A c \in todo : Extendable(c)
    OBVIOUS
  <2> HIDE DEF todo
  <2> QED  BY <1>4, <2>1, <2>2
<1>6. ASSUME PurgeSelect(s)  PROVE Fine
  <2> DEFINE todo == {c \in Customers : Expired(c)}
  <2>1. /\ rreq' = [rreq EXCEPT ![s] = [phase |-> "purge", customer |-> None, todo |-> todo]]
        /\ customer' = customer /\ year' = year
    BY <1>6 DEF PurgeSelect
  <2>2. todo \in SUBSET Customers /\ \A c \in todo : Expired(c)
    OBVIOUS
  <2> HIDE DEF todo
  <2> QED  BY <1>4, <2>1, <2>2
<1>7. ASSUME TaskDies(s)  PROVE Fine
  BY <1>1, <1>7, NoTaskOK DEF TaskDies
<1>8. ASSUME UploadStore(s)  PROVE Fine
  <2> DEFINE phase == "row"
             t == [rreq[s] EXCEPT !.phase = phase]
  <2>1. rreq[s] \in Task /\ rreq[s].customer \in Customers /\ rreq' = [rreq EXCEPT ![s].phase = phase]
        /\ customer' = customer /\ year' = year
    BY <1>8 DEF RetentionInv, TaskOK, UploadStore
  <2>2. phase \in {"row"}
    OBVIOUS
  <2> HIDE DEF phase
  <2>3. t \in Task /\ t.phase = phase /\ t.customer = rreq[s].customer
    BY <2>1, <2>2 DEF Task
  <2>4. rreq' = [rreq EXCEPT ![s] = t]
    BY <2>1 DEF RetentionInv
  <2> HIDE DEF t
  <2>5. TaskOK(t, customer, year)
    BY <2>1, <2>2, <2>3 DEF TaskOK
  <2> QED  BY <1>1, <2>1, <2>3, <2>4, <2>5
<1>9. ASSUME NEW c \in Customers, PurgeFilesFail(s, c)  PROVE Fine
  <2> DEFINE t == Rest(s, c)
  <2>1. /\ rreq[s] \in Task /\ TaskOK(rreq[s], customer, year) /\ rreq[s].phase = "purge"
        /\ rreq' = [rreq EXCEPT ![s] = t] /\ customer' = customer /\ year' = year
    BY <1>9 DEF RetentionInv, PurgeFilesFail, Deferred
  <2>2. \/ t = NoTask
        \/ t \in Task /\ t.phase = "purge" /\ t.customer = None /\ t.todo = rreq[s].todo \ {c}
    BY <2>1 DEF Rest, Task
  <2> HIDE DEF t
  <2>3. t \in Task /\ TaskOK(t, customer, year)
    BY <2>1, <2>2, NoTaskOK DEF TaskOK
  <2> QED  BY <1>1, <2>1, <2>3
<1> QED  BY <1>3, <1>5, <1>6, <1>7, <1>8, <1>9, Zenon

\* The row as the transaction of a handler leaves it.
LEMMA WriteOK ==
    ASSUME OneRequest, RetentionInv, NEW s \in Slots, rreq[s].customer \in Customers,
           NEW new, Write(s, new),
           Exists(rreq[s].customer) => /\ new \in KeptRow /\ RowOK(new, year)
                                       /\ RowStep(customer[rreq[s].customer], new, year)
    PROVE  /\ RetentionInv' /\ year' = year
           /\ \A d \in Customers : RowStep(customer[d], customer'[d], year)
<1> DEFINE c == rreq[s].customer
<1>1. year' = year /\ rreq' = [rreq EXCEPT ![s] = NoTask]
  BY DEF Write
<1>2. CASE Exists(c)
  <2>1. customer' = [customer EXCEPT ![c] = new]
    BY <1>2 DEF Write
  <2> QED  BY <1>1, <1>2, <2>1, NoTaskOK, RowWritten
<1>3. CASE ~Exists(c)
  <2>1. customer' = customer
    BY <1>3 DEF Write
  <2> QED  BY <1>1, <2>1, NoTaskOK, TaskTurns
<1> QED  BY <1>2, <1>3

LEMMA FreeOK ==
    ASSUME OneRequest, RetentionInv, Free, NEW c \in Customers, NEW new \in KeptRow,
           RowOK(new, year), RowStep(customer[c], new, year),
           customer' = [customer EXCEPT ![c] = new], UNCHANGED <<rreq, year>>
    PROVE  /\ RetentionInv' /\ year' = year
           /\ \A d \in Customers : RowStep(customer[d], customer'[d], year)
<1>1. PICK s \in Slots : rreq[s].phase = "idle"
  BY DEF Free
<1>2. rreq[s] \in Task /\ rreq' = [rreq EXCEPT ![s] = rreq[s]] /\ year' = year
  BY DEF RetentionInv
<1>3. TaskOK(rreq[s], customer', year)
  BY <1>1 DEF TaskOK
<1> QED  BY <1>2, <1>3, RowWritten

\* recompute_retention brings the date of a stored row up to what it demands.
LEMMA RecomputedRow ==
    ASSUME NEW y \in Nat, y # 0, NEW row \in KeptRow, row.status \in Stored,
           row.exit <= y, row.report <= y,
           row.until <= retention_from(y) \/ row.until <= retention_from(row.transaction)
    PROVE  /\ Recomputed(row) \in KeptRow /\ RowOK(Recomputed(row), y)
           /\ Recomputed(row).status = row.status /\ row.until <= Recomputed(row).until
           /\ row.transaction # 0 => retention_from(row.transaction) <= Recomputed(row).until
<1> DEFINE new == Recomputed(row)
<1>1. /\ new \in KeptRow /\ new = [row EXCEPT !.until = new.until] /\ row.until <= new.until
      /\ \A a \in Anchors(row) : retention_from(a) <= new.until
      /\ new.until = row.until \/ \E a \in Anchors(row) : new.until = retention_from(a)
  BY RecomputedOK
<1> HIDE DEF new
<1>2. /\ new.status = row.status /\ new.exit = row.exit /\ new.transaction = row.transaction
      /\ new.report = row.report
  BY <1>1 DEF KeptRow
<1>3. \A date \in {row.transaction, row.report} : date # 0 => retention_from(date) <= new.until
  BY <1>1 DEF Anchors
<1>4. \A a \in Anchors(row) : retention_from(a) <= retention_from(y) \/ a = row.transaction
  <2>1. row.exit \in Nat /\ row.report \in Nat /\ RETENTION_YEARS \in Nat
    BY RetentionAssumption DEF KeptRow
  <2>2. retention_from(row.exit) <= retention_from(y) /\ retention_from(row.report) <= retention_from(y)
    BY <2>1 DEF retention_from
  <2> QED  BY <2>2 DEF Anchors
<1>5. new.until <= retention_from(y) \/ new.until <= retention_from(row.transaction)
  <2>1. new.until \in Nat
    BY <1>1 DEF KeptRow
  <2> QED  BY <1>1, <1>4, <2>1
<1>6. RowOK(new, y)
  BY <1>2, <1>3, <1>5 DEF RowOK, Stored
<1> QED  BY <1>1, <1>2, <1>3, <1>6 DEF new

\* Numbers of years behind a row.
LEMMA YearsOK ==
    ASSUME NEW row \in KeptRow
    PROVE  /\ row.exit \in Nat /\ row.until \in Nat /\ row.transaction \in Nat /\ row.report \in Nat
           /\ \A a, b \in Nat : /\ retention_from(a) \in Nat
                                /\ retention_from(a) <= retention_from(b) <=> a <= b
  BY RetentionAssumption DEF KeptRow, retention_from

LEMMA CloseOK ==
    ASSUME OneRequest, RetentionInv, NEW s \in Slots, close_relationship(s)
    PROVE  /\ RetentionInv' /\ year' = year
           /\ \A d \in Customers : RowStep(customer[d], customer'[d], year)
<1> DEFINE c == rreq[s].customer
           row == customer[c]
           status == "closed"
           until == retention_from(year)
           mid == [row EXCEPT !.status = status, !.exit = year, !.until = until]
           new == Recomputed(mid)
<1>1. c \in Customers /\ Write(s, new)
  BY DEF close_relationship, RetentionInv, TaskOK
<1>2. row \in KeptRow /\ RowOK(row, year) /\ year \in Nat /\ year # 0
  BY <1>1 DEF RetentionInv
<1>3. status \in {"closed"} /\ until \in Nat /\ until = retention_from(year)
  BY <1>2, YearsOK
<1> HIDE DEF status, until
<1>4. /\ mid \in KeptRow /\ mid.status = status /\ mid.exit = year /\ mid.until = until
      /\ mid.transaction = row.transaction /\ mid.report = row.report
  BY <1>2, <1>3 DEF KeptRow
<1> HIDE DEF mid
<1>5. ASSUME Exists(c)  PROVE new \in KeptRow /\ RowOK(new, year) /\ RowStep(row, new, year)
  <2>1. /\ row.report <= year
        /\ row.until <= retention_from(year) \/ row.until <= retention_from(row.transaction)
    BY <1>2, <1>5 DEF Exists, RowOK, Stored
  <2>2. mid.status \in Stored /\ mid.exit <= year /\ mid.until <= retention_from(year)
    BY <1>2, <1>3, <1>4, YearsOK DEF Stored
  <2>3. /\ new \in KeptRow /\ RowOK(new, year) /\ new.status = status /\ until <= new.until
        /\ row.transaction # 0 => retention_from(row.transaction) <= new.until
    BY <1>2, <1>4, <2>1, <2>2, RecomputedRow
  <2> HIDE DEF new
  <2>4. row.until <= new.until
    <3>1. new.until \in Nat /\ row.until \in Nat /\ row.transaction \in Nat
          /\ retention_from(row.transaction) \in Nat /\ retention_from(year) \in Nat
      BY <1>2, <2>3, YearsOK
    <3>2. row.transaction = 0 => retention_from(row.transaction) <= retention_from(year)
      BY <1>2, YearsOK
    <3> QED  BY <1>3, <2>1, <2>3, <3>1, <3>2
  <2>5. RowStep(row, new, year)
    BY <1>2, <1>3, <2>3, <2>4 DEF RowStep, KeptRow
  <2> QED  BY <2>3, <2>5
<1> HIDE DEF new
<1> QED  BY <1>1, <1>5, WriteOK

LEMMA ReactivateOK ==
    ASSUME OneRequest, RetentionInv, NEW s \in Slots, reactivate_customer(s)
    PROVE  /\ RetentionInv' /\ year' = year
           /\ \A d \in Customers : RowStep(customer[d], customer'[d], year)
<1> DEFINE c == rreq[s].customer
           row == customer[c]
           status == "active"
           exit == 0
           until == retention_from(year)
           new == [row EXCEPT !.status = status, !.exit = exit, !.until = until]
<1>1. c \in Customers /\ Write(s, new)
  BY DEF reactivate_customer, RetentionInv, TaskOK
<1>2. row \in KeptRow /\ RowOK(row, year) /\ year \in Nat /\ year # 0
  BY <1>1 DEF RetentionInv
<1>3. /\ status \in {"absent", "active", "closed", "purged"} /\ status = "active"
      /\ exit \in Nat /\ exit <= year /\ until \in Nat /\ until = retention_from(year)
  BY <1>2, YearsOK
<1>4. /\ status \in {"absent", "active", "closed", "purged"} /\ exit \in Nat /\ until \in Nat
  BY <1>3
<1> HIDE DEF status, exit, until
<1>5. /\ new \in KeptRow /\ new.status = status /\ new.exit = exit /\ new.until = until
      /\ new.transaction = row.transaction /\ new.report = row.report
  BY <1>2, <1>4 DEF KeptRow
<1> HIDE DEF new
<1>6. ASSUME Exists(c)  PROVE RowOK(new, year) /\ RowStep(row, new, year)
  <2>1. /\ row.report <= year
        /\ row.until <= retention_from(year) \/ row.until <= retention_from(row.transaction)
    BY <1>2, <1>6 DEF Exists, RowOK, Stored
  <2>2. RowOK(new, year)
    BY <1>2, <1>3, <1>5, <2>1, YearsOK DEF RowOK, Stored
  <2>3. new.until < row.until => row.transaction > year
    <3>1. row.until \in Nat /\ row.transaction \in Nat /\ retention_from(row.transaction) \in Nat
          /\ (retention_from(row.transaction) <= retention_from(year) <=> row.transaction <= year)
      BY <1>2, YearsOK
    <3> QED  BY <1>2, <1>3, <1>5, <2>1, <3>1
  <2>4. new.status = "active"
    BY <1>3, <1>5
  <2> QED  BY <2>2, <2>3, <2>4 DEF RowStep
<1> QED  BY <1>1, <1>5, <1>6, WriteOK

LEMMA SubmitOK ==
    ASSUME OneRequest, RetentionInv, NEW s \in Slots, report_submit(s)
    PROVE  /\ RetentionInv' /\ year' = year
           /\ \A d \in Customers : RowStep(customer[d], customer'[d], year)
<1> DEFINE c == rreq[s].customer
           row == customer[c]
           drafted == FALSE
           mid == [row EXCEPT !.draft = drafted, !.report = year]
           new == Recomputed(mid)
<1>1. c \in Customers /\ Write(s, new)
  BY DEF report_submit, RetentionInv, TaskOK
<1>2. row \in KeptRow /\ RowOK(row, year) /\ year \in Nat /\ year # 0
  BY <1>1 DEF RetentionInv
<1>3. drafted \in BOOLEAN
  OBVIOUS
<1> HIDE DEF drafted
<1>4. /\ mid \in KeptRow /\ mid.status = row.status /\ mid.exit = row.exit /\ mid.until = row.until
      /\ mid.transaction = row.transaction /\ mid.report = year
  BY <1>2, <1>3 DEF KeptRow
<1> HIDE DEF mid
<1>5. ASSUME Exists(c)  PROVE new \in KeptRow /\ RowOK(new, year) /\ RowStep(row, new, year)
  <2>1. /\ mid.status \in Stored /\ mid.exit <= year /\ mid.report <= year
        /\ mid.until <= retention_from(year) \/ mid.until <= retention_from(mid.transaction)
    BY <1>2, <1>4, <1>5 DEF Exists, RowOK, Stored
  <2>2. /\ new \in KeptRow /\ RowOK(new, year) /\ new.status = row.status /\ row.until <= new.until
    BY <1>2, <1>4, <2>1, RecomputedRow
  <2> HIDE DEF new
  <2>3. RowStep(row, new, year)
    BY <1>2, <2>2 DEF RowStep, KeptRow
  <2> QED  BY <2>2, <2>3
<1> HIDE DEF new
<1> QED  BY <1>1, <1>5, WriteOK

\* A row that keeps its status and its dates, whatever else is written.
LEMMA SameDates ==
    ASSUME NEW row \in KeptRow, NEW new \in KeptRow, NEW y, RowOK(row, y), row.status \in Stored,
           new.status = row.status, new.exit = row.exit, new.until = row.until,
           new.transaction = row.transaction, new.report = row.report
    PROVE  RowOK(new, y) /\ RowStep(row, new, y)
  BY DEF RowOK, RowStep, Stored, KeptRow

LEMMA UploadRowOK ==
    ASSUME OneRequest, RetentionInv, NEW s \in Slots, UploadRow(s)
    PROVE  /\ RetentionInv' /\ year' = year
           /\ \A d \in Customers : RowStep(customer[d], customer'[d], year)
<1> DEFINE c == rreq[s].customer
           row == customer[c]
           files == TRUE
           new == [row EXCEPT !.files = files]
<1>1. c \in Customers /\ Write(s, new)
  BY DEF UploadRow, RetentionInv, TaskOK
<1>2. row \in KeptRow /\ RowOK(row, year) /\ files \in BOOLEAN
  BY <1>1 DEF RetentionInv
<1> HIDE DEF files
<1>3. /\ new \in KeptRow /\ new.status = row.status /\ new.exit = row.exit /\ new.until = row.until
      /\ new.transaction = row.transaction /\ new.report = row.report
  BY <1>2 DEF KeptRow
<1> HIDE DEF new
<1>4. Exists(c) => row.status \in Stored
  BY DEF Exists, Stored
<1> QED  BY <1>1, <1>2, <1>3, <1>4, SameDates, WriteOK

LEMMA AbsentOK == Absent \in KeptRow /\ Absent.exit = 0 /\ Absent.report = 0 /\ Absent.files = FALSE
<1>1. ASSUME NEW no \in BOOLEAN, NEW gone \in {"absent"}
      PROVE  [status |-> gone, exit |-> 0, until |-> 0, transaction |-> 0, report |-> 0,
              draft |-> no, work |-> no, files |-> no] \in KeptRow
  BY DEF KeptRow
<1>2. FALSE \in BOOLEAN /\ "absent" \in {"absent"}
  OBVIOUS
<1>3. Absent \in KeptRow
  BY <1>1, <1>2, Zenon DEF Absent
<1> QED  BY <1>3 DEF Absent

LEMMA FreeWrites ==
    ASSUME OneRequest, RetentionInv, NEW c \in Customers,
           \/ onboard(c) \/ save_report(c) \/ Work(c)
           \/ \E date \in {1, year, year + 1}, alerted \in BOOLEAN : record_transaction(c, date, alerted)
    PROVE  /\ RetentionInv' /\ year' = year
           /\ \A d \in Customers : RowStep(customer[d], customer'[d], year)
<1> DEFINE row == customer[c]
           Fine == /\ RetentionInv' /\ year' = year
                   /\ \A d \in Customers : RowStep(customer[d], customer'[d], year)
<1>1. row \in KeptRow /\ RowOK(row, year) /\ year \in Nat /\ year # 0 /\ customer \in [Customers -> KeptRow]
  BY DEF RetentionInv
<1>2. Exists(c) => row.status \in Stored
  BY DEF Exists, Stored
<1>3. ASSUME onboard(c)  PROVE Fine
  <2> DEFINE status == "active"
             until == retention_from(year)
             new == [Absent EXCEPT !.status = status, !.until = until]
  <2>1. Free /\ row.status = "absent" /\ customer' = [customer EXCEPT ![c] = new] /\ UNCHANGED <<rreq, year>>
    BY <1>3 DEF onboard
  <2>2. status \in {"active"} /\ until \in Nat /\ until = retention_from(year)
    BY <1>1, YearsOK
  <2> HIDE DEF status, until
  <2>3. new \in KeptRow /\ new.status = status /\ new.until = until /\ new.exit = 0 /\ new.report = 0
    BY <2>2, AbsentOK DEF KeptRow
  <2> HIDE DEF new
  <2>4. RowOK(new, year) /\ RowStep(row, new, year)
    BY <1>1, <2>1, <2>2, <2>3 DEF RowOK, RowStep, Stored
  <2> QED  BY <1>1, <2>1, <2>3, <2>4, FreeOK
<1>4. ASSUME save_report(c)  PROVE Fine
  <2> DEFINE drafted == TRUE
             new == [row EXCEPT !.draft = drafted]
  <2>1. Free /\ Exists(c) /\ customer' = [customer EXCEPT ![c].draft = drafted] /\ UNCHANGED <<rreq, year>>
    BY <1>4 DEF save_report
  <2>2. drafted \in BOOLEAN
    OBVIOUS
  <2> HIDE DEF drafted
  <2>3. /\ new \in KeptRow /\ new.status = row.status /\ new.exit = row.exit /\ new.until = row.until
        /\ new.transaction = row.transaction /\ new.report = row.report
        /\ customer' = [customer EXCEPT ![c] = new]
    BY <1>1, <2>1, <2>2 DEF KeptRow
  <2> HIDE DEF new
  <2> QED  BY <1>1, <1>2, <2>1, <2>3, SameDates, FreeOK
<1>5. ASSUME Work(c)  PROVE Fine
  <2>1. PICK open \in BOOLEAN : customer' = [customer EXCEPT ![c].work = open]
    BY <1>5 DEF Work
  <2> DEFINE new == [row EXCEPT !.work = open]
  <2>2. Free /\ Exists(c) /\ UNCHANGED <<rreq, year>>
    BY <1>5 DEF Work
  <2>3. /\ new \in KeptRow /\ new.status = row.status /\ new.exit = row.exit /\ new.until = row.until
        /\ new.transaction = row.transaction /\ new.report = row.report
        /\ customer' = [customer EXCEPT ![c] = new]
    BY <1>1, <2>1 DEF KeptRow
  <2> HIDE DEF new
  <2> QED  BY <1>1, <1>2, <2>2, <2>3, SameDates, FreeOK
<1>6. ASSUME NEW date \in {1, year, year + 1}, NEW alerted \in BOOLEAN, record_transaction(c, date, alerted)
      PROVE  Fine
  <2> DEFINE last == Max({row.transaction, date})
             work == row.work \/ alerted
             mid == [row EXCEPT !.transaction = last, !.work = work]
             new == Recomputed(mid)
  <2>1. /\ Free /\ Exists(c) /\ UNCHANGED <<rreq, year>>
        /\ customer' = [customer EXCEPT ![c] = new]
    BY <1>6 DEF record_transaction
  <2>2. last \in Nat /\ row.transaction <= last /\ work \in BOOLEAN
    BY <1>1, MaxOfTwo DEF KeptRow
  <2> HIDE DEF last, work
  <2>3. /\ mid \in KeptRow /\ mid.status = row.status /\ mid.exit = row.exit /\ mid.until = row.until
        /\ mid.transaction = last /\ mid.report = row.report
    BY <1>1, <2>2 DEF KeptRow
  <2> HIDE DEF mid
  <2>4. /\ mid.status \in Stored /\ mid.exit <= year /\ mid.report <= year
        /\ row.until <= retention_from(year) \/ row.until <= retention_from(row.transaction)
    BY <1>1, <1>2, <2>1, <2>3 DEF RowOK
  <2>5. mid.until <= retention_from(year) \/ mid.until <= retention_from(mid.transaction)
    <3>1. /\ row.until \in Nat /\ retention_from(row.transaction) \in Nat /\ retention_from(last) \in Nat
          /\ retention_from(row.transaction) <= retention_from(last)
      BY <1>1, <2>2, YearsOK
    <3> QED  BY <2>3, <2>4, <3>1
  <2>6. /\ new \in KeptRow /\ RowOK(new, year) /\ new.status = row.status /\ row.until <= new.until
    BY <1>1, <2>3, <2>4, <2>5, RecomputedRow
  <2> HIDE DEF new
  <2>7. RowStep(row, new, year)
    BY <1>1, <2>6 DEF RowStep, KeptRow
  <2> QED  BY <2>1, <2>6, <2>7, FreeOK
<1> QED  BY <1>3, <1>4, <1>5, <1>6, Zenon

LEMMA ScriptWrites ==
    ASSUME OneRequest, RetentionInv, NEW s \in Slots,
           \/ PurgeRows(s)
           \/ \E c \in Customers : extend_closed_retention(s, c) \/ PurgeFiles(s, c)
    PROVE  /\ RetentionInv' /\ year' = year
           /\ \A d \in Customers : RowStep(customer[d], customer'[d], year)
<1> DEFINE r == rreq[s]
           Fine == /\ RetentionInv' /\ year' = year
                   /\ \A d \in Customers : RowStep(customer[d], customer'[d], year)
<1>1. /\ r \in Task /\ TaskOK(r, customer, year) /\ year \in Nat /\ year # 0
      /\ customer \in [Customers -> KeptRow]
      /\ \A c \in Customers : customer[c] \in KeptRow /\ RowOK(customer[c], year)
  BY DEF RetentionInv
<1>2. \A c : \/ Rest(s, c) = NoTask
             \/ /\ Rest(s, c) \in Task /\ Rest(s, c).phase = r.phase /\ Rest(s, c).customer = None
                /\ Rest(s, c).todo = r.todo \ {c}
  BY <1>1 DEF Rest, Task
<1>3. ASSUME NEW c \in Customers, NEW new \in KeptRow, customer' = [customer EXCEPT ![c] = new],
             r.phase \in {"extend", "purge"}
      PROVE  Rest(s, c) \in Task /\ TaskOK(Rest(s, c), customer', year)
  <2>1. \A d \in Customers \ {c} : customer'[d] = customer[d]
    BY <1>1, <1>3
  <2>2. ASSUME NEW t \in Task, t.phase = r.phase, t.customer = None, t.todo = r.todo \ {c}
        PROVE  TaskOK(t, customer', year)
    <3>1. t.todo \subseteq Customers \ {c} /\ t.todo \subseteq r.todo
      BY <1>1, <2>2 DEF Task
    <3> QED  BY <1>1, <1>3, <2>1, <2>2, <3>1 DEF TaskOK
  <2> QED  BY <1>2, <2>2, NoTaskOK
<1>4. ASSUME PurgeRows(s)  PROVE Fine
  <2> DEFINE c == r.customer
             status == "purged"
             files == customer[c].files
             new == [Absent EXCEPT !.status = status, !.files = files]
  <2>1. /\ r.phase = "purge" /\ c # None /\ customer' = [customer EXCEPT ![c] = new]
        /\ rreq' = [rreq EXCEPT ![s] = Rest(s, c)] /\ year' = year
    BY <1>4 DEF PurgeRows
  <2>2. /\ c \in Customers /\ Due(customer[c], year) /\ files = Absent.files
        /\ files \in BOOLEAN /\ status \in {"purged"}
    BY <1>1, <2>1, AbsentOK DEF TaskOK, Task
  <2> HIDE DEF status, files
  <2>3. new \in KeptRow /\ new.status = status /\ new.files = files
    BY <2>2, AbsentOK DEF KeptRow
  <2> HIDE DEF new
  <2>4. RowOK(new, year) /\ RowStep(customer[c], new, year)
    BY <2>2, <2>3 DEF RowOK, RowStep, Stored
  <2> QED  BY <1>3, <2>1, <2>2, <2>3, <2>4, RowWritten
<1>5. ASSUME NEW c \in Customers, extend_closed_retention(s, c)  PROVE Fine
  <2> DEFINE row == customer[c]
             until == retention_from(row.exit)
             new == [row EXCEPT !.until = until]
  <2>1. /\ r.phase = "extend" /\ c \in r.todo /\ year' = year
        /\ rreq' = [rreq EXCEPT ![s] = Rest(s, c)]
        /\ Exists(c) => customer' = [customer EXCEPT ![c].until = until]
    BY <1>5 DEF extend_closed_retention
  <2>2. row \in KeptRow /\ RowOK(row, year) /\ row.status = "closed" /\ row.until < until
    BY <1>1, <2>1 DEF TaskOK
  <2>3. /\ until \in Nat /\ retention_from(year) \in Nat /\ row.until \in Nat
        /\ retention_from(row.transaction) \in Nat /\ retention_from(row.report) \in Nat
        /\ row.exit <= year => until <= retention_from(year)
    BY <1>1, <2>2, YearsOK
  <2>4. row.exit <= year /\ row.report <= year
    BY <2>2 DEF RowOK, Stored
  <2> HIDE DEF until
  <2>5. /\ new \in KeptRow /\ new.status = row.status /\ new.exit = row.exit /\ new.until = until
        /\ new.transaction = row.transaction /\ new.report = row.report
    BY <2>2, <2>3 DEF KeptRow
  <2>6. customer' = [customer EXCEPT ![c] = new]
    BY <1>1, <2>1, <2>2 DEF Exists
  <2> HIDE DEF new
  <2>7. \A date \in {row.transaction, row.report} : date # 0 => retention_from(date) <= until
    BY <2>2, <2>3 DEF RowOK
  <2>8. RowOK(new, year)
    BY <2>2, <2>3, <2>4, <2>5, <2>7 DEF RowOK
  <2>9. RowStep(row, new, year)
    BY <2>2, <2>3, <2>5 DEF RowStep
  <2> QED  BY <1>3, <2>1, <2>5, <2>6, <2>8, <2>9, RowWritten
<1>6. ASSUME NEW c \in Customers, PurgeFiles(s, c)  PROVE Fine
  <2> DEFINE row == customer[c]
             files == FALSE
             new == [row EXCEPT !.files = files]
             t == [r EXCEPT !.customer = c]
  <2>1. /\ r.phase = "purge" /\ c \in r.todo /\ year' = year
        /\ rreq' = [rreq EXCEPT ![s].customer = c]
        /\ customer' = [customer EXCEPT ![c].files = files]
    BY <1>6 DEF PurgeFiles
  <2>2. row \in KeptRow /\ RowOK(row, year) /\ Due(row, year) /\ files \in BOOLEAN
        /\ files = Absent.files
    BY <1>1, <2>1, AbsentOK DEF TaskOK
  <2> HIDE DEF files
  <2>3. /\ new \in KeptRow /\ new.status = row.status /\ new.exit = row.exit /\ new.until = row.until
        /\ new.transaction = row.transaction /\ new.report = row.report /\ new.files = files
        /\ new.draft = row.draft /\ new.work = row.work
    BY <2>2 DEF KeptRow
  <2>4. customer' = [customer EXCEPT ![c] = new]
    BY <1>1, <2>1
  <2> HIDE DEF new
  <2>5. t \in Task /\ t.phase = r.phase /\ t.customer = c /\ t.todo = r.todo
        /\ rreq' = [rreq EXCEPT ![s] = t]
    BY <1>1, <2>1 DEF Task, RetentionInv
  <2> HIDE DEF t
  <2>6. Due(new, year) /\ row.status \in Stored
    BY <2>2, <2>3 DEF Due, Blocked, Stored
  <2>7. ASSUME NEW d \in t.todo  PROVE Due(customer'[d], year)
    <3>1. d \in Customers /\ Due(customer[d], year)
      BY <1>1, <2>1, <2>5 DEF TaskOK, Task
    <3>2. customer'[d] = new \/ customer'[d] = customer[d]
      BY <1>1, <2>4, <3>1
    <3> QED  BY <2>6, <3>1, <3>2
  <2>8. customer'[c].files = Absent.files
    BY <1>1, <2>2, <2>3, <2>4
  <2>9. TaskOK(t, customer', year)
    BY <2>1, <2>5, <2>7, <2>8 DEF TaskOK
  <2>10. RowOK(new, year) /\ RowStep(row, new, year)
    BY <2>2, <2>3, <2>6, SameDates
  <2>11. RowStep(customer[c], new, year) /\ rreq' = [rreq EXCEPT ![s] = t]
        /\ year' = year /\ new \in KeptRow /\ t \in Task
    BY <2>1, <2>3, <2>5, <2>10
  <2>12. RetentionInv' /\ \A d \in Customers : RowStep(customer[d], customer'[d], year)
    BY <2>4, <2>9, <2>10, <2>11, RowWritten
  <2> QED  BY <2>11, <2>12
<1> QED  BY <1>4, <1>5, <1>6, Zenon

LEMMA YearPasses ==
    ASSUME RetentionInv, NewYear
    PROVE  RetentionInv' /\ \A d \in Customers : RowStep(customer[d], customer'[d], year)
<1>1. year \in Nat /\ year' = year + 1 /\ customer' = customer /\ rreq' = rreq
  BY DEF RetentionInv, NewYear
<1>2. ASSUME NEW c \in Customers
      PROVE  RowOK(customer[c], year + 1) /\ RowStep(customer[c], customer[c], year)
  <2> DEFINE row == customer[c]
  <2>1. row \in KeptRow /\ RowOK(row, year)
    BY DEF RetentionInv
  <2>2. /\ row.exit \in Nat /\ row.report \in Nat /\ row.until \in Nat
        /\ retention_from(year) \in Nat /\ retention_from(year + 1) \in Nat
        /\ retention_from(year) <= retention_from(year + 1)
    BY <1>1, <2>1, YearsOK
  <2>3. RowStep(row, row, year)
    BY <2>1, <2>2 DEF RowStep
  <2>4. row.status \in Stored => row.exit <= year + 1 /\ row.report <= year + 1
    BY <1>1, <2>1, <2>2 DEF RowOK
  <2>5. row.status \in Stored =>
            row.until <= retention_from(year + 1) \/ row.until <= retention_from(row.transaction)
    BY <2>1, <2>2 DEF RowOK
  <2> QED  BY <2>1, <2>3, <2>4, <2>5 DEF RowOK
<1>3. ASSUME NEW s \in Slots  PROVE TaskOK(rreq[s], customer, year + 1)
  <2>1. TaskOK(rreq[s], customer, year) /\ rreq[s] \in Task
    BY DEF RetentionInv
  <2>2. \A c \in Customers : Due(customer[c], year) => Due(customer[c], year + 1)
    BY <1>1, DueStays DEF RetentionInv
  <2> QED  BY <2>1, <2>2 DEF TaskOK, Task
<1>4. year + 1 \in Nat /\ year + 1 # 0
  BY <1>1
<1>5. RetentionInv'
  BY <1>1, <1>2, <1>3, <1>4 DEF RetentionInv, RowOK, TaskOK, Due
<1> QED  BY <1>1, <1>2, <1>5

LEMMA RetentionStep ==
    ASSUME OneRequest, RetentionInv, [RetentionNext]_retentionVars
    PROVE  RetentionInv' /\ \A d \in Customers : RowStep(customer[d], customer'[d], year)
<1> DEFINE Fine == RetentionInv' /\ \A d \in Customers : RowStep(customer[d], customer'[d], year)
<1>1. ASSUME UNCHANGED retentionVars  PROVE Fine
  <2>1. customer' = customer /\ rreq' = rreq /\ year' = year
    BY <1>1 DEF retentionVars
  <2>2. RetentionInv'
    BY <2>1 DEF RetentionInv, RowOK, TaskOK, Due
  <2>3. ASSUME NEW d \in Customers  PROVE RowStep(customer[d], customer[d], year)
    <3>1. customer[d] \in KeptRow
      BY DEF RetentionInv
    <3> QED  BY <3>1 DEF RowStep, KeptRow
  <2> QED  BY <2>1, <2>2, <2>3
<1>2. ASSUME NewYear  PROVE Fine
  BY <1>2, YearPasses
<1>3. ASSUME NEW s \in Slots, RequestStep(s)  PROVE Fine
  BY <1>3, TasksBegin, CloseOK, ReactivateOK, SubmitOK, UploadRowOK, Zenon DEF RequestStep
<1>4. ASSUME NEW s \in Slots, ScriptStep(s)  PROVE Fine
  BY <1>4, TasksBegin, ScriptWrites, Zenon DEF ScriptStep
<1>5. ASSUME NEW c \in Customers,
             \/ onboard(c) \/ save_report(c) \/ Work(c)
             \/ \E date \in {1, year, year + 1}, alerted \in BOOLEAN : record_transaction(c, date, alerted)
      PROVE  Fine
  BY <1>5, FreeWrites
<1> QED  BY <1>1, <1>2, <1>3, <1>4, <1>5, Zenon DEF RetentionNext

LEMMA RetentionInitOK == RetentionInit => RetentionInv
<1> SUFFICES ASSUME RetentionInit  PROVE RetentionInv
  OBVIOUS
<1>1. LegacyClosed \in KeptRow /\ RowOK(LegacyClosed, 1)
  <2> DEFINE status == "closed"  files == TRUE
             row == [Absent EXCEPT !.status = status, !.exit = 1, !.until = RETENTION_YEARS, !.files = files]
  <2>1. status \in {"absent", "active", "closed", "purged"} /\ status \in {"closed"} /\ files \in BOOLEAN
        /\ RETENTION_YEARS \in Nat
    BY RetentionAssumption
  <2>2. LegacyClosed = row /\ Absent.transaction = 0
    BY DEF LegacyClosed, Absent
  <2> HIDE DEF status, files
  <2>3. /\ row \in KeptRow /\ row.status = status /\ row.exit = 1 /\ row.report = Absent.report
        /\ row.until = RETENTION_YEARS /\ row.transaction = Absent.transaction
    BY <2>1, AbsentOK DEF KeptRow
  <2> HIDE DEF row
  <2>4. RowOK(row, 1)
    BY <2>1, <2>2, <2>3, AbsentOK DEF RowOK, retention_from
  <2> QED  BY <2>2, <2>3, <2>4
<1>2. Absent \in KeptRow /\ RowOK(Absent, 1)
  BY AbsentOK DEF RowOK, Absent, Stored
<1>3. customer \in [Customers -> KeptRow] /\ year = 1 /\ \A c \in Customers : RowOK(customer[c], year)
  BY <1>1, <1>2 DEF RetentionInit
<1>4. rreq \in [Slots -> Task] /\ \A s \in Slots : TaskOK(rreq[s], customer, year)
  BY NoTaskOK DEF RetentionInit
<1> QED  BY <1>3, <1>4 DEF RetentionInv

\* While requests and scripts do not overlap, the rows of a purged customer leave no
\* document with them.
THEOREM NoOrphanedFileCorrect ==
    ASSUME OneRequest  PROVE RetentionSpec => []NoOrphanedFile
<1>1. RetentionInv /\ [RetentionNext]_retentionVars => RetentionInv'
  BY RetentionStep
<1>2. RetentionInv => NoOrphanedFile
  BY AbsentOK DEF RetentionInv, RowOK, NoOrphanedFile
<1> QED  BY <1>1, <1>2, RetentionInitOK, PTL DEF RetentionSpec

\* While they do not overlap, a customer is purged only when every date that counts has
\* been kept for RETENTION_YEARS, and nothing is open.
THEOREM PurgedInTimeCorrect ==
    ASSUME OneRequest  PROVE RetentionSpec => PurgedInTime
<1>1. RetentionInv /\ [RetentionNext]_retentionVars => RetentionInv'
  BY RetentionStep
<1>2. RetentionInv /\ [RetentionNext]_retentionVars
         => [\A c \in Customers :
                 LET row == customer[c] IN
                 customer'[c].status = "purged" /\ row.status # "purged" =>
                     /\ row.status = "closed" /\ ~Blocked(row)
                     /\ \A date \in {row.exit, row.transaction, row.report} :
                            date # 0 => retention_from(date) < year]_retentionVars
  BY RetentionStep DEF RowStep, Due
<1> QED  BY <1>1, <1>2, RetentionInitOK, PTL DEF RetentionSpec, PurgedInTime

\* While they do not overlap, the date of a customer moves back only when a reactivation
\* forgets a transaction of the future.
THEOREM OnlyExtendedCorrect ==
    ASSUME OneRequest  PROVE RetentionSpec => OnlyExtended
<1>1. RetentionInv /\ [RetentionNext]_retentionVars => RetentionInv'
  BY RetentionStep
<1>2. RetentionInv /\ [RetentionNext]_retentionVars
         => [\A c \in Customers :
                 Exists(c) /\ Exists(c)' /\ customer'[c].until < customer[c].until
                     => customer'[c].status = "active" /\ customer[c].transaction > year]_retentionVars
  <2>1. ASSUME RetentionInv, [RetentionNext]_retentionVars, NEW c \in Customers,
               Exists(c), Exists(c)', customer'[c].until < customer[c].until
        PROVE  customer'[c].status = "active" /\ customer[c].transaction > year
    <3>1. RowStep(customer[c], customer'[c], year)
      BY <2>1, RetentionStep
    <3>2. customer[c].status \in Stored /\ customer'[c].status \in Stored
      BY <2>1 DEF Exists, Stored
    <3> QED  BY <2>1, <3>1, <3>2 DEF RowStep
  <2> QED  BY <2>1
<1> QED  BY <1>1, <1>2, RetentionInitOK, PTL DEF RetentionSpec, OnlyExtended

-----------------------------------------------------------------------
\* The upgrade of a database

\* What UpgradedOnce says, of the database as anybody sees it.
Upgraded(db) ==
    /\ db.extended_marker => db.owned /\ db.kept = "ruled"
    /\ db.owned => db.email /\ (db.staffed \/ db.twice)
    /\ db.cnmr_marker => ~db.unfiled
    /\ db.orgs <= 1 /\ db.links <= db.orgs

\* No pass undoes what a later one relies on.
Grown(old, new) ==
    /\ new.closed <=> old.closed
    /\ old.closed /\ old.exited => new.exited
    /\ old.owned => new.owned
    /\ old.email => new.email

\* What the passes before a stage have done: the rebuilt table of operators, the dates of
\* exit, then the organisation.
Unbuilt == {"down", "operators", "create", "copy", "up"}
Prepared(stage, db) ==
    /\ stage \notin Unbuilt => db.email
    /\ stage \in {"fatf", "tenancy", "assign", "extend", "finalise", "commit"} =>
           (db.closed => db.exited)
    /\ stage \in {"extend", "finalise", "commit"} => db.owned

MigrationInv ==
    /\ store \in Store /\ draft \in Store
    /\ boot \in [Starters -> BootRow]
    /\ \A p, q \in writer : p = q
    /\ Upgraded(store)
    /\ writer # {} => Upgraded(draft) /\ Grown(store, draft)
    /\ \A p \in Starters : Prepared(boot[p].at, View(p))

LEMMA GrownOK ==
    /\ \A db : Grown(db, db)
    /\ \A a, b, c : Grown(a, b) /\ Grown(b, c) => Grown(a, c)
    /\ \A stage, a, b : Grown(a, b) /\ Prepared(stage, a) => Prepared(stage, b)
  BY DEF Grown, Prepared

\* A process has made of its view what the next stage relies on: others see it at once,
\* at the commit, or never.
LEMMA StageDone ==
    ASSUME MigrationInv, NEW p \in Starters, NEW new \in Store,
           Grown(View(p), new), Upgraded(new),
           \/ WriteSchema(p, new) \/ WriteRows(p, new)
           \/ new = View(p) /\ (Stays \/ (writer \subseteq {p} /\ Commit(p))),
           NEW row \in BootRow, boot' = [boot EXCEPT ![p] = row], Prepared(row.at, new)
    PROVE  MigrationInv'
<1>1. /\ boot' \in [Starters -> BootRow] /\ boot'[p] = row
      /\ \A q \in Starters \ {p} : boot'[q] = boot[q]
  BY DEF MigrationInv
<1> DEFINE Seen(q) == IF q \in writer' THEN draft' ELSE store'
           Fine == /\ store' \in Store /\ draft' \in Store
                   /\ \A q, u \in writer' : q = u
                   /\ Upgraded(store') /\ (writer' # {} => Upgraded(draft') /\ Grown(store', draft'))
                   /\ Seen(p) = new /\ \A q \in Starters \ {p} : Grown(View(q), Seen(q))
<1>2. /\ store \in Store /\ draft \in Store /\ Upgraded(store)
      /\ writer # {} => Upgraded(draft) /\ Grown(store, draft)
      /\ \A q, u \in writer : q = u
  BY DEF MigrationInv
<1>3. ASSUME WriteSchema(p, new)  PROVE Fine
  <2>1. CASE p \in writer
    <3>1. /\ draft' = new /\ store' = store /\ writer' = writer /\ View(p) = draft
          /\ \A q \in Starters \ {p} : View(q) = store /\ Seen(q) = store
      BY <1>2, <1>3, <2>1 DEF WriteSchema, View
    <3> QED  BY <1>2, <2>1, <3>1, GrownOK
  <2>2. CASE p \notin writer
    <3>1. /\ store' = new /\ draft' = draft /\ writer' = writer /\ writer = {} /\ View(p) = store
          /\ \A q \in Starters : View(q) = store /\ Seen(q) = new
      BY <1>3, <2>2 DEF WriteSchema, View
    <3> QED  BY <1>2, <3>1, GrownOK
  <2> QED  BY <2>1, <2>2
<1>4. ASSUME WriteRows(p, new)  PROVE Fine
  <2>1. /\ store' = store /\ draft' = new /\ writer' = {p} /\ writer \subseteq {p}
        /\ \A q \in Starters \ {p} : View(q) = store /\ Seen(q) = store
    BY <1>4 DEF WriteRows, View
  <2>2. Grown(store, View(p))
    BY <1>2, GrownOK DEF View
  <2> QED  BY <1>2, <2>1, <2>2, GrownOK
<1>5. ASSUME new = View(p) /\ Stays  PROVE Fine
  <2>1. \A q \in Starters : Seen(q) = View(q)
    BY <1>5 DEF Stays, View
  <2> QED  BY <1>2, <1>5, <2>1, GrownOK DEF Stays
<1>6. ASSUME new = View(p) /\ writer \subseteq {p} /\ Commit(p)  PROVE Fine
  <2>1. /\ store' = View(p) /\ draft' = draft /\ writer' = {}
        /\ \A q \in Starters \ {p} : View(q) = store /\ Seen(q) = View(p)
    BY <1>6 DEF Commit, View
  <2>2. Grown(store, View(p))
    BY <1>2, GrownOK DEF View
  <2> QED  BY <1>2, <1>6, <2>1, <2>2
<1>7. Fine
  BY <1>3, <1>4, <1>5, <1>6
<1>8. ASSUME NEW q \in Starters  PROVE Prepared(boot'[q].at, Seen(q))
  <2>1. CASE q = p
    BY <1>1, <1>7, <2>1
  <2>2. CASE q # p
    BY <1>1, <1>7, <2>2, GrownOK DEF MigrationInv
  <2> QED  BY <2>1, <2>2
<1> QED  BY <1>1, <1>7, <1>8 DEF MigrationInv, View, Upgraded, Grown, Prepared

\* The view of a process, and the stage that it goes on to.
LEMMA ViewOK ==
    ASSUME MigrationInv, NEW p \in Starters
    PROVE  /\ View(p) \in Store /\ Upgraded(View(p)) /\ Prepared(boot[p].at, View(p))
           /\ boot[p] \in BootRow
  BY DEF MigrationInv, View

LEMMA StageReached ==
    ASSUME MigrationInv, NEW p \in Starters, NEW stage \in BootStages, GoOn(p, stage),
           NEW new \in Store, Grown(View(p), new), Upgraded(new), Prepared(stage, new),
           \/ WriteSchema(p, new) \/ WriteRows(p, new)
           \/ new = View(p) /\ (Stays \/ (writer \subseteq {p} /\ Commit(p)))
    PROVE  MigrationInv'
<1> DEFINE row == [boot[p] EXCEPT !.at = stage]
<1>1. row \in BootRow /\ row.at = stage
  BY ViewOK DEF BootRow
<1>2. boot' = [boot EXCEPT ![p] = row]
  BY DEF GoOn, MigrationInv
<1> HIDE DEF row
<1> QED  BY <1>1, <1>2, StageDone

\* A stage that only reads, or only commits.
LEMMA StagePassed ==
    ASSUME MigrationInv, NEW p \in Starters, NEW stage \in BootStages, GoOn(p, stage),
           Prepared(stage, View(p)), Stays \/ (writer \subseteq {p} /\ Commit(p))
    PROVE  MigrationInv'
  BY ViewOK, GrownOK, StageReached

LEMMA StagesAre ==
    /\ _initialise["email"] = "fill" /\ _initialise["fill"] = "fatf"
    /\ _initialise["fatf"] = "tenancy" /\ _initialise["tenancy"] = "extend"
    /\ _initialise["extend"] = "finalise" /\ _initialise["finalise"] = "commit"
  BY DEF _initialise

\* The stages before the passes over the rows.
LEMMA SchemaStages ==
    ASSUME MigrationInv, NEW p \in Starters,
           \/ connect(p) \/ ReadOperators(p) \/ CreateOperatorsNew(p) \/ CopyOperators(p)
           \/ _migrate_customers_table(p) \/ RememberColumns(p) \/ ReadColumn(p) \/ _migrate(p)
    PROVE  MigrationInv'
<1> DEFINE db == View(p)
           Early == {"operators", "create", "copy", "customers", "before", "verify column",
                     "alter verify", "exit column", "alter exit", "email", "fill"}
<1>1. db \in Store /\ Upgraded(db) /\ boot[p] \in BootRow
  BY ViewOK
<1>0. boot[p].at \notin Unbuilt => db.email
  BY ViewOK DEF Prepared
<1>2. ASSUME NEW stage \in Early, NEW new, stage \in Unbuilt \/ new.email
      PROVE  stage \in BootStages /\ Prepared(stage, new)
  BY <1>2 DEF BootStages, Prepared
<1>3. ASSUME NEW stage \in Early, GoOn(p, stage), Stays, stage \in Unbuilt \/ db.email  PROVE MigrationInv'
  BY <1>2, <1>3, StagePassed
<1>4. ASSUME NEW stage \in Early, GoOn(p, stage), NEW new \in Store, WriteSchema(p, new) \/ WriteRows(p, new),
             Grown(db, new), Upgraded(new), stage \in Unbuilt \/ new.email
      PROVE  MigrationInv'
  BY <1>2, <1>4, StageReached
<1>5. ASSUME connect(p)  PROVE MigrationInv'
  BY <1>3, <1>5 DEF connect, Unbuilt
<1>6. ASSUME ReadOperators(p)  PROVE MigrationInv'
  <2> DEFINE stage == IF db.email THEN "customers" ELSE "create"
  <2>1. stage \in Early /\ GoOn(p, stage) /\ Stays /\ (stage \in Unbuilt \/ db.email)
    BY <1>6 DEF ReadOperators, Unbuilt
  <2> QED  BY <1>3, <2>1
<1>7. ASSUME CreateOperatorsNew(p)  PROVE MigrationInv'
  <2> DEFINE yes == TRUE
             new == [db EXCEPT !.rebuild = yes]
  <2>1. yes \in BOOLEAN /\ "copy" \in Early /\ "copy" \in Unbuilt /\ GoOn(p, "copy")
        /\ WriteSchema(p, new)
    BY <1>7 DEF CreateOperatorsNew, Unbuilt
  <2> HIDE DEF yes
  <2>2. new \in Store /\ Grown(db, new) /\ Upgraded(new)
    BY <1>1, <2>1 DEF Store, Grown, Upgraded
  <2> QED  BY <1>4, <2>1, <2>2
<1>8. ASSUME CopyOperators(p)  PROVE MigrationInv'
  <2> DEFINE yes == TRUE  no == FALSE
             twice == db.twice \/ db.email
             new == [db EXCEPT !.rebuild = no, !.email = yes, !.twice = twice,
                               !.staffed = no, !.email_verified_at = no, !.verified = no]
  <2>1. yes \in BOOLEAN /\ no \in BOOLEAN /\ yes /\ "customers" \in Early /\ GoOn(p, "customers")
        /\ WriteRows(p, new)
    BY <1>8 DEF CopyOperators
  <2>2. twice \in BOOLEAN /\ (db.owned => twice)
    BY <1>1 DEF Store, Upgraded
  <2> HIDE DEF yes, no, twice
  <2>3. new \in Store
    BY <1>1, <2>1, <2>2 DEF Store
  <2>4. /\ new.closed = db.closed /\ new.exited = db.exited /\ new.owned = db.owned
        /\ new.kept = db.kept /\ new.extended_marker = db.extended_marker
        /\ new.cnmr_marker = db.cnmr_marker /\ new.unfiled = db.unfiled
        /\ new.orgs = db.orgs /\ new.links = db.links /\ new.email = yes /\ new.twice = twice
    BY <1>1 DEF Store
  <2> HIDE DEF new
  <2>5. Grown(db, new) /\ Upgraded(new) /\ new.email
    BY <1>1, <2>1, <2>2, <2>4 DEF Grown, Upgraded
  <2> QED  BY <1>4, <2>1, <2>3, <2>5
<1>9. ASSUME _migrate_customers_table(p)  PROVE MigrationInv'
  <2> DEFINE yes == TRUE  no == FALSE
             new == [db EXCEPT !.org_id = yes, !.exit_date = no]
  <2>1. yes \in BOOLEAN /\ no \in BOOLEAN /\ "before" \in Early /\ GoOn(p, "before")
        /\ (Stays \/ WriteRows(p, new)) /\ db.email
    BY <1>0, <1>9 DEF _migrate_customers_table, Unbuilt
  <2> HIDE DEF yes, no
  <2>2. new \in Store /\ Grown(db, new) /\ Upgraded(new) /\ new.email
    BY <1>1, <2>1 DEF Store, Grown, Upgraded
  <2> QED  BY <1>3, <1>4, <2>1, <2>2
<1>10. ASSUME RememberColumns(p)  PROVE MigrationInv'
  <2> DEFINE unverified == ~db.email_verified_at
             row == [boot[p] EXCEPT !.at = "verify column", !.unverified = unverified]
  <2>1. boot' = [boot EXCEPT ![p] = row] /\ Stays /\ db.email
    BY <1>0, <1>10 DEF RememberColumns, Unbuilt, MigrationInv
  <2>2. unverified \in BOOLEAN
    OBVIOUS
  <2> HIDE DEF unverified
  <2>3. row \in BootRow /\ Prepared(row.at, db)
    BY <1>1, <2>1, <2>2 DEF BootRow, BootStages, Prepared
  <2> HIDE DEF row
  <2> QED  BY <1>1, <2>1, <2>3, GrownOK, StageDone
<1>11. ASSUME ReadColumn(p)  PROVE MigrationInv'
  <2>0. db.email
    BY <1>0, <1>11 DEF ReadColumn, Unbuilt
  <2>1. PICK stage \in Early : GoOn(p, stage) /\ Stays
    <3> DEFINE first == IF db.email_verified_at THEN "exit column" ELSE "alter verify"
               second == IF db.exit_date THEN "email" ELSE "alter exit"
    <3>1. (GoOn(p, first) \/ GoOn(p, second)) /\ Stays
      BY <1>11 DEF ReadColumn
    <3>2. first \in Early /\ second \in Early
      OBVIOUS
    <3> QED  BY <3>1, <3>2
  <2> QED  BY <1>3, <2>0, <2>1
<1>12. ASSUME _migrate(p)  PROVE MigrationInv'
  <2> DEFINE yes == TRUE
             first == [db EXCEPT !.email_verified_at = yes]
             second == [db EXCEPT !.exit_date = yes]
  <2>1. yes \in BOOLEAN /\ "exit column" \in Early /\ "email" \in Early
        /\ \/ GoOn(p, "exit column") /\ WriteSchema(p, first)
           \/ GoOn(p, "email") /\ WriteSchema(p, second)
        /\ db.email
    BY <1>0, <1>12 DEF _migrate, Unbuilt
  <2> HIDE DEF yes
  <2>2. /\ first \in Store /\ Grown(db, first) /\ Upgraded(first) /\ first.email
        /\ second \in Store /\ Grown(db, second) /\ Upgraded(second) /\ second.email
    BY <1>1, <2>1 DEF Store, Grown, Upgraded
  <2> QED  BY <1>4, <2>1, <2>2
<1> QED  BY <1>5, <1>6, <1>7, <1>8, <1>9, <1>10, <1>11, <1>12, Zenon

\* The passes over the rows, in the order of _initialise.
LEMMA RowStages ==
    ASSUME MigrationInv, NEW p \in Starters,
           \/ _backfill_email_verified(p) \/ _backfill_retention_until(p) \/ load_fatf_data(p)
           \/ FindUnowned(p) \/ AssignOrganisation(p) \/ _run_retention_extension_once(p)
           \/ _run_finalise_legacy_cnmr_drafts_once(p) \/ CommitAll(p)
    PROVE  MigrationInv'
<1> DEFINE db == View(p)
<1>1. db \in Store /\ Upgraded(db) /\ boot[p] \in BootRow /\ Prepared(boot[p].at, db)
  BY ViewOK
<1>2. /\ "fill" \in BootStages /\ "fatf" \in BootStages /\ "tenancy" \in BootStages
      /\ "assign" \in BootStages /\ "extend" \in BootStages /\ "finalise" \in BootStages
      /\ "commit" \in BootStages /\ "up" \in BootStages
  BY DEF BootStages
<1>3. ASSUME NEW new
      PROVE  /\ Prepared("up", new) /\ (new.email => Prepared("fill", new))
             /\ (new.closed => new.exited) /\ new.email =>
                    Prepared("fatf", new) /\ Prepared("tenancy", new) /\ Prepared("assign", new)
             /\ (new.closed => new.exited) /\ new.owned /\ new.email =>
                    Prepared("extend", new) /\ Prepared("finalise", new) /\ Prepared("commit", new)
  BY DEF Prepared, Unbuilt
<1>0. /\ boot[p].at \notin Unbuilt => db.email
      /\ \A stage \in {"email", "fill", "fatf", "tenancy", "assign", "extend", "finalise", "commit"} :
             stage \notin Unbuilt
  BY <1>1 DEF Prepared, BootRow, Unbuilt
<1>4. ASSUME _backfill_email_verified(p)  PROVE MigrationInv'
  <2> DEFINE yes == TRUE
             new == [db EXCEPT !.verified = yes]
  <2>1. yes \in BOOLEAN /\ GoOn(p, "fill") /\ (WriteRows(p, new) \/ Stays) /\ db.email
    BY <1>0, <1>4, StagesAre DEF _backfill_email_verified
  <2> HIDE DEF yes
  <2>2. new \in Store /\ Grown(db, new) /\ Upgraded(new) /\ new.email
    BY <1>1, <2>1 DEF Store, Grown, Upgraded
  <2> QED  BY <1>2, <1>3, <2>1, <2>2, StageReached, StagePassed
<1>5. ASSUME _backfill_retention_until(p)  PROVE MigrationInv'
  <2> DEFINE kept == IF db.kept = "none" THEN "ruled" ELSE db.kept
             exited == db.closed
             new == [db EXCEPT !.kept = kept, !.exited = exited]
  <2>1. GoOn(p, "fatf") /\ WriteRows(p, new) /\ db.email
    BY <1>0, <1>5, StagesAre DEF _backfill_retention_until
  <2>2. kept \in {"none", "shorter", "ruled"} /\ (db.kept = "ruled" => kept = "ruled")
        /\ exited \in BOOLEAN /\ exited = db.closed
    BY <1>1 DEF Store
  <2> HIDE DEF kept, exited
  <2>3. new \in Store
    BY <1>1, <2>2 DEF Store
  <2>4. /\ new.closed = db.closed /\ new.exited = exited /\ new.owned = db.owned
        /\ new.kept = kept /\ new.extended_marker = db.extended_marker
        /\ new.cnmr_marker = db.cnmr_marker /\ new.unfiled = db.unfiled
        /\ new.orgs = db.orgs /\ new.links = db.links
        /\ new.email = db.email /\ new.staffed = db.staffed /\ new.twice = db.twice
    BY <1>1, <2>2 DEF Store
  <2> HIDE DEF new
  <2>5. Upgraded(new) /\ Grown(db, new)
    BY <1>1, <2>2, <2>4 DEF Upgraded, Grown
  <2>6. Prepared("fatf", new)
    BY <1>3, <2>1, <2>2, <2>4
  <2> QED  BY <1>2, <2>1, <2>3, <2>5, <2>6, StageReached
<1>6. ASSUME load_fatf_data(p)  PROVE MigrationInv'
  <2>1. GoOn(p, "tenancy") /\ writer \subseteq {p} /\ Commit(p) /\ boot[p].at = "fatf"
    BY <1>6, StagesAre DEF load_fatf_data
  <2>2. Prepared("tenancy", db)
    BY <1>0, <1>1, <1>3, <2>1 DEF Prepared
  <2> QED  BY <1>2, <2>1, <2>2, StagePassed
<1>7. ASSUME FindUnowned(p)  PROVE MigrationInv'
  <2>1. boot[p].at = "tenancy" /\ Stays
    BY <1>7 DEF FindUnowned
  <2>2. (db.closed => db.exited) /\ db.email
    BY <1>0, <1>1, <2>1 DEF Prepared
  <2>3. IF db.owned THEN GoOn(p, "extend") ELSE GoOn(p, "assign")
    BY <1>7, StagesAre DEF FindUnowned
  <2> QED  BY <1>2, <1>3, <2>1, <2>2, <2>3, StagePassed
<1>8. ASSUME AssignOrganisation(p)  PROVE MigrationInv'
  <2> DEFINE yes == TRUE
             orgs == db.orgs + 1
             links == db.links + 1
             new == [db EXCEPT !.orgs = orgs, !.owned = yes, !.staffed = yes, !.links = links]
  <2>1. boot[p].at = "assign" /\ db.orgs = 0 /\ GoOn(p, "extend") /\ WriteRows(p, new)
    BY <1>8, StagesAre DEF AssignOrganisation
  <2>2. orgs \in 0..2 /\ links \in 0..2 /\ orgs <= 1 /\ links <= orgs /\ yes \in BOOLEAN /\ yes
    BY <1>1, <2>1 DEF Upgraded, Store
  <2>3. (db.closed => db.exited) /\ db.email
    BY <1>0, <1>1, <2>1 DEF Prepared
  <2> HIDE DEF yes, orgs, links
  <2>4. new \in Store
    BY <1>1, <2>2 DEF Store
  <2>5. /\ new.closed = db.closed /\ new.exited = db.exited /\ new.owned = yes
        /\ new.kept = db.kept /\ new.extended_marker = db.extended_marker
        /\ new.cnmr_marker = db.cnmr_marker /\ new.unfiled = db.unfiled
        /\ new.orgs = orgs /\ new.links = links /\ new.email = db.email /\ new.staffed = yes
    BY <1>1 DEF Store
  <2> HIDE DEF new
  <2>6. Upgraded(new) /\ Grown(db, new) /\ Prepared("extend", new)
    BY <1>1, <1>3, <2>2, <2>3, <2>5 DEF Upgraded, Grown
  <2> QED  BY <1>2, <2>1, <2>4, <2>6, StageReached
<1>9. ASSUME _run_retention_extension_once(p)  PROVE MigrationInv'
  <2> DEFINE yes == TRUE
             mid == Extended(db)
             new == [mid EXCEPT !.extended_marker = yes]
             ruled == "ruled"
  <2>1. boot[p].at = "extend" /\ GoOn(p, "finalise") /\ (Stays \/ WriteRows(p, new))
    BY <1>9, StagesAre DEF _run_retention_extension_once
  <2>2. db.owned /\ (db.closed => db.exited) /\ db.email /\ yes \in BOOLEAN /\ ruled \in {"ruled"}
    BY <1>0, <1>1, <2>1 DEF Prepared
  <2>3. mid = [db EXCEPT !.kept = ruled]
    BY <2>2 DEF Extended
  <2> HIDE DEF yes, mid, ruled
  <2>4. mid \in Store /\ mid.owned = db.owned /\ mid.closed = db.closed /\ mid.exited = db.exited
        /\ mid.kept = ruled /\ mid.cnmr_marker = db.cnmr_marker /\ mid.unfiled = db.unfiled
        /\ mid.orgs = db.orgs /\ mid.links = db.links
        /\ mid.email = db.email /\ mid.staffed = db.staffed /\ mid.twice = db.twice
    BY <1>1, <2>2, <2>3 DEF Store
  <2>5. new \in Store /\ new.owned = mid.owned /\ new.closed = mid.closed /\ new.exited = mid.exited
        /\ new.kept = mid.kept /\ new.cnmr_marker = mid.cnmr_marker /\ new.unfiled = mid.unfiled
        /\ new.orgs = mid.orgs /\ new.links = mid.links
        /\ new.email = mid.email /\ new.staffed = mid.staffed /\ new.twice = mid.twice
    BY <2>2, <2>4 DEF Store
  <2> HIDE DEF new
  <2>6. Upgraded(new) /\ Grown(db, new) /\ Prepared("finalise", new) /\ Prepared("finalise", db)
    BY <1>1, <1>3, <2>2, <2>4, <2>5 DEF Upgraded, Grown
  <2> QED  BY <1>2, <2>1, <2>5, <2>6, StageReached, StagePassed
<1>10. ASSUME _run_finalise_legacy_cnmr_drafts_once(p)  PROVE MigrationInv'
  <2> DEFINE yes == TRUE  no == FALSE
             new == [db EXCEPT !.cnmr_marker = yes, !.unfiled = no]
  <2>1. boot[p].at = "finalise" /\ GoOn(p, "commit") /\ (Stays \/ WriteRows(p, new))
    BY <1>10, StagesAre DEF _run_finalise_legacy_cnmr_drafts_once
  <2>2. yes \in BOOLEAN /\ no \in BOOLEAN /\ ~no /\ db.owned /\ (db.closed => db.exited) /\ db.email
    BY <1>0, <1>1, <2>1 DEF Prepared
  <2> HIDE DEF yes, no
  <2>3. new \in Store /\ new.owned = db.owned /\ new.closed = db.closed /\ new.exited = db.exited
        /\ new.kept = db.kept /\ new.extended_marker = db.extended_marker /\ new.unfiled = no
        /\ new.orgs = db.orgs /\ new.links = db.links
        /\ new.email = db.email /\ new.staffed = db.staffed /\ new.twice = db.twice
    BY <1>1, <2>2 DEF Store
  <2> HIDE DEF new
  <2>4. Upgraded(new) /\ Grown(db, new) /\ Prepared("commit", new) /\ Prepared("commit", db)
    BY <1>1, <1>3, <2>2, <2>3 DEF Upgraded, Grown
  <2> QED  BY <1>2, <2>1, <2>3, <2>4, StageReached, StagePassed
<1>11. ASSUME CommitAll(p)  PROVE MigrationInv'
  <2>1. GoOn(p, "up") /\ Commit(p)
    BY <1>11 DEF CommitAll
  <2>2. writer \subseteq {p} \/ p \notin writer
    BY DEF MigrationInv
  <2>3. p \notin writer => Stays
    BY <2>1 DEF Commit, View, Stays
  <2> QED  BY <1>2, <1>3, <2>1, <2>2, <2>3, StagePassed
<1> QED  BY <1>4, <1>5, <1>6, <1>7, <1>8, <1>9, <1>10, <1>11, Zenon

LEMMA DownOK == Down \in BootRow /\ Down.at = "down"
<1> DEFINE no == FALSE
           row == [at |-> "down", unverified |-> no, died |-> no]
<1>1. Down = row /\ no \in BOOLEAN
  BY DEF Down
<1> HIDE DEF no
<1>2. row \in BootRow /\ row.at = "down"
  BY <1>1 DEF BootRow, BootStages
<1> QED  BY <1>1, <1>2

\* A crash loses what the process has not committed, and nothing else.
LEMMA DiesOK ==
    ASSUME MigrationInv, NEW p \in Starters, Dies(p)
    PROVE  MigrationInv'
<1> DEFINE died == boot[p].died \/ Owes(boot[p])
           row == [Down EXCEPT !.died = died]
<1>1. boot' = [boot EXCEPT ![p] = row]
  BY Zenon DEF Dies
<1>2. died \in BOOLEAN /\ writer' = writer \ {p} /\ UNCHANGED <<store, draft>>
  BY ViewOK DEF BootRow, Owes, Dies
<1> HIDE DEF died
<1>3. row \in BootRow /\ row.at = "down"
  BY <1>2, DownOK DEF BootRow
<1> HIDE DEF row
<1>4. /\ boot' \in [Starters -> BootRow] /\ boot'[p].at = "down"
      /\ \A q \in Starters \ {p} : boot'[q] = boot[q]
  BY <1>1, <1>3 DEF MigrationInv
<1> DEFINE Seen(q) == IF q \in writer' THEN draft' ELSE store'
<1>5. ASSUME NEW q \in Starters  PROVE Prepared(boot'[q].at, Seen(q))
  <2>1. CASE q = p
    BY <1>4, <2>1 DEF Prepared, Unbuilt
  <2>2. CASE q # p
    <3>1. boot'[q] = boot[q] /\ Seen(q) = View(q) /\ Prepared(boot[q].at, View(q))
      BY <1>2, <1>4, <2>2 DEF View, MigrationInv
    <3> QED  BY <3>1
  <2> QED  BY <2>1, <2>2
<1> QED  BY <1>2, <1>4, <1>5 DEF MigrationInv, View, Upgraded, Grown, Prepared

LEMMA MigrationInitOK ==
    MigrationInit => MigrationInv /\ (store.email_verified_at => store.verified)
<1> SUFFICES ASSUME MigrationInit
             PROVE  MigrationInv /\ (store.email_verified_at => store.verified)
  OBVIOUS
<1> DEFINE Old(db) == /\ db \in Store /\ ~db.extended_marker /\ ~db.cnmr_marker
                      /\ db.orgs \in {0, 1} /\ db.links = 0
                      /\ (db.owned => db.email /\ db.staffed)
                      /\ (db.email_verified_at => db.verified)
<1>1. store \in Versions /\ draft = store /\ writer = {}
      /\ boot = [p \in Starters |-> Down]
  BY DEF MigrationInit
<1>2. Old(store)
  <2> DEFINE no == FALSE  yes == TRUE  one == 1
             old == [email |-> no, rebuild |-> no, org_id |-> no,
                     email_verified_at |-> no, exit_date |-> no, verified |-> no,
                     closed |-> no, exited |-> no, kept |-> "none", orgs |-> 0, owned |-> no,
                     staffed |-> no, twice |-> no, links |-> 0, unfiled |-> no, extended_marker |-> no, cnmr_marker |-> no]
             tenants == [old EXCEPT !.email = yes, !.org_id = yes, !.owned = yes,
                                    !.staffed = yes, !.orgs = one]
             verified == [tenants EXCEPT !.email_verified_at = yes, !.verified = yes]
  <2>1. store \in UNION {Aged(old), Aged(tenants), Aged(verified)}
    BY <1>1, Zenon DEF Versions
  <2>2. no \in BOOLEAN /\ yes \in BOOLEAN /\ ~no /\ yes /\ one \in {0, 1} /\ one \in 0..2
    OBVIOUS
  <2> HIDE DEF no, yes, one
  <2>3. Old(old)
    BY <2>2 DEF Store
  <2> HIDE DEF old
  <2>4. Old(tenants)
    <3>1. tenants \in Store
      BY <2>2, <2>3 DEF Store
    <3>2. /\ tenants.extended_marker = old.extended_marker /\ tenants.cnmr_marker = old.cnmr_marker
          /\ tenants.orgs = one /\ tenants.links = old.links /\ tenants.email = yes /\ tenants.staffed = yes
          /\ tenants.email_verified_at = old.email_verified_at /\ tenants.verified = old.verified
      BY <2>2, <2>3 DEF Store
    <3> HIDE DEF tenants
    <3> QED  BY <2>2, <2>3, <3>1, <3>2
  <2> HIDE DEF tenants
  <2>5. Old(verified)
    BY <2>2, <2>4 DEF Store
  <2> HIDE DEF verified
  <2>6. ASSUME NEW v, Old(v), NEW db \in Aged(v)  PROVE Old(db)
    <3> DEFINE Past == [closed : BOOLEAN, kept : {"none", "shorter"}, unfiled : {FALSE, v.owned}]
    <3>1. PICK past \in Past :
              db = [v EXCEPT !.closed = past.closed, !.kept = past.kept, !.unfiled = past.unfiled]
      BY <2>6 DEF Aged
    <3>2. past.closed \in BOOLEAN /\ past.kept \in {"none", "shorter", "ruled"} /\ past.unfiled \in BOOLEAN
      BY <2>6 DEF Store
    <3> HIDE DEF Past
    <3> QED  BY <2>6, <3>1, <3>2 DEF Store
  <2> HIDE DEF Old
  <2> QED  BY <2>1, <2>3, <2>4, <2>5, <2>6
<1>3. Upgraded(store)
  BY <1>2 DEF Upgraded
<1>4. boot \in [Starters -> BootRow] /\ \A p \in Starters : boot[p].at = "down"
  BY <1>1, DownOK
<1> QED  BY <1>1, <1>2, <1>3, <1>4 DEF MigrationInv, Prepared, Unbuilt

LEMMA MigrationStepOK == MigrationInv /\ [MigrationNext]_migrationVars => MigrationInv'
<1> SUFFICES ASSUME MigrationInv, [MigrationNext]_migrationVars  PROVE MigrationInv'
  OBVIOUS
<1>1. CASE UNCHANGED migrationVars
  BY <1>1 DEF migrationVars, MigrationInv, View, Upgraded, Grown, Prepared
<1>2. ASSUME NEW p \in Starters, MigrationStep(p)  PROVE MigrationInv'
  BY <1>2, SchemaStages, RowStages, DiesOK, Zenon DEF MigrationStep
<1> QED  BY <1>1, <1>2 DEF MigrationNext

\* The column of verified addresses is filled, is being filled by a process that
\* remembers that it was missing, or a process died over it.
Pending == \E p \in Starters : Owes(boot[p]) \/ boot[p].died
Backfilled(db) == db.email_verified_at => db.verified \/ Pending

\* What a process that has got as far as a stage sees of the column.
WithColumn == {"exit column", "alter exit", "email", "fill", "fatf", "tenancy", "assign", "extend",
               "finalise", "commit"}
ColumnKnown(row, db) ==
    /\ row.at \in WithColumn => db.email_verified_at
    /\ row.at \in {"verify column", "alter verify"} => db.email_verified_at \/ row.unverified
    /\ row.at \in {"fill", "fatf"} /\ row.unverified => db.verified
FilledByWriter(p) == boot[p].at \in {"fill", "fatf"} /\ boot[p].unverified => p \in writer

BackfillInv ==
    /\ Backfilled(store) /\ (writer # {} => Backfilled(draft))
    /\ \A p \in Starters : ColumnKnown(boot[p], View(p)) /\ FilledByWriter(p)

\* A step neither forgets a column to be filled nor shows one to others that is not
\* filled and that nobody owes.
LEMMA BackfillStep ==
    ASSUME MigrationInv, BackfillInv, NEW p \in Starters, NEW new,
           \/ WriteSchema(p, new) /\ (View(p).email_verified_at => new.email_verified_at)
                                  /\ (View(p).verified => new.verified)
           \/ WriteRows(p, new)
           \/ new = View(p) /\ Stays
           \/ new = View(p) /\ Commit(p) /\ new.email_verified_at,
           NEW row \in BootRow, boot' = [boot EXCEPT ![p] = row], ColumnKnown(row, new),
           row.at \in {"fill", "fatf"} /\ row.unverified => p \in writer',
           boot[p].died => row.died,
           Owes(boot[p]) => \/ Owes(row) \/ row.died
                            \/ Commit(p) /\ writer \subseteq {p} /\ new.verified,
           new.email_verified_at /\ ~new.verified =>
               Owes(row) \/ row.died \/ (View(p).email_verified_at /\ ~View(p).verified)
    PROVE  BackfillInv'
<1>1. /\ boot'[p] = row /\ \A q \in Starters \ {p} : boot'[q] = boot[q]
      /\ \A q, u \in writer : q = u
  BY DEF MigrationInv
<1>2. /\ Backfilled(store) /\ (writer # {} => Backfilled(draft)) /\ Backfilled(View(p))
      /\ \A q \in Starters : ColumnKnown(boot[q], View(q)) /\ FilledByWriter(q)
  BY DEF BackfillInv, View
<1> DEFINE Seen(q) == IF q \in writer' THEN draft' ELSE store'
           Settled == Commit(p) /\ writer \subseteq {p} /\ new.verified
\* Whoever was pending still is, or its work has just been committed.
<1>3. Pending /\ ~Settled => Pending'
  <2> SUFFICES ASSUME Pending, ~Settled  PROVE Pending'
    OBVIOUS
  <2>1. PICK q \in Starters : Owes(boot[q]) \/ boot[q].died
    BY DEF Pending
  <2>2. Owes(boot'[q]) \/ boot'[q].died
    BY <1>1, <2>1
  <2> QED  BY <2>2 DEF Pending, Owes
<1>4. Owes(row) \/ row.died => Pending'
  BY <1>1 DEF Pending, Owes
<1>5. ~Settled => (new.email_verified_at => new.verified \/ Pending')
  BY <1>2, <1>3, <1>4 DEF Backfilled
<1>6. ASSUME ~Settled, NEW db, Backfilled(db)
      PROVE  db.email_verified_at => db.verified \/ Pending'
  BY <1>3, <1>6 DEF Backfilled
<1> DEFINE Kept(db) == db.email_verified_at => db.verified \/ Pending'
           ByWriter(q) == boot'[q].at \in {"fill", "fatf"} /\ boot'[q].unverified => q \in writer'
           Fine == /\ Kept(store') /\ (writer' # {} => Kept(draft'))
                   /\ \A q \in Starters : ColumnKnown(boot'[q], Seen(q)) /\ ByWriter(q)
<1>7. ASSUME WriteRows(p, new)  PROVE Fine
  <2>1. /\ store' = store /\ draft' = new /\ writer' = {p} /\ writer \subseteq {p}
        /\ \A q \in Starters \ {p} : View(q) = store /\ Seen(q) = store
        /\ Seen(p) = new
    BY <1>7 DEF WriteRows, View
  <2>2. Kept(store') /\ Kept(draft')
    <3>1. ~Settled
      BY <1>7 DEF WriteRows, Commit
    <3> QED  BY <1>2, <1>5, <1>6, <2>1, <3>1
  <2>3. ASSUME NEW q \in Starters  PROVE ColumnKnown(boot'[q], Seen(q)) /\ ByWriter(q)
    BY <1>1, <1>2, <2>1 DEF FilledByWriter
  <2> QED  BY <2>2, <2>3
<1>8. ASSUME WriteSchema(p, new), View(p).email_verified_at => new.email_verified_at,
             View(p).verified => new.verified
      PROVE  Fine
  <2>1. writer' = writer /\ (Settled => writer = {})
    BY <1>8 DEF WriteSchema, Commit
  <2>2. CASE p \in writer
    <3>1. /\ store' = store /\ draft' = new /\ ~Settled
          /\ \A q \in Starters \ {p} : View(q) = store /\ Seen(q) = store
          /\ Seen(p) = new
      BY <1>1, <1>8, <2>1, <2>2 DEF WriteSchema, View
    <3>2. Kept(store') /\ Kept(draft')
      BY <1>2, <1>5, <1>6, <3>1
    <3> QED  BY <1>1, <1>2, <2>1, <3>1, <3>2 DEF FilledByWriter
  <2>3. CASE p \notin writer
    <3>1. /\ store' = new /\ writer = {} /\ View(p) = store
          /\ \A q \in Starters : View(q) = store /\ Seen(q) = new
      BY <1>8, <2>1, <2>3 DEF WriteSchema, View
    <3>2. Kept(store')
      BY <1>5, <3>1
    <3>3. ASSUME NEW q \in Starters  PROVE ColumnKnown(boot'[q], Seen(q)) /\ ByWriter(q)
      BY <1>1, <1>2, <1>8, <2>1, <3>1 DEF ColumnKnown, FilledByWriter
    <3> QED  BY <2>1, <3>1, <3>2, <3>3
  <2> QED  BY <2>2, <2>3
<1>9. ASSUME new = View(p), Stays  PROVE Fine
  <2>1. store' = store /\ draft' = draft /\ writer' = writer /\ \A q \in Starters : Seen(q) = View(q)
    BY <1>9 DEF Stays, View
  <2>2. CASE Settled
    <3>1. writer = {} /\ store = new
      BY <1>9, <2>1, <2>2 DEF Commit, View
    <3>2. Kept(store')
      BY <2>1, <2>2, <3>1
    <3> QED  BY <1>1, <1>2, <1>9, <2>1, <3>1, <3>2 DEF FilledByWriter
  <2>3. CASE ~Settled
    <3>1. Kept(store') /\ (writer' # {} => Kept(draft'))
      BY <1>2, <1>6, <2>1, <2>3
    <3> QED  BY <1>1, <1>2, <1>9, <2>1, <3>1 DEF FilledByWriter
  <2> QED  BY <2>2, <2>3
<1>10. ASSUME new = View(p), Commit(p), new.email_verified_at  PROVE Fine
  <2>1. store' = new /\ draft' = draft /\ writer' = writer \ {p} /\ Seen(p) = new
    BY <1>10 DEF Commit, View
  <2>2. CASE writer \subseteq {p}
    <3>1. /\ writer' = {}
          /\ \A q \in Starters \ {p} : View(q) = store /\ Seen(q) = new /\ q \notin writer
      BY <2>1, <2>2 DEF View
    <3>2. Kept(store')
      BY <1>5, <2>1
    <3>3. ASSUME NEW q \in Starters \ {p}  PROVE ColumnKnown(boot'[q], Seen(q)) /\ ByWriter(q)
      <4>1. ~(boot[q].at \in {"fill", "fatf"} /\ boot[q].unverified)
        BY <1>2, <3>1 DEF FilledByWriter
      <4> QED  BY <1>1, <1>10, <3>1, <4>1 DEF ColumnKnown
    <3> QED  BY <1>1, <2>1, <3>1, <3>2, <3>3
  <2>3. CASE ~(writer \subseteq {p})
    <3>1. p \notin writer /\ new = store /\ ~Settled
      BY <1>1, <1>10, <2>3 DEF View
    <3>2. store' = store /\ writer' = writer /\ \A q \in Starters : Seen(q) = View(q)
      BY <2>1, <3>1 DEF View
    <3>3. Kept(store') /\ (writer' # {} => Kept(draft'))
      BY <1>2, <1>6, <2>1, <3>1, <3>2
    <3> QED  BY <1>1, <1>2, <1>10, <3>2, <3>3 DEF FilledByWriter
  <2> QED  BY <2>2, <2>3
<1>11. Fine
  BY <1>7, <1>8, <1>9, <1>10
<1>12. Backfilled(store)' /\ (writer' # {} => Backfilled(draft)')
  BY <1>11 DEF Backfilled
<1>13. ASSUME NEW q \in Starters  PROVE ColumnKnown(boot[q], View(q))' /\ FilledByWriter(q)'
  BY <1>11 DEF ColumnKnown, FilledByWriter, View
<1> QED  BY <1>12, <1>13 DEF BackfillInv

LEMMA BackfillGoesOn ==
    ASSUME MigrationInv, BackfillInv, NEW p \in Starters, NEW stage \in BootStages, GoOn(p, stage),
           NEW new,
           \/ WriteSchema(p, new) /\ (View(p).email_verified_at => new.email_verified_at)
                                  /\ (View(p).verified => new.verified)
           \/ WriteRows(p, new)
           \/ new = View(p) /\ Stays
           \/ new = View(p) /\ Commit(p) /\ new.email_verified_at,
           stage \in WithColumn => new.email_verified_at,
           stage \in {"verify column", "alter verify"} => new.email_verified_at \/ boot[p].unverified,
           stage \in {"fill", "fatf"} /\ boot[p].unverified => new.verified /\ p \in writer',
           Owes(boot[p]) => \/ stage \in {"exit column", "alter exit", "email", "fill", "fatf"}
                            \/ Commit(p) /\ writer \subseteq {p} /\ new.verified,
           new.email_verified_at /\ ~new.verified =>
               \/ boot[p].unverified /\ stage \in {"exit column", "alter exit", "email", "fill", "fatf"}
               \/ View(p).email_verified_at /\ ~View(p).verified
    PROVE  BackfillInv'
<1> DEFINE row == [boot[p] EXCEPT !.at = stage]
<1>1. /\ row \in BootRow /\ row.at = stage /\ row.died = boot[p].died
      /\ row.unverified = boot[p].unverified
  BY ViewOK DEF BootRow
<1>2. boot' = [boot EXCEPT ![p] = row]
  BY DEF GoOn, MigrationInv
<1> HIDE DEF row
<1>3. ColumnKnown(row, new)
  BY <1>1 DEF ColumnKnown
<1>4. Owes(boot[p]) => Owes(row) \/ (Commit(p) /\ writer \subseteq {p} /\ new.verified)
  BY <1>1 DEF Owes
<1>5. new.email_verified_at /\ ~new.verified =>
          Owes(row) \/ (View(p).email_verified_at /\ ~View(p).verified)
  BY <1>1 DEF Owes
<1> QED  BY <1>1, <1>2, <1>3, <1>4, <1>5, BackfillStep

\* A pass that does not touch the column and that nothing is owed in.
LEMMA BackfillAside ==
    ASSUME MigrationInv, BackfillInv, NEW p \in Starters, NEW stage \in BootStages, GoOn(p, stage),
           NEW new, WriteSchema(p, new) \/ WriteRows(p, new) \/ (new = View(p) /\ Stays),
           new.email_verified_at = View(p).email_verified_at, new.verified = View(p).verified,
           stage \in WithColumn => boot[p].at \in WithColumn,
           stage \notin {"verify column", "alter verify", "fill", "fatf"},
           boot[p].at \in {"exit column", "alter exit", "email", "fill", "fatf"} =>
               stage \in {"exit column", "alter exit", "email", "fill", "fatf"}
    PROVE  BackfillInv'
<1>1. ColumnKnown(boot[p], View(p))
  BY DEF BackfillInv
<1>2. stage \in WithColumn => new.email_verified_at
  BY <1>1 DEF ColumnKnown
<1>3. Owes(boot[p]) => stage \in {"exit column", "alter exit", "email", "fill", "fatf"}
  BY DEF Owes
<1> QED  BY <1>2, <1>3, BackfillGoesOn

LEMMA BackfillInitOK == MigrationInit => BackfillInv
<1> SUFFICES ASSUME MigrationInit  PROVE BackfillInv
  OBVIOUS
<1>1. /\ store.email_verified_at => store.verified
      /\ writer = {} /\ \A p \in Starters : boot[p].at = "down"
  BY MigrationInitOK, DownOK DEF MigrationInit
<1>2. Backfilled(store)
  BY <1>1 DEF Backfilled
<1> QED  BY <1>1, <1>2 DEF BackfillInv, ColumnKnown, FilledByWriter, WithColumn

LEMMA BackfillSchemaStages ==
    ASSUME MigrationInv, BackfillInv, NEW p \in Starters,
           \/ connect(p) \/ ReadOperators(p) \/ CreateOperatorsNew(p) \/ CopyOperators(p)
           \/ _migrate_customers_table(p) \/ RememberColumns(p) \/ ReadColumn(p) \/ _migrate(p)
    PROVE  BackfillInv'
<1> DEFINE db == View(p)
<1>1. db \in Store /\ boot[p] \in BootRow /\ ColumnKnown(boot[p], db)
  BY ViewOK DEF BackfillInv
<1>2. /\ "operators" \in BootStages /\ "create" \in BootStages /\ "copy" \in BootStages
      /\ "customers" \in BootStages /\ "before" \in BootStages /\ "verify column" \in BootStages
      /\ "alter verify" \in BootStages /\ "exit column" \in BootStages
      /\ "alter exit" \in BootStages /\ "email" \in BootStages
  BY DEF BootStages
\* Before the columns are looked at.
<1>3. ASSUME NEW stage \in {"operators", "create", "copy", "customers", "before"}, GoOn(p, stage),
             boot[p].at \in {"down", "up", "operators", "create", "copy", "customers"},
             NEW new, WriteSchema(p, new) \/ WriteRows(p, new) \/ (new = View(p) /\ Stays),
             new.email_verified_at = db.email_verified_at, new.verified = db.verified
      PROVE  BackfillInv'
  BY <1>2, <1>3, BackfillAside DEF WithColumn
<1>4. ASSUME connect(p) \/ ReadOperators(p)  PROVE BackfillInv'
  <2> DEFINE stage == IF db.email THEN "customers" ELSE "create"
  <2>1. /\ GoOn(p, "operators") \/ GoOn(p, stage)
        /\ Stays /\ boot[p].at \in {"down", "up", "operators"}
    BY <1>4 DEF connect, ReadOperators
  <2>2. stage \in {"create", "customers"}
    OBVIOUS
  <2> HIDE DEF stage
  <2> QED  BY <1>3, <2>1, <2>2
<1>5. ASSUME CreateOperatorsNew(p)  PROVE BackfillInv'
  <2> DEFINE yes == TRUE
             new == [db EXCEPT !.rebuild = yes]
  <2>1. GoOn(p, "copy") /\ WriteSchema(p, new) /\ boot[p].at = "create"
    BY <1>5 DEF CreateOperatorsNew
  <2> HIDE DEF yes
  <2>2. new.email_verified_at = db.email_verified_at /\ new.verified = db.verified
    BY <1>1 DEF Store
  <2> HIDE DEF new
  <2> QED  BY <1>3, <2>1, <2>2
<1>6. ASSUME CopyOperators(p)  PROVE BackfillInv'
  <2> DEFINE yes == TRUE  no == FALSE
             twice == db.twice \/ db.email
             new == [db EXCEPT !.rebuild = no, !.email = yes, !.twice = twice,
                               !.staffed = no, !.email_verified_at = no, !.verified = no]
  <2>1. GoOn(p, "customers") /\ WriteRows(p, new) /\ boot[p].at = "copy" /\ ~no
    BY <1>6 DEF CopyOperators
  <2> HIDE DEF yes, no, twice
  <2>2. new.email_verified_at = no
    BY <1>1 DEF Store
  <2> HIDE DEF new
  <2> QED  BY <1>2, <2>1, <2>2, BackfillGoesOn DEF WithColumn, Owes
<1>7. ASSUME _migrate_customers_table(p)  PROVE BackfillInv'
  <2> DEFINE yes == TRUE  no == FALSE
             new == [db EXCEPT !.org_id = yes, !.exit_date = no]
  <2>1. GoOn(p, "before") /\ (Stays \/ WriteRows(p, new)) /\ boot[p].at = "customers"
    BY <1>7 DEF _migrate_customers_table
  <2> HIDE DEF yes, no
  <2>2. new.email_verified_at = db.email_verified_at /\ new.verified = db.verified
    BY <1>1 DEF Store
  <2> HIDE DEF new
  <2> QED  BY <1>3, <2>1, <2>2
<1>8. ASSUME RememberColumns(p)  PROVE BackfillInv'
  <2> DEFINE unverified == ~db.email_verified_at
             row == [boot[p] EXCEPT !.at = "verify column", !.unverified = unverified]
  <2>1. boot' = [boot EXCEPT ![p] = row] /\ Stays /\ boot[p].at = "before"
    BY <1>8 DEF RememberColumns, MigrationInv
  <2>2. unverified \in BOOLEAN /\ (db.email_verified_at \/ unverified)
    OBVIOUS
  <2> HIDE DEF unverified
  <2>3. /\ row \in BootRow /\ row.at = "verify column" /\ row.unverified = unverified
        /\ row.died = boot[p].died
    BY <1>1, <1>2, <2>2 DEF BootRow
  <2> HIDE DEF row
  <2>4. ColumnKnown(row, db) /\ ~Owes(boot[p])
    BY <2>1, <2>2, <2>3 DEF ColumnKnown, WithColumn, Owes
  <2> QED  BY <2>1, <2>3, <2>4, BackfillStep
<1>9. ASSUME ReadColumn(p)  PROVE BackfillInv'
  <2>1. CASE boot[p].at = "verify column"
    <3>1. /\ Stays /\ ~Owes(boot[p]) /\ (db.email_verified_at \/ boot[p].unverified)
          /\ IF db.email_verified_at THEN GoOn(p, "exit column") ELSE GoOn(p, "alter verify")
      BY <1>1, <1>9, <2>1 DEF ReadColumn, Owes, ColumnKnown
    <3> QED  BY <1>2, <3>1, BackfillGoesOn DEF WithColumn
  <2>2. CASE boot[p].at = "exit column"
    <3>1. Stays /\ (GoOn(p, "email") \/ GoOn(p, "alter exit"))
      BY <1>9, <2>2 DEF ReadColumn
    <3> QED  BY <1>2, <2>2, <3>1, BackfillAside DEF WithColumn
  <2> QED  BY <1>9, <2>1, <2>2 DEF ReadColumn
<1>10. ASSUME _migrate(p)  PROVE BackfillInv'
  <2> DEFINE yes == TRUE
             first == [db EXCEPT !.email_verified_at = yes]
             second == [db EXCEPT !.exit_date = yes]
  <2>1. /\ yes
        /\ \/ /\ boot[p].at = "alter verify" /\ ~db.email_verified_at
              /\ GoOn(p, "exit column") /\ WriteSchema(p, first)
           \/ boot[p].at = "alter exit" /\ GoOn(p, "email") /\ WriteSchema(p, second)
    BY <1>10 DEF _migrate
  <2> HIDE DEF yes
  <2>2. /\ first.email_verified_at = yes /\ first.verified = db.verified
        /\ second.email_verified_at = db.email_verified_at /\ second.verified = db.verified
    BY <1>1 DEF Store
  <2> HIDE DEF first, second
  <2>3. ASSUME boot[p].at = "alter verify", ~db.email_verified_at,
               GoOn(p, "exit column"), WriteSchema(p, first)
        PROVE  BackfillInv'
    <3>1. boot[p].unverified /\ ~Owes(boot[p])
      BY <1>1, <2>3 DEF ColumnKnown, Owes
    <3> QED  BY <1>2, <2>1, <2>2, <2>3, <3>1, BackfillGoesOn DEF WithColumn
  <2>4. ASSUME boot[p].at = "alter exit", GoOn(p, "email"), WriteSchema(p, second)
        PROVE  BackfillInv'
    BY <1>2, <2>2, <2>4, BackfillAside DEF WithColumn
  <2> QED  BY <2>1, <2>3, <2>4
<1> QED  BY <1>4, <1>5, <1>6, <1>7, <1>8, <1>9, <1>10, Zenon

LEMMA BackfillRowStages ==
    ASSUME MigrationInv, BackfillInv, NEW p \in Starters,
           \/ _backfill_email_verified(p) \/ _backfill_retention_until(p) \/ load_fatf_data(p)
           \/ FindUnowned(p) \/ AssignOrganisation(p) \/ _run_retention_extension_once(p)
           \/ _run_finalise_legacy_cnmr_drafts_once(p) \/ CommitAll(p)
    PROVE  BackfillInv'
<1> DEFINE db == View(p)
<1>1. db \in Store /\ boot[p] \in BootRow /\ ColumnKnown(boot[p], db) /\ FilledByWriter(p)
  BY ViewOK DEF BackfillInv
<1>2. /\ "fill" \in BootStages /\ "fatf" \in BootStages /\ "tenancy" \in BootStages
      /\ "assign" \in BootStages /\ "extend" \in BootStages /\ "finalise" \in BootStages
      /\ "commit" \in BootStages /\ "up" \in BootStages
  BY DEF BootStages
<1>3. ASSUME NEW stage \in {"assign", "extend", "finalise", "commit"}, GoOn(p, stage),
             boot[p].at \in {"tenancy", "assign", "extend", "finalise"},
             NEW new, WriteRows(p, new) \/ (new = View(p) /\ Stays),
             new.email_verified_at = db.email_verified_at, new.verified = db.verified
      PROVE  BackfillInv'
  BY <1>2, <1>3, BackfillAside DEF WithColumn
<1>4. ASSUME _backfill_email_verified(p)  PROVE BackfillInv'
  <2> DEFINE yes == TRUE
             new == [db EXCEPT !.verified = yes]
  <2>1. /\ boot[p].at = "email" /\ GoOn(p, "fill") /\ yes
        /\ IF boot[p].unverified THEN WriteRows(p, new) ELSE Stays
    BY <1>4, StagesAre DEF _backfill_email_verified
  <2> HIDE DEF yes
  <2>2. new.email_verified_at = db.email_verified_at /\ new.verified = yes
    BY <1>1 DEF Store
  <2> HIDE DEF new
  <2>3. db.email_verified_at
    BY <1>1, <2>1 DEF ColumnKnown, WithColumn
  <2>4. CASE boot[p].unverified
    <3>1. WriteRows(p, new) /\ p \in writer'
      BY <2>1, <2>4 DEF WriteRows
    <3> QED  BY <1>2, <2>1, <2>2, <2>3, <3>1, BackfillGoesOn
  <2>5. CASE ~boot[p].unverified
    BY <1>2, <2>1, <2>3, <2>5, BackfillGoesOn DEF Owes
  <2> QED  BY <2>4, <2>5
<1>5. ASSUME _backfill_retention_until(p)  PROVE BackfillInv'
  <2> DEFINE kept == IF db.kept = "none" THEN "ruled" ELSE db.kept
             exited == db.closed
             new == [db EXCEPT !.kept = kept, !.exited = exited]
  <2>1. boot[p].at = "fill" /\ GoOn(p, "fatf") /\ WriteRows(p, new) /\ p \in writer'
    BY <1>5, StagesAre DEF _backfill_retention_until, WriteRows
  <2> HIDE DEF kept, exited
  <2>2. new.email_verified_at = db.email_verified_at /\ new.verified = db.verified
    BY <1>1 DEF Store
  <2> HIDE DEF new
  <2>3. db.email_verified_at /\ (boot[p].unverified => db.verified)
    BY <1>1, <2>1 DEF ColumnKnown, WithColumn
  <2> QED  BY <1>2, <2>1, <2>2, <2>3, BackfillGoesOn
<1>6. ASSUME load_fatf_data(p)  PROVE BackfillInv'
  <2>1. boot[p].at = "fatf" /\ GoOn(p, "tenancy") /\ writer \subseteq {p} /\ Commit(p)
    BY <1>6, StagesAre DEF load_fatf_data
  <2>2. db.email_verified_at /\ (boot[p].unverified => db.verified)
    BY <1>1, <2>1 DEF ColumnKnown, WithColumn
  <2>3. Owes(boot[p]) => db.verified
    BY <2>2 DEF Owes
  <2> QED  BY <1>2, <2>1, <2>2, <2>3, BackfillGoesOn
<1>7. ASSUME FindUnowned(p)  PROVE BackfillInv'
  <2>1. /\ boot[p].at = "tenancy" /\ Stays
        /\ IF db.owned THEN GoOn(p, "extend") ELSE GoOn(p, "assign")
    BY <1>7, StagesAre DEF FindUnowned
  <2> QED  BY <1>3, <2>1
<1>8. ASSUME AssignOrganisation(p)  PROVE BackfillInv'
  <2> DEFINE yes == TRUE
             orgs == db.orgs + 1
             links == db.links + 1
             new == [db EXCEPT !.orgs = orgs, !.owned = yes, !.staffed = yes, !.links = links]
  <2>1. boot[p].at = "assign" /\ GoOn(p, "extend") /\ WriteRows(p, new)
    BY <1>8, StagesAre DEF AssignOrganisation
  <2> HIDE DEF yes, orgs, links
  <2>2. new.email_verified_at = db.email_verified_at /\ new.verified = db.verified
    BY <1>1 DEF Store
  <2> HIDE DEF new
  <2> QED  BY <1>3, <2>1, <2>2
<1>9. ASSUME _run_retention_extension_once(p)  PROVE BackfillInv'
  <2> DEFINE yes == TRUE
             mid == Extended(db)
             new == [mid EXCEPT !.extended_marker = yes]
             ruled == "ruled"
  <2>1. boot[p].at = "extend" /\ GoOn(p, "finalise") /\ (Stays \/ WriteRows(p, new))
    BY <1>9, StagesAre DEF _run_retention_extension_once
  <2>2. mid = db \/ mid = [db EXCEPT !.kept = ruled]
    BY DEF Extended
  <2> HIDE DEF yes, mid, ruled
  <2>3. /\ mid.email_verified_at = db.email_verified_at /\ mid.verified = db.verified
        /\ DOMAIN mid = DOMAIN db
    BY <1>1, <2>2 DEF Store
  <2>4. new.email_verified_at = mid.email_verified_at /\ new.verified = mid.verified
    BY <1>1, <2>3 DEF Store
  <2> HIDE DEF new
  <2> QED  BY <1>3, <2>1, <2>3, <2>4
<1>10. ASSUME _run_finalise_legacy_cnmr_drafts_once(p)  PROVE BackfillInv'
  <2> DEFINE yes == TRUE  no == FALSE
             new == [db EXCEPT !.cnmr_marker = yes, !.unfiled = no]
  <2>1. boot[p].at = "finalise" /\ GoOn(p, "commit") /\ (Stays \/ WriteRows(p, new))
    BY <1>10, StagesAre DEF _run_finalise_legacy_cnmr_drafts_once
  <2> HIDE DEF yes, no
  <2>2. new.email_verified_at = db.email_verified_at /\ new.verified = db.verified
    BY <1>1 DEF Store
  <2> HIDE DEF new
  <2> QED  BY <1>3, <2>1, <2>2
<1>11. ASSUME CommitAll(p)  PROVE BackfillInv'
  <2>1. boot[p].at = "commit" /\ GoOn(p, "up") /\ Commit(p)
    BY <1>11 DEF CommitAll
  <2>2. db.email_verified_at /\ ~Owes(boot[p])
    BY <1>1, <2>1 DEF ColumnKnown, WithColumn, Owes
  <2> QED  BY <1>2, <2>1, <2>2, BackfillGoesOn DEF WithColumn
<1> QED  BY <1>4, <1>5, <1>6, <1>7, <1>8, <1>9, <1>10, <1>11, Zenon

\* A death is remembered where it leaves the column empty.
LEMMA BackfillDies ==
    ASSUME MigrationInv, BackfillInv, NEW p \in Starters, Dies(p)
    PROVE  BackfillInv'
<1> DEFINE died == boot[p].died \/ Owes(boot[p])
           row == [Down EXCEPT !.died = died]
<1>1. boot' = [boot EXCEPT ![p] = row]
  BY Zenon DEF Dies
<1>2. died \in BOOLEAN /\ (boot[p].died \/ Owes(boot[p]) => died)
      /\ writer' = writer \ {p} /\ UNCHANGED <<store, draft>>
  BY ViewOK DEF BootRow, Owes, Dies
<1> HIDE DEF died
<1>3. row.at = "down" /\ row.died = died
  BY <1>2, DownOK DEF BootRow
<1> HIDE DEF row
<1>4. boot'[p] = row /\ \A q \in Starters \ {p} : boot'[q] = boot[q]
  BY <1>1 DEF MigrationInv
<1>5. Pending => Pending'
  <2> SUFFICES ASSUME Pending  PROVE Pending'
    OBVIOUS
  <2>1. PICK q \in Starters : Owes(boot[q]) \/ boot[q].died
    BY DEF Pending
  <2>2. Owes(boot'[q]) \/ boot'[q].died
    BY <1>2, <1>3, <1>4, <2>1
  <2> QED  BY <2>2 DEF Pending, Owes
<1>6. Backfilled(store)' /\ (writer' # {} => Backfilled(draft)')
  BY <1>2, <1>5 DEF Backfilled, BackfillInv
<1>7. ASSUME NEW q \in Starters  PROVE ColumnKnown(boot[q], View(q))' /\ FilledByWriter(q)'
  <2>1. CASE q = p
    BY <1>3, <1>4, <2>1 DEF ColumnKnown, FilledByWriter, WithColumn
  <2>2. CASE q # p
    BY <1>2, <1>4, <2>2 DEF BackfillInv, ColumnKnown, FilledByWriter, View
  <2> QED  BY <2>1, <2>2
<1> QED  BY <1>6, <1>7 DEF BackfillInv

LEMMA BackfillStepOK == MigrationInv /\ BackfillInv /\ [MigrationNext]_migrationVars => BackfillInv'
<1> SUFFICES ASSUME MigrationInv, BackfillInv, [MigrationNext]_migrationVars  PROVE BackfillInv'
  OBVIOUS
<1>1. CASE UNCHANGED migrationVars
  BY <1>1 DEF migrationVars, BackfillInv, Backfilled, Pending, Owes, ColumnKnown, FilledByWriter, View
<1>2. ASSUME NEW p \in Starters, MigrationStep(p)  PROVE BackfillInv'
  BY <1>2, BackfillSchemaStages, BackfillRowStages, BackfillDies, Zenon DEF MigrationStep
<1> QED  BY <1>1, <1>2 DEF MigrationNext

\* However many processes open the database, fail and start again: a marker that is there
\* to be seen stands for work that is there too, save that of operators whose table was
\* rebuilt twice; the column of verified addresses is there empty only while a process
\* is about to fill it or where one died over it; and tenancy brings one organisation.
THEOREM UpgradedOnceCorrect == MigrationSpec => []UpgradedOnce
<1>1. MigrationInv /\ BackfillInv => UpgradedOnce
  BY Zenon DEF MigrationInv, BackfillInv, Backfilled, Pending, Upgraded, UpgradedOnce
<1> QED  BY <1>1, MigrationInitOK, MigrationStepOK, BackfillInitOK, BackfillStepOK, PTL DEF MigrationSpec

\* Types of the database and of the processes; one process writes at a time.
THEOREM MigrationTypeCorrect == MigrationSpec => []MigrationTypeOK
<1> DEFINE WriterOK == writer \subseteq Starters
<1>1. MigrationInit => WriterOK
  BY DEF MigrationInit
<1>2. WriterOK /\ [MigrationNext]_migrationVars => WriterOK'
  <2> SUFFICES ASSUME WriterOK, [MigrationNext]_migrationVars  PROVE WriterOK'
    OBVIOUS
  <2>1. ASSUME NEW p \in Starters, MigrationStep(p)  PROVE writer' \subseteq writer \cup {p}
    <3>1. CASE \/ connect(p) \/ ReadOperators(p) \/ RememberColumns(p) \/ ReadColumn(p) \/ FindUnowned(p)
               \/ load_fatf_data(p) \/ CommitAll(p) \/ Dies(p)
      BY <3>1 DEF connect, ReadOperators, RememberColumns, ReadColumn, FindUnowned, load_fatf_data,
                  CommitAll, Dies, Stays, Commit
    <3> DEFINE Fine == writer' \subseteq writer \cup {p}
    <3>2. (\A new : WriteSchema(p, new) \/ WriteRows(p, new) => Fine) /\ (Stays => Fine)
      BY DEF WriteSchema, WriteRows, Stays
    <3> HIDE DEF Fine
    <3>3. CASE \/ CreateOperatorsNew(p) \/ CopyOperators(p) \/ _migrate_customers_table(p) \/ _migrate(p)
               \/ _backfill_email_verified(p) \/ _backfill_retention_until(p) \/ AssignOrganisation(p)
               \/ _run_retention_extension_once(p) \/ _run_finalise_legacy_cnmr_drafts_once(p)
      <4>1. CreateOperatorsNew(p) => Fine
        BY <3>2, Zenon DEF CreateOperatorsNew
      <4>2. CopyOperators(p) => Fine
        BY <3>2, Zenon DEF CopyOperators
      <4>3. _migrate_customers_table(p) => Fine
        BY <3>2, Zenon DEF _migrate_customers_table
      <4>4. _migrate(p) => Fine
        BY <3>2, Zenon DEF _migrate
      <4>5. _backfill_email_verified(p) => Fine
        BY <3>2, Zenon DEF _backfill_email_verified
      <4>6. _backfill_retention_until(p) => Fine
        BY <3>2, Zenon DEF _backfill_retention_until
      <4>7. AssignOrganisation(p) => Fine
        BY <3>2, Zenon DEF AssignOrganisation
      <4>8. _run_retention_extension_once(p) => Fine
        BY <3>2, Zenon DEF _run_retention_extension_once
      <4>9. _run_finalise_legacy_cnmr_drafts_once(p) => Fine
        BY <3>2, Zenon DEF _run_finalise_legacy_cnmr_drafts_once
      <4> QED  BY <3>3, <4>1, <4>2, <4>3, <4>4, <4>5, <4>6, <4>7, <4>8, <4>9 DEF Fine
    <3> QED  BY <2>1, <3>1, <3>3, Zenon DEF MigrationStep
  <2>2. CASE UNCHANGED migrationVars
    BY <2>2 DEF migrationVars
  <2> QED  BY <2>1, <2>2 DEF MigrationNext
<1>3. MigrationInv /\ WriterOK => MigrationTypeOK
  <2> SUFFICES ASSUME MigrationInv, WriterOK  PROVE Cardinality(writer) <= 1
    BY DEF MigrationInv, MigrationTypeOK, BootRow
  <2>1. writer = {} \/ \E p \in writer : writer = {p}
    BY DEF MigrationInv
  <2>2. CASE writer = {}
    <3>1. Cardinality(writer) = 0
      BY <2>2, FS_EmptySet
    <3> QED  BY <3>1
  <2>3. ASSUME NEW p, writer = {p}  PROVE Cardinality(writer) <= 1
    <3>1. Cardinality({p}) = 1
      BY FS_Singleton
    <3>2. Cardinality(writer) = 1
      BY <2>3, <3>1
    <3> QED  BY <3>2
  <2> QED  BY <2>1, <2>2, <2>3
<1> QED  BY <1>1, <1>2, <1>3, MigrationInitOK, MigrationStepOK, PTL DEF MigrationSpec

-------------------------------------------------------------------------------
\* Verified identities

\* Whose data a customer's identity columns hold.
Copied(c) == {onFile[c].id_number, onFile[c].contact}

\* Between the read and the write of a callback: what was read is what there is.
ReadIsCurrent(r) ==
    r.phase = "write" =>
        /\ r.old = onFile[r.file]
        /\ IF r.reused = None THEN VerifiedFor(r.file, r.profile) = {}
           ELSE r.reused \in VerifiedFor(r.file, r.profile)

CallbackOK(r) ==
    r.phase # "idle" =>
        /\ r.file \in Files
        /\ r.phase # "exchange" => r.profile \in Profile
        /\ ReadIsCurrent(r)

\* Nothing is copied without a verification, nor onto a second file; a second verification is
\* flagged.
OnOneFile ==
    /\ \A c \in Files, p \in Holders : p \in Copied(c) => <<c, p>> \in verification
    /\ \A c, d \in Files, p \in Holders : c # d => ~(p \in Copied(c) /\ p \in Copied(d))
Flagged ==
    \A c, d \in Files, p \in Holders :
        c # d /\ <<c, p>> \in verification /\ <<d, p>> \in verification =>
            \E e \in Files : <<e, p>> \in verification /\ {<<c, e>>, <<d, e>>} \cap reuseAlert # {}

IdentityInv ==
    /\ DOMAIN onFile = Files /\ DOMAIN idreq = Slots
    /\ \A s \in Slots : CallbackOK(idreq[s])
    /\ OnOneFile /\ Flagged

\* The number of a person who has one is the person's.
LEMMA NumberOK ==
    ASSUME NEW profile
    PROVE  /\ profile.person \in Holders => idn(profile) = profile.person
           /\ idn(profile) # None => profile.person \in Holders /\ idn(profile) = profile.person
           /\ \A c : idn(profile) = None => VerifiedFor(c, profile) = {}
  BY DEF idn, VerifiedFor

\* A callback that goes on, with nothing written.
LEMMA CallbackTurns ==
    ASSUME OneRequest, IdentityInv, NEW s \in Slots, NEW r, CallbackOK(r),
           idreq' = [idreq EXCEPT ![s] = r], UNCHANGED <<onFile, verification, reuseAlert>>
    PROVE  IdentityInv'
<1>1. \A t \in Slots : idreq'[t] = r
  BY DEF OneRequest, IdentityInv
<1>2. CallbackOK(r)'
  BY DEF CallbackOK, ReadIsCurrent, VerifiedFor
<1> QED  BY <1>1, <1>2 DEF IdentityInv, OnOneFile, Flagged, Copied

LEMMA NoIdentityOK == CallbackOK(NoIdentity)
  BY DEF CallbackOK, NoIdentity

\* What is filled is the person's whom the profile names.
LEMMA FilledOK ==
    ASSUME NEW row, NEW profile, NEW converts,
           NEW p \in Holders, p # None,
           p \in {Filled(row, row, profile, converts).id_number, Filled(row, row, profile, converts).contact}
    PROVE  p \in {row.id_number, row.contact} \/ p = profile.person
<1> DEFINE contact == IF row.contact = None /\ profile.contact /\ converts THEN profile.person ELSE row.contact
           new == Filled(row, row, profile, converts)
<1>1. contact \in {row.contact, profile.person}
  OBVIOUS
<1>2. new = IF row.id_number = None /\ row.id_type = None /\ idn(profile) # None
            THEN [id_number |-> idn(profile), id_type |-> "emirates_id", contact |-> contact]
            ELSE [row EXCEPT !.contact = contact]
  BY DEF Filled
<1> HIDE DEF contact
<1>3. p = new.contact => p \in {row.contact, profile.person}
  BY <1>1, <1>2
<1>4. p = new.id_number => p \in {row.id_number, profile.person}
  BY <1>2, NumberOK
<1> QED  BY <1>3, <1>4

LEMMA VerificationRecorded ==
    ASSUME OneRequest, IdentityInv, NEW s \in Slots, NEW converts, record_uaepass_verification(s, converts)
    PROVE  IdentityInv'
<1> DEFINE r == idreq[s]
           c == r.file
           profile == r.profile
           p == profile.person
<1>1. /\ r.phase = "write" /\ c \in Files /\ r.old = onFile[c] /\ profile \in Profile
      /\ IF r.reused = None THEN VerifiedFor(c, profile) = {} ELSE r.reused \in VerifiedFor(c, profile)
  BY DEF record_uaepass_verification, IdentityInv, CallbackOK, ReadIsCurrent
<1>2. /\ verification' = verification \cup {<<c, p>>}
      /\ reuseAlert' = IF r.reused = None THEN reuseAlert ELSE reuseAlert \cup {<<c, r.reused>>}
      /\ \/ onFile' = onFile
         \/ r.reused = None /\ onFile' = [onFile EXCEPT ![c] = Filled(onFile[c], onFile[c], profile, converts)]
      /\ idreq' = [idreq EXCEPT ![s] = NoIdentity]
  BY <1>1 DEF record_uaepass_verification, IdentityEnd
<1>3. DOMAIN onFile' = Files /\ DOMAIN idreq' = Slots
  BY <1>2 DEF IdentityInv
<1>8. ASSUME NEW t \in Slots  PROVE CallbackOK(idreq[t])'
  <2>1. idreq'[t] = NoIdentity
    BY <1>2 DEF OneRequest, IdentityInv
  <2> QED  BY <2>1 DEF CallbackOK, NoIdentity
<1>4. ASSUME p \in Holders
      PROVE  /\ r.reused = None => \A d \in Files \ {c} : <<d, p>> \notin verification
             /\ r.reused # None => r.reused \in Files \ {c} /\ <<r.reused, p>> \in verification
  BY <1>1, <1>4, IdentityAssumption DEF VerifiedFor, idn, Persons_
<1>5. ASSUME NEW d \in Files, NEW q \in Holders, q \in Copied(d)'
      PROVE  q \in Copied(d) \/ (q = p /\ d = c /\ r.reused = None)
  <2>1. q # None
    BY IdentityAssumption DEF Persons_
  <2>2. CASE onFile'[d] = onFile[d]
    BY <1>5, <2>2 DEF Copied
  <2>3. CASE /\ r.reused = None /\ d = c
             /\ onFile'[d] = Filled(onFile[c], onFile[c], profile, converts)
    BY <1>5, <2>1, <2>3, FilledOK DEF Copied
  <2> QED  BY <1>1, <1>2, <2>2, <2>3 DEF IdentityInv
<1>6. OnOneFile'
  <2>1. ASSUME NEW d \in Files, NEW q \in Holders, q \in Copied(d)'  PROVE <<d, q>> \in verification'
    BY <1>2, <1>5, <2>1 DEF IdentityInv, OnOneFile
  <2>2. ASSUME NEW d \in Files, NEW e \in Files, NEW q \in Holders, d # e, q \in Copied(d)', q \in Copied(e)'
        PROVE  FALSE
    <3>1. ~(q \in Copied(d) /\ q \in Copied(e))
      BY <2>2 DEF IdentityInv, OnOneFile
    <3>2. q = p /\ r.reused = None /\ \/ d = c /\ q \in Copied(e)
                                      \/ e = c /\ q \in Copied(d)
      BY <1>5, <2>2, <3>1
    <3>3. \E f \in Files \ {c} : <<f, p>> \in verification
      BY <2>2, <3>2 DEF IdentityInv, OnOneFile
    <3> QED  BY <1>4, <3>2, <3>3
  <2> QED  BY <2>1, <2>2 DEF OnOneFile
<1>7. Flagged'
  <2> SUFFICES ASSUME NEW d \in Files, NEW e \in Files, NEW q \in Holders, d # e,
                      <<d, q>> \in verification', <<e, q>> \in verification'
               PROVE  \E f \in Files : <<f, q>> \in verification' /\ {<<d, f>>, <<e, f>>} \cap reuseAlert' # {}
    BY DEF Flagged
  <2>1. CASE <<d, q>> \in verification /\ <<e, q>> \in verification
    <3>1. PICK f \in Files : <<f, q>> \in verification /\ {<<d, f>>, <<e, f>>} \cap reuseAlert # {}
      BY <2>1 DEF IdentityInv, Flagged
    <3>2. <<f, q>> \in verification' /\ reuseAlert \subseteq reuseAlert'
      BY <1>2, <3>1
    <3> QED  BY <3>1, <3>2
  <2>2. CASE ~(<<d, q>> \in verification /\ <<e, q>> \in verification)
    <3>1. q = p /\ c \in {d, e} /\ \E f \in Files \ {c} : <<f, p>> \in verification
      BY <1>2, <2>2
    <3>2. r.reused \in Files /\ <<r.reused, p>> \in verification /\ r.reused # None
      BY <1>4, <3>1
    <3>3. <<r.reused, q>> \in verification' /\ <<c, r.reused>> \in reuseAlert'
      BY <1>2, <3>1, <3>2
    <3> QED  BY <3>1, <3>2, <3>3
  <2> QED  BY <2>1, <2>2
<1> QED  BY <1>3, <1>6, <1>7, <1>8 DEF IdentityInv

LEMMA FileRead ==
    ASSUME OneRequest, IdentityInv, NEW s \in Slots, NEW agrees, ReadFile(s, agrees)
    PROVE  IdentityInv'
<1> DEFINE r == idreq[s]
           others == VerifiedFor(r.file, r.profile)
<1>1. r.phase = "read" /\ r.file \in Files /\ r.profile \in Profile
  BY DEF ReadFile, IdentityInv, CallbackOK
<1>2. PICK other \in IF others = {} THEN {None} ELSE others :
          idreq' = [idreq EXCEPT ![s].phase = "write", ![s].old = onFile[r.file], ![s].reused = other,
                       ![s].mismatch = Mismatch(onFile[r.file], r.profile, agrees) \/ Elsewhere(r.file, r.profile)]
  BY DEF ReadFile
<1> DEFINE mismatch == Mismatch(onFile[r.file], r.profile, agrees) \/ Elsewhere(r.file, r.profile)
           new == [r EXCEPT !.phase = "write", !.old = onFile[r.file], !.reused = other, !.mismatch = mismatch]
<1>3. idreq' = [idreq EXCEPT ![s] = new]
  BY <1>2 DEF IdentityInv
<1>4. IF other = None THEN others = {} ELSE other \in others
  BY <1>2, IdentityAssumption DEF VerifiedFor
<1>5. CallbackOK(new)
  BY <1>1, <1>4 DEF CallbackOK, ReadIsCurrent
<1> HIDE DEF new
<1> QED  BY <1>3, <1>5, CallbackTurns DEF ReadFile

\* While callbacks do not overlap, whatever the customers and the persons: the file that was
\* read is the file that is written, so a number that another file was verified for is
\* flagged there and then, and is not copied.
THEOREM OneFilePerIdentityCorrect ==
    ASSUME OneRequest
    PROVE  IdentitySpec => []OneFilePerIdentity
<1>1. IdentityInit => IdentityInv
  <2> SUFFICES ASSUME IdentityInit  PROVE IdentityInv
    OBVIOUS
  <2>1. verification = {} /\ DOMAIN onFile = Files /\ DOMAIN idreq = Slots
        /\ \A s \in Slots : idreq[s] = NoIdentity
    BY DEF IdentityInit
  <2>2. \A c \in Files : Copied(c) \subseteq {None, Entry}
    BY DEF IdentityInit, Copied
  <2>3. OnOneFile
    BY <2>2, IdentityAssumption DEF OnOneFile, Persons_
  <2> QED  BY <2>1, <2>3, NoIdentityOK DEF IdentityInv, Flagged
<1>2. IdentityInv /\ [IdentityNext]_identityVars => IdentityInv'
  <2> SUFFICES ASSUME IdentityInv, [IdentityNext]_identityVars  PROVE IdentityInv'
    OBVIOUS
  <2>1. ASSUME UNCHANGED <<onFile, verification, reuseAlert, idreq>>  PROVE IdentityInv'
    <3>1. \A s \in Slots : CallbackOK(idreq[s])'
      BY <2>1 DEF IdentityInv, CallbackOK, ReadIsCurrent, VerifiedFor
    <3>2. OnOneFile'
      BY <2>1 DEF IdentityInv, OnOneFile, Copied
    <3>3. Flagged'
      BY <2>1 DEF IdentityInv, Flagged
    <3> QED  BY <2>1, <3>1, <3>2, <3>3 DEF IdentityInv
  <2>2. ASSUME NEW s \in Slots, IdentityEnd(s), UNCHANGED <<onFile, verification, reuseAlert>>  PROVE IdentityInv'
    BY <2>2, NoIdentityOK, CallbackTurns DEF IdentityEnd
  <2>3. ASSUME NEW s \in Slots, NEW c \in Files, Consume(s, c)  PROVE IdentityInv'
    <3> DEFINE new == [NoIdentity EXCEPT !.phase = "exchange", !.file = c]
    <3>1. CallbackOK(new)
      BY DEF CallbackOK, ReadIsCurrent, NoIdentity
    <3> HIDE DEF new
    <3>2. idreq' = [idreq EXCEPT ![s] = new] /\ UNCHANGED <<onFile, verification, reuseAlert>>
      BY <2>3 DEF Consume, new
    <3> QED  BY <3>1, <3>2, CallbackTurns
  <2>4. ASSUME NEW s \in Slots, NEW profile \in Profile, Exchange(s, profile)  PROVE IdentityInv'
    <3> DEFINE new == [idreq[s] EXCEPT !.phase = "read", !.profile = profile]
    <3>1. CallbackOK(new)
      BY <2>4 DEF Exchange, IdentityInv, CallbackOK, ReadIsCurrent
    <3>2. idreq' = [idreq EXCEPT ![s] = new] /\ UNCHANGED <<onFile, verification, reuseAlert>>
      BY <2>4 DEF Exchange, IdentityInv
    <3> HIDE DEF new
    <3> QED  BY <3>1, <3>2, CallbackTurns
  <2>5. ASSUME NEW s \in Slots, IdentityStep(s)  PROVE IdentityInv'
    <3>1. ASSUME ExchangeFails(s) \/ IdentityDies(s)  PROVE IdentityInv'
      BY <2>2, <3>1 DEF ExchangeFails, IdentityDies
    <3> QED  BY <2>3, <2>4, <2>5, <3>1, FileRead, VerificationRecorded DEF IdentityStep
  <2> QED  BY <2>1, <2>5 DEF IdentityNext, identityVars, uaepass_customer_start
<1>3. IdentityInv => OneFilePerIdentity
  BY DEF IdentityInv, OnOneFile, Flagged, Copied, OneFilePerIdentity
<1> QED  BY <1>1, <1>2, <1>3, PTL DEF IdentitySpec

-------------------------------------------------------------------------------
\* Beneficial ownership

\* The unit of an effective share is a number: one, times a hundred for every level.
LEMMA UnitIsNat == Unit \in Nat
<1> DEFINE N == MAX_UBO_DEPTH
           it == CHOOSE u : u = [d \in 1..N |-> IF d = 1 THEN 1 ELSE 100 * u[d - 1]]
           step == [p \in Nat \X (1..N) |-> IF p[2] = 1 THEN 1 ELSE 100 * p[1]]
           earlier == [d \in 1..N |-> d - 1]
<1>1. N \in Nat \ {0}
  BY OwnershipAssumption
<1>2. Unit = it[N]
  BY DEF Unit
<1> HIDE DEF N
<1>3. step \in [Nat \X (1..N) -> Nat]
  <2> SUFFICES ASSUME NEW p \in Nat \X (1..N)  PROVE (IF p[2] = 1 THEN 1 ELSE 100 * p[1]) \in Nat
    OBVIOUS
  <2>1. p[1] \in Nat
    OBVIOUS
  <2> QED  BY <2>1
<1>4. earlier \in [1..N -> Nat] /\ \A d \in 1..N : earlier[d] < d
  BY <1>1
<1>5. PICK g : Computed(g, N, Nat, 0, earlier, step)
  <2> HIDE DEF step, earlier, it
  <2> QED  BY <1>1, <1>3, <1>4, RowByRow
<1>6. g \in [0..N -> Nat]
  BY <1>5 DEF Computed
<1>7. ASSUME NEW d \in 1..N  PROVE g[d] = IF d = 1 THEN 1 ELSE 100 * g[d - 1]
  <2>1. g[d] = step[<<g[earlier[d]], d>>]
    <3> HIDE DEF step, earlier
    <3> QED  BY <1>5 DEF Computed
  <2>2. earlier[d] = d - 1 /\ g[d - 1] \in Nat
    BY <1>1, <1>6
  <2>3. <<g[d - 1], d>> \in Nat \X (1..N)
    BY <2>2
  <2> QED  BY <2>1, <2>2, <2>3
<1> DEFINE h == [d \in 1..N |-> g[d]]
<1>8. h = [d \in 1..N |-> IF d = 1 THEN 1 ELSE 100 * h[d - 1]]
  <2>1. \A d \in 1..N : h[d] = IF d = 1 THEN 1 ELSE 100 * h[d - 1]
    <3> SUFFICES ASSUME NEW d \in 1..N  PROVE h[d] = IF d = 1 THEN 1 ELSE 100 * h[d - 1]
      OBVIOUS
    <3>1. d # 1 => d - 1 \in 1..N
      BY <1>1
    <3> QED  BY <1>7, <3>1
  <2>2. h = [d \in 1..N |-> h[d]]
    OBVIOUS
  <2> HIDE DEF h
  <2> QED  BY <2>1, <2>2
<1>9. it = [d \in 1..N |-> IF d = 1 THEN 1 ELSE 100 * it[d - 1]]
  <2> HIDE DEF h
  <2> QED  BY <1>8
<1> HIDE DEF it
<1> DEFINE Bad == {d \in 1..N : it[d] \notin Nat}
<1>10. Bad = {}
  <2> SUFFICES ASSUME Bad # {}  PROVE FALSE
    OBVIOUS
  <2> DEFINE m == Min(Bad)
  <2>1. m \in Bad /\ \A y \in Bad : m <= y
    <3>1. Bad \in SUBSET Nat
      BY <1>1
    <3> HIDE DEF Bad
    <3> QED  BY <3>1, MinIsMember
  <2> HIDE DEF m
  <2>2. m \in 1..N /\ m # 1
    BY <2>1, <1>9
  <2>3. it[m] = 100 * it[m - 1]
    BY <2>2, <1>9
  <2>4. it[m - 1] \in Nat
    BY <2>1, <2>2, <1>1
  <2> QED  BY <2>1, <2>3, <2>4
<1> QED  BY <1>1, <1>2, <1>10

\* Rows of ubo_links: a parent is older than its children.
LinkRow == [person : Persons \cup {Self}, pct : Percents, parent : Nat,
            control : {"ownership", "senior_official", "nominee"}, nominee : BOOLEAN]
Chained(rows) == rows \in Seq(LinkRow) /\ \A i \in 1..Len(rows) : rows[i].parent < i

\* Effective, of any rows.
EffectiveIn(rows) ==
    LET eff[i \in 0..Len(rows)] ==
            IF i = Top THEN 100 * Unit ELSE (rows[i].pct * eff[rows[i].parent]) \div 100
    IN eff

\* A stake in a share, rounded down, is a number.
LEMMA ShareOfShare ==
    ASSUME NEW pct \in Percents, NEW share \in Nat
    PROVE  (pct * share) \div 100 \in Nat
<1>1. pct \in Nat
  BY OwnershipAssumption
<1>2. pct * share \in Nat
  BY <1>1
<1> DEFINE x == pct * share
<1> HIDE DEF x
<1>3. x \div 100 \in Nat
  BY <1>2 DEF x
<1> QED  BY <1>3 DEF x

\* Every row has one effective share, a number.
LEMMA EffectiveSolved ==
    ASSUME NEW rows, Chained(rows)
    PROVE  /\ EffectiveIn(rows) \in [0..Len(rows) -> Nat]
           /\ EffectiveIn(rows)[0] = 100 * Unit
           /\ \A i \in 1..Len(rows) :
                  EffectiveIn(rows)[i] = (rows[i].pct * EffectiveIn(rows)[rows[i].parent]) \div 100
<1> DEFINE N == Len(rows)
           Value(u, i) == IF i = 0 THEN 100 * Unit ELSE (rows[i].pct * u[rows[i].parent]) \div 100
           it == CHOOSE u : u = [i \in 0..N |-> Value(u, i)]
           step == [p \in Nat \X (1..N) |-> (rows[p[2]].pct * p[1]) \div 100]
           earlier == [i \in 1..N |-> rows[i].parent]
<1>1. N \in Nat /\ \A i \in 1..N : rows[i].pct \in Percents /\ rows[i].parent \in Nat /\ rows[i].parent < i
  <2>1. N \in Nat /\ \A i \in 1..N : rows[i] \in LinkRow
    BY LenProperties, ElementOfSeq DEF Chained
  <2> QED  BY <2>1 DEF Chained, LinkRow
<1>2. EffectiveIn(rows) = it
  BY DEF EffectiveIn, Top
<1> HIDE DEF N
<1>3. step \in [Nat \X (1..N) -> Nat]
  <2> SUFFICES ASSUME NEW p \in Nat \X (1..N)  PROVE (rows[p[2]].pct * p[1]) \div 100 \in Nat
    OBVIOUS
  <2>1. p[1] \in Nat /\ rows[p[2]].pct \in Percents
    BY <1>1
  <2> QED  BY <2>1, ShareOfShare
<1>4. earlier \in [1..N -> Nat] /\ \A i \in 1..N : earlier[i] < i
  BY <1>1
<1>5. 100 * Unit \in Nat
  BY UnitIsNat
<1>6. PICK g : Computed(g, N, Nat, 100 * Unit, earlier, step)
  <2> HIDE DEF step, earlier, it
  <2> QED  BY <1>1, <1>3, <1>4, <1>5, RowByRow
<1>7. g \in [0..N -> Nat] /\ g[0] = 100 * Unit
  BY <1>6 DEF Computed
<1>8. ASSUME NEW i \in 1..N  PROVE g[i] = (rows[i].pct * g[rows[i].parent]) \div 100
  <2>1. g[i] = step[<<g[earlier[i]], i>>]
    <3> HIDE DEF step, earlier
    <3> QED  BY <1>6 DEF Computed
  <2>2. earlier[i] = rows[i].parent /\ g[rows[i].parent] \in Nat
    BY <1>1, <1>7
  <2>3. <<g[rows[i].parent], i>> \in Nat \X (1..N)
    BY <2>2
  <2> QED  BY <2>1, <2>2, <2>3
<1>9. g = [i \in 0..N |-> Value(g, i)]
  <2>1. \A i \in 0..N : g[i] = Value(g, i)
    BY <1>7, <1>8, <1>1
  <2> HIDE DEF Value
  <2> QED  BY <1>7, <2>1
<1>10. it = [i \in 0..N |-> Value(it, i)]
  <2> HIDE DEF Value
  <2> QED  BY <1>9
<1> HIDE DEF it
<1>11. \A i \in 0..N : it[i] = Value(it, i)
  <2> HIDE DEF Value
  <2> QED  BY <1>10
<1> DEFINE Bad == {i \in 0..N : it[i] \notin Nat}
<1>12. Bad = {}
  <2> SUFFICES ASSUME Bad # {}  PROVE FALSE
    OBVIOUS
  <2> DEFINE m == Min(Bad)
  <2>1. m \in Bad /\ \A y \in Bad : m <= y
    <3>1. Bad \in SUBSET Nat
      BY <1>1
    <3> HIDE DEF Bad
    <3> QED  BY <3>1, MinIsMember
  <2> HIDE DEF m
  <2>2. m \in 1..N
    BY <2>1, <1>11, <1>5, <1>1
  <2>3. it[m] = (rows[m].pct * it[rows[m].parent]) \div 100
    BY <2>2, <1>11
  <2>4. it[rows[m].parent] \in Nat /\ rows[m].pct \in Percents
    BY <2>1, <2>2, <1>1
  <2> QED  BY <2>1, <2>3, <2>4, ShareOfShare
<1>13. it \in [0..N -> Nat]
  <2>1. it = [i \in 0..N |-> it[i]]
    <3> HIDE DEF Value
    <3> QED  BY <1>10
  <2>2. \A i \in 0..N : it[i] \in Nat
    BY <1>12
  <2> QED  BY <2>1, <2>2
<1>14. it[0] = 100 * Unit /\ \A i \in 1..N : it[i] = (rows[i].pct * it[rows[i].parent]) \div 100
  BY <1>11, <1>1
<1> QED  BY <1>2, <1>13, <1>14 DEF N

\* A row that is added changes no older row's share.
LEMMA OldSharesStay ==
    ASSUME NEW rows, Chained(rows), NEW row, Chained(Append(rows, row)), NEW i \in 0..Len(rows)
    PROVE  EffectiveIn(Append(rows, row))[i] = EffectiveIn(rows)[i]
<1> DEFINE more == Append(rows, row)
           new == EffectiveIn(more)
           old == EffectiveIn(rows)
           N == Len(rows)
<1>1. N \in Nat /\ Len(more) = N + 1 /\ \A k \in 1..N : more[k] = rows[k]
  BY DEF Chained
<1>2. \A k \in 1..N : rows[k].parent \in Nat /\ rows[k].parent < k
  <2>1. \A k \in 1..N : rows[k] \in LinkRow
    BY LenProperties, ElementOfSeq DEF Chained
  <2> QED  BY <2>1 DEF Chained, LinkRow
<1> HIDE DEF N, more
<1>3. /\ old[0] = 100 * Unit
      /\ \A k \in 1..N : old[k] = (rows[k].pct * old[rows[k].parent]) \div 100
  BY EffectiveSolved DEF N
<1>4. /\ new[0] = 100 * Unit
      /\ \A k \in 1..(N + 1) : new[k] = (more[k].pct * new[more[k].parent]) \div 100
  BY EffectiveSolved, <1>1 DEF more
<1> HIDE DEF new, old
<1> DEFINE Bad == {k \in 0..N : new[k] # old[k]}
<1>5. Bad = {}
  <2> SUFFICES ASSUME Bad # {}  PROVE FALSE
    OBVIOUS
  <2> DEFINE m == Min(Bad)
  <2>1. m \in Bad /\ \A y \in Bad : m <= y
    <3>1. Bad \in SUBSET Nat
      BY <1>1
    <3> HIDE DEF Bad
    <3> QED  BY <3>1, MinIsMember
  <2> HIDE DEF m
  <2>2. m \in 1..N
    BY <2>1, <1>3, <1>4, <1>1
  <2>3. new[rows[m].parent] = old[rows[m].parent]
    BY <2>1, <2>2, <1>1, <1>2
  <2>4. new[m] = (more[m].pct * new[more[m].parent]) \div 100 /\ more[m] = rows[m]
    BY <2>2, <1>1, <1>4
  <2> QED  BY <2>1, <2>2, <2>3, <2>4, <1>3
<1> QED  BY <1>5 DEF N, new, old, more

\* Of the rows that count, under each holder (person and parent) the one with the
\* largest share, the oldest of equals.
Beats(eff, j, i) == \/ eff[j] > eff[i]
                    \/ eff[j] = eff[i] /\ j < i
Best(eff, holder, H) == {i \in H : ~\E j \in H : holder[j] = holder[i] /\ Beats(eff, j, i)}

\* One row that stops counting never raises the sum: what it superseded is no larger,
\* and only one of them takes its place.
LEMMA OneStandsAside ==
    ASSUME NEW n \in Nat, NEW eff \in [0..n -> Nat], NEW holder, NEW H \in SUBSET (1..n), NEW p
    PROVE  SumFunctionOnSet(eff, Best(eff, holder, H \ {p})) <= SumFunctionOnSet(eff, Best(eff, holder, H))
<1> DEFINE C == Best(eff, holder, H)
           D == Best(eff, holder, H \ {p})
<1>1. \A i \in H : i \in Nat /\ eff[i] \in Nat
  OBVIOUS
<1>2. C \subseteq H /\ D \subseteq H \ {p}
  BY DEF Best
<1>3. IsFiniteSet(H) /\ IsFiniteSet(C) /\ IsFiniteSet(D)
  <2>1. IsFiniteSet(1..n)
    BY FS_Interval
  <2> QED  BY <2>1, <1>2, FS_Subset
<1>4. ASSUME NEW i \in D, i \notin C
      PROVE  p \in H /\ holder[p] = holder[i] /\ Beats(eff, p, i)
  <2>1. PICK j \in H : holder[j] = holder[i] /\ Beats(eff, j, i)
    BY <1>2, <1>4 DEF Best
  <2>2. j = p
    BY <1>4, <2>1 DEF Best
  <2> QED  BY <2>1, <2>2
<1>5. ASSUME D \subseteq C  PROVE SumFunctionOnSet(eff, D) <= SumFunctionOnSet(eff, C)
  <2> HIDE DEF C, D
  <2> QED  BY <1>5, <1>1, <1>2, <1>3, SumMonotone
<1>6. ASSUME ~(D \subseteq C)  PROVE SumFunctionOnSet(eff, D) <= SumFunctionOnSet(eff, C)
  <2>1. PICK q \in D : q \notin C
    BY <1>6
  <2>2. p \in H /\ holder[p] = holder[q] /\ Beats(eff, p, q) /\ q \in H
    BY <2>1, <1>2, <1>4
  <2>3. D \ {q} \subseteq C \ {p}
    <3> SUFFICES ASSUME NEW i \in D, i # q, i \notin C  PROVE FALSE
      BY <1>2
    <3>1. holder[i] = holder[q] /\ i \in H \ {p} /\ q \in H \ {p}
      BY <2>1, <2>2, <1>2, <1>4
    <3>2. ~Beats(eff, i, q) /\ ~Beats(eff, q, i)
      BY <3>1, <2>1 DEF Best
    <3> QED  BY <3>1, <3>2, <1>1 DEF Beats
  <2>4. p \in C
    <3> SUFFICES ASSUME NEW j \in H, holder[j] = holder[p], Beats(eff, j, p)  PROVE FALSE
      BY <2>2 DEF Best
    <3>1. j # p
      BY <1>1 DEF Beats
    <3>2. Beats(eff, j, q)
      BY <2>2, <1>1 DEF Beats
    <3> QED  BY <3>1, <3>2, <2>1, <2>2 DEF Best
  <2>5. eff[q] <= eff[p]
    BY <2>2, <1>1 DEF Beats
  <2> HIDE DEF C, D
  <2>6. \A i \in C : eff[i] \in Nat
    BY <1>1, <1>2
  <2>7. \A i \in D : eff[i] \in Nat
    BY <1>1, <1>2
  <2>8. SumFunctionOnSet(eff, C) = eff[p] + SumFunctionOnSet(eff, C \ {p})
    BY <2>4, <2>6, <1>3, SumTakeOut
  <2>9. SumFunctionOnSet(eff, D) = eff[q] + SumFunctionOnSet(eff, D \ {q})
    BY <2>1, <2>7, <1>3, SumTakeOut
  <2>10. IsFiniteSet(C \ {p}) /\ IsFiniteSet(D \ {q})
    BY <1>3, FS_RemoveElement
  <2>11. /\ SumFunctionOnSet(eff, D \ {q}) <= SumFunctionOnSet(eff, C \ {p})
         /\ SumFunctionOnSet(eff, C \ {p}) \in Nat
    <3> DEFINE c == C \ {p}
               d == D \ {q}
    <3>1. IsFiniteSet(c) /\ d \in SUBSET c /\ \A i \in c : eff[i] \in Nat
      BY <2>3, <2>6, <2>10
    <3> HIDE DEF c, d
    <3>2. SumFunctionOnSet(eff, d) <= SumFunctionOnSet(eff, c) /\ SumFunctionOnSet(eff, c) \in Nat
      BY <3>1, SumMonotone, SumIsNat
    <3> QED  BY <3>2 DEF c, d
  <2>12. SumFunctionOnSet(eff, D \ {q}) \in Nat
    BY <2>7, <2>10, SumIsNat
  <2>13. eff[p] \in Nat /\ eff[q] \in Nat
    BY <2>2, <1>1
  <2> QED  BY <2>5, <2>8, <2>9, <2>11, <2>12, <2>13
<1> QED  BY <1>5, <1>6

\* The rows in place and the row each request is about to insert are well formed.
OwnershipInv ==
    /\ Chained(ubo_links)
    /\ adding \in [Slots -> LinkRow \cup {None}]
    /\ \A s \in Slots : adding[s] # None => adding[s].parent <= Len(ubo_links)

LEMMA OwnershipInit_Inv == OwnershipInit => OwnershipInv
<1> SUFFICES ASSUME OwnershipInit  PROVE OwnershipInv
  OBVIOUS
<1>1. Chained(<<>>)
  BY DEF Chained
<1>2. adding = [s \in Slots |-> None] /\ ubo_links = <<>>
  BY DEF OwnershipInit
<1> QED  BY <1>1, <1>2 DEF OwnershipInv

\* A row whose parent is older can be appended.
LEMMA AppendedChained ==
    ASSUME NEW rows, Chained(rows), NEW row \in LinkRow, row.parent <= Len(rows)
    PROVE  Chained(Append(rows, row))
<1>1. Len(rows) \in Nat /\ rows \in Seq(LinkRow)
  BY DEF Chained
<1>2. Append(rows, row) \in Seq(LinkRow) /\ Len(Append(rows, row)) = Len(rows) + 1
  BY <1>1
<1>3. ASSUME NEW i \in 1..Len(Append(rows, row))  PROVE Append(rows, row)[i].parent < i
  <2>1. row.parent \in Nat
    BY DEF LinkRow
  <2>2. CASE i = Len(rows) + 1
    <3>1. Append(rows, row)[i] = row
      BY <2>2, <1>1
    <3> QED  BY <3>1, <2>1, <2>2, <1>1
  <2>3. CASE i # Len(rows) + 1
    <3>1. i \in 1..Len(rows)
      BY <2>3, <1>1, <1>2
    <3>2. Append(rows, row)[i] = rows[i]
      BY <3>1, <1>1
    <3> QED  BY <3>1, <3>2 DEF Chained
  <2> QED  BY <2>2, <2>3
<1> QED  BY <1>2, <1>3 DEF Chained

LEMMA OwnershipStep_Inv == OwnershipInv /\ [OwnershipNext]_ownershipVars => OwnershipInv'
<1> SUFFICES ASSUME OwnershipInv, [OwnershipNext]_ownershipVars  PROVE OwnershipInv'
  OBVIOUS
<1>0. Len(ubo_links) \in Nat
  BY DEF OwnershipInv, Chained
<1>1. ASSUME NEW s \in Slots, NEW row \in UboRow, AddUboCheck(s, row)  PROVE OwnershipInv'
  <2>1. row \in LinkRow /\ row.parent <= Len(ubo_links)
    BY <1>0 DEF UboRow, UboIds, Top, LinkRow
  <2>2. ubo_links' = ubo_links /\ adding' = [adding EXCEPT ![s] = row]
    BY <1>1 DEF AddUboCheck
  <2>3. adding' \in [Slots -> LinkRow \cup {None}]
    BY <2>1, <2>2 DEF OwnershipInv
  <2>4. \A t \in Slots : adding'[t] # None => adding'[t].parent <= Len(ubo_links)
    BY <2>1, <2>2 DEF OwnershipInv
  <2> QED  BY <2>2, <2>3, <2>4 DEF OwnershipInv
<1>2. ASSUME NEW s \in Slots, AddUboInsert(s)  PROVE OwnershipInv'
  <2> DEFINE row == adding[s]
  <2>1. row \in LinkRow /\ row.parent <= Len(ubo_links) /\ row.parent \in Nat
    BY <1>2 DEF AddUboInsert, OwnershipInv, LinkRow
  <2>2. ubo_links' = Append(ubo_links, row) /\ adding' = [adding EXCEPT ![s] = None]
    BY <1>2 DEF AddUboInsert
  <2>3. Chained(ubo_links') /\ Len(ubo_links') = Len(ubo_links) + 1
    <3>1. Chained(ubo_links)
      BY DEF OwnershipInv
    <3> HIDE DEF row
    <3> QED  BY <2>1, <2>2, <3>1, AppendedChained DEF Chained
  <2>4. adding' \in [Slots -> LinkRow \cup {None}]
    BY <2>2 DEF OwnershipInv
  <2>5. ASSUME NEW t \in Slots, adding'[t] # None  PROVE adding'[t].parent <= Len(ubo_links')
    <3>1. adding'[t] = adding[t] /\ adding[t] \in LinkRow /\ adding[t].parent <= Len(ubo_links)
      BY <2>2, <2>5 DEF OwnershipInv
    <3>2. adding[t].parent \in Nat
      BY <3>1 DEF LinkRow
    <3> QED  BY <3>1, <3>2, <2>3, <1>0
  <2> QED  BY <2>3, <2>4, <2>5 DEF OwnershipInv
<1>3. ASSUME NEW s \in Slots, AddUboDies(s)  PROVE OwnershipInv'
  BY <1>3 DEF AddUboDies, OwnershipInv
<1>4. CASE UNCHANGED ownershipVars
  BY <1>4 DEF ownershipVars, OwnershipInv
<1> QED  BY <1>1, <1>2, <1>3, <1>4 DEF OwnershipNext

\* Types of the rows; a chain of parents never leads back, so that every depth and every
\* share is defined.
THEOREM OwnershipTypeCorrect == OwnershipSpec => []OwnershipTypeOK
<1>1. OwnershipInv => OwnershipTypeOK
  <2> SUFFICES ASSUME OwnershipInv  PROVE OwnershipTypeOK
    OBVIOUS
  <2>1. Len(ubo_links) \in Nat /\ \A i \in UboIds : ubo_links[i] \in LinkRow /\ ubo_links[i].parent < i
    BY LenProperties, ElementOfSeq DEF OwnershipInv, Chained, UboIds
  <2>2. \A i \in UboIds : ubo_links[i] \in UboRow
    BY <2>1 DEF UboRow, LinkRow, UboIds, Top
  <2>3. ASSUME NEW s \in Slots, adding[s] # None  PROVE adding[s] \in UboRow
    <3>1. adding[s] \in LinkRow /\ adding[s].parent <= Len(ubo_links)
      BY <2>3 DEF OwnershipInv
    <3>2. adding[s].parent \in UboIds \cup {Top}
      BY <3>1, <2>1 DEF LinkRow, UboIds, Top
    <3> QED  BY <3>1, <3>2 DEF LinkRow, UboRow
  <2> QED  BY <2>1, <2>2, <2>3 DEF OwnershipTypeOK
<1> QED  BY <1>1, OwnershipInit_Inv, OwnershipStep_Inv, PTL DEF OwnershipSpec

\* Who counts, and how much they hold together.
HolderIn(rows) == [i \in 1..Len(rows) |-> <<rows[i].person, rows[i].parent>>]
HoldersNow == {i \in UboIds : Holding(i)}

LEMMA IdentifiedIsSumOfBest ==
    identified_ownership =
        Min({100 * Unit, SumFunctionOnSet(EffectiveIn(ubo_links),
                                          Best(EffectiveIn(ubo_links), HolderIn(ubo_links), HoldersNow))})
<1> DEFINE eff == EffectiveIn(ubo_links)
           holder == HolderIn(ubo_links)
<1>1. Effective = eff
  BY DEF Effective, EffectiveIn
<1>2. \A i, j \in UboIds : SameHolder(i, j) <=> holder[j] = holder[i]
  BY DEF SameHolder, HolderIn, UboIds
<1> HIDE DEF holder, eff
<1>3. \A i \in HoldersNow : Superseded(i) <=> \E j \in HoldersNow : holder[j] = holder[i] /\ Beats(eff, j, i)
  BY <1>1, <1>2 DEF Superseded, Beats, HoldersNow
<1>4. {i \in UboIds : Holding(i) /\ ~Superseded(i)} = Best(eff, holder, HoldersNow)
  BY <1>3 DEF Best, HoldersNow
<1>5. identified_ownership = Min({100 * Unit, SumFunctionOnSet(eff, Best(eff, holder, HoldersNow))})
  BY <1>1, <1>4, Zenon DEF identified_ownership
<1> QED  BY <1>5 DEF holder, eff

\* A smaller sum is a smaller share.
LEMMA CappedIsMonotone ==
    ASSUME NEW cap \in Nat, NEW a \in Nat, NEW b \in Nat, a <= b
    PROVE  Min({cap, a}) \in Nat /\ Min({cap, b}) \in Nat /\ Min({cap, a}) <= Min({cap, b})
<1>1. {cap, a} \in SUBSET Nat /\ {cap, b} \in SUBSET Nat
  OBVIOUS
<1>2. Min({cap, a}) \in {cap, a} /\ Min({cap, a}) <= cap /\ Min({cap, a}) <= a
  BY <1>1, MinIsMember
<1>3. Min({cap, b}) \in {cap, b}
  BY <1>1, MinIsMember
<1> QED  BY <1>2, <1>3

\* A nominee who is recorded changes who counts only by its parent standing aside.
LEMMA NomineeStepsAside ==
    ASSUME OwnershipInv, NEW s \in Slots, AddUboInsert(s), adding[s].nominee
    PROVE  /\ identified_ownership \in Nat /\ identified_ownership' \in Nat
           /\ identified_ownership' <= identified_ownership
<1> DEFINE new == adding[s]
<1>1. PICK rows, row : rows = ubo_links /\ row = new
  OBVIOUS
<1>2. row \in LinkRow /\ row.nominee /\ row.parent <= Len(rows) /\ ubo_links' = Append(rows, row)
  BY <1>1 DEF AddUboInsert, OwnershipInv
<1> HIDE DEF new
<1> DEFINE more == Append(rows, row)
           n == Len(rows)
           p == row.parent
<1>3. Chained(rows)
  BY <1>1 DEF OwnershipInv
<1>4. Chained(more)
  BY <1>2, <1>3, AppendedChained
<1>5. n \in Nat /\ Len(more) = n + 1 /\ more[n + 1] = row /\ \A i \in 1..n : more[i] = rows[i]
  BY <1>2, <1>3 DEF Chained
<1> HIDE DEF more, n
<1> DEFINE eff == EffectiveIn(rows)
           effMore == EffectiveIn(more)
           holder == HolderIn(rows)
           holderMore == HolderIn(more)
           H == {i \in 1..n : Holding(i)}
           HMore == {i \in 1..(n + 1) : Holding(i)'}
<1>6. eff \in [0..n -> Nat] /\ effMore \in [0..(n + 1) -> Nat]
  BY <1>3, <1>4, <1>5, EffectiveSolved DEF n
<1>7. \A i \in 0..n : effMore[i] = eff[i]
  BY <1>3, <1>4, OldSharesStay DEF n, more
<1>8. HMore = H \ {p}
  <2>1. UboIds = 1..n /\ UboIds' = 1..(n + 1)
    BY <1>1, <1>2, <1>5 DEF UboIds, n, more
  <2>2. ubo_links' = more /\ ubo_links = rows
    BY <1>1, <1>2 DEF more
  <2>3. ~Holding(n + 1)'
    BY <1>2, <1>5, <2>2 DEF Holding, IsUbo
  <2>4. ASSUME NEW i \in 1..n  PROVE Holding(i)' <=> Holding(i) /\ i # p
    <3>1. IsUbo(ubo_links'[i]) <=> IsUbo(ubo_links[i])
      BY <1>5, <2>2
    <3>2. Stakes(i)' = {j \in 1..(n + 1) : more[j].parent = i} /\ Stakes(i) = {j \in 1..n : rows[j].parent = i}
      BY <2>1, <2>2 DEF Stakes
    <3>3. Stakes(i)' = {} <=> Stakes(i) = {} /\ i # p
      <4>1. ASSUME Stakes(i) = {}, i # p, NEW j \in 1..(n + 1), more[j].parent = i  PROVE FALSE
        <5>1. j # n + 1
          BY <4>1, <1>5
        <5> QED  BY <5>1, <4>1, <1>5, <3>2
      <4>2. i = p => n + 1 \in Stakes(i)'
        BY <1>5, <3>2
      <4>3. \A j \in Stakes(i) : j \in Stakes(i)'
        BY <1>5, <3>2
      <4> QED  BY <4>1, <4>2, <4>3, <3>2
    <3>4. Holding(i)' <=> IsUbo(ubo_links'[i]) /\ Stakes(i)' = {}
      BY DEF Holding
    <3>5. Holding(i) <=> IsUbo(ubo_links[i]) /\ Stakes(i) = {}
      BY DEF Holding
    <3> QED  BY <3>1, <3>3, <3>4, <3>5
  <2>5. \A i \in 1..(n + 1) : i \in 1..n \/ i = n + 1
    BY <1>5
  <2>6. \A i \in 1..n : i \in 1..(n + 1)
    BY <1>5
  <2> QED  BY <2>3, <2>4, <2>5, <2>6
<1>9. identified_ownership = Min({100 * Unit, SumFunctionOnSet(eff, Best(eff, holder, H))})
  <2>1. H = HoldersNow
    BY <1>1 DEF HoldersNow, UboIds, n
  <2> HIDE DEF H
  <2> QED  BY <1>1, <2>1, IdentifiedIsSumOfBest
<1>10. identified_ownership' = Min({100 * Unit, SumFunctionOnSet(effMore, Best(effMore, holderMore, HMore))})
  <2>1. ubo_links' = more
    BY <1>2 DEF more
  <2>2. HMore = HoldersNow'
    BY <1>5, <2>1 DEF HoldersNow, UboIds
  <2>3. (identified_ownership =
            Min({100 * Unit, SumFunctionOnSet(EffectiveIn(ubo_links),
                    Best(EffectiveIn(ubo_links), HolderIn(ubo_links), HoldersNow))}))'
    BY IdentifiedIsSumOfBest, PTL
  <2> HIDE DEF HMore
  <2> QED  BY <2>1, <2>2, <2>3
<1> HIDE DEF eff, effMore
<1>11. Best(effMore, holderMore, HMore) = Best(eff, holder, H \ {p})
  <2>1. \A i \in H \ {p} : i \in 1..n /\ i \in 1..(n + 1) /\ i \in 0..n
    BY <1>5
  <2>2. \A i \in H \ {p} : holderMore[i] = holder[i] /\ effMore[i] = eff[i]
    BY <1>5, <1>7, <2>1 DEF HolderIn, n
  <2> HIDE DEF holder, holderMore, H
  <2> QED  BY <1>8, <2>2 DEF Best, Beats
<1> DEFINE D == Best(eff, holder, H \ {p})
           C == Best(eff, holder, H)
<1>12. /\ IsFiniteSet(D) /\ \A i \in D : eff[i] \in Nat /\ effMore[i] = eff[i]
       /\ IsFiniteSet(C) /\ \A i \in C : eff[i] \in Nat
  <2>1. D \subseteq 1..n /\ C \subseteq 1..n
    BY DEF Best
  <2>2. IsFiniteSet(1..n)
    <3>1. n \in Int
      BY <1>5
    <3> HIDE DEF H, HMore, holder, holderMore
    <3> QED  BY <3>1, FS_Interval
  <2>3. \A i \in 1..n : eff[i] \in Nat /\ effMore[i] = eff[i]
    BY <1>5, <1>6, <1>7
  <2> HIDE DEF C, D
  <2> QED  BY <2>1, <2>2, <2>3, FS_Subset
<1>13. SumFunctionOnSet(eff, D) <= SumFunctionOnSet(eff, C)
  <2>1. H \in SUBSET (1..n)
    OBVIOUS
  <2> HIDE DEF H, holder
  <2> QED  BY <1>5, <1>6, <2>1, OneStandsAside
<1> HIDE DEF C, D
<1>14. SumFunctionOnSet(effMore, D) = SumFunctionOnSet(eff, D)
  BY <1>12, SumAgrees
<1>15. SumFunctionOnSet(eff, D) \in Nat /\ SumFunctionOnSet(eff, C) \in Nat
  BY <1>12, SumIsNat
<1>16. 100 * Unit \in Nat
  BY UnitIsNat
<1> DEFINE cap == 100 * Unit
<1>17. identified_ownership = Min({cap, SumFunctionOnSet(eff, C)})
       /\ identified_ownership' = Min({cap, SumFunctionOnSet(eff, D)})
  BY <1>9, <1>10, <1>11, <1>14 DEF C, D
<1> HIDE DEF cap
<1> QED  BY <1>13, <1>15, <1>16, <1>17, CappedIsMonotone DEF cap

\* Recording a nominee, wherever in the chain, never makes the ownership look clearer to
\* the risk rating (_identified_ownership, ownership_state), however many requests add
\* owners at once.
THEOREM NomineeNeverHelpsCorrect == OwnershipSpec => NomineeNeverHelps
<1>1. OwnershipInv /\ [OwnershipNext]_ownershipVars =>
          [Len(ubo_links') > Len(ubo_links) /\ ubo_links'[Len(ubo_links')].nominee
               => points_by_state[ownership_state] <= points_by_state[ownership_state']]_ownershipVars
  <2> SUFFICES ASSUME OwnershipInv, OwnershipNext,
                      Len(ubo_links') > Len(ubo_links), ubo_links'[Len(ubo_links')].nominee
               PROVE  points_by_state[ownership_state] <= points_by_state[ownership_state']
    BY DEF ownershipVars
  <2>0. Len(ubo_links) \in Nat /\ ubo_links \in Seq(LinkRow)
    BY DEF OwnershipInv, Chained
  <2>1. PICK s \in Slots : AddUboInsert(s)
    BY <2>0 DEF OwnershipNext, AddUboCheck, AddUboDies
  <2>2. ubo_links' = Append(ubo_links, adding[s]) /\ adding[s] \in LinkRow
    BY <2>1 DEF AddUboInsert, OwnershipInv
  <2>3. /\ UboIds' = 1..(Len(ubo_links) + 1) /\ UboIds = 1..Len(ubo_links)
        /\ ubo_links'[Len(ubo_links) + 1] = adding[s]
        /\ \A i \in UboIds : ubo_links'[i] = ubo_links[i]
        /\ Len(ubo_links') = Len(ubo_links) + 1
    BY <2>0, <2>2 DEF UboIds
  <2>4. adding[s].nominee
    BY <2>3
  <2>5. /\ identified_ownership \in Nat /\ identified_ownership' \in Nat
        /\ identified_ownership' <= identified_ownership
    BY <2>1, <2>4, NomineeStepsAside
  <2> DEFINE own == {i \in UboIds : ~ubo_links[i].nominee}
             hidden == \E i \in own : ubo_links[i].control = "nominee"
             undisclosed == ~\E i \in own : IsUbo(ubo_links[i])
  <2>6. own' = own
    BY <2>0, <2>3, <2>4
  <2>7. \A i \in own : ubo_links'[i] = ubo_links[i]
    BY <2>3
  <2>8. hidden' <=> hidden
    BY <2>6, <2>7
  <2>9. undisclosed' <=> undisclosed
    BY <2>6, <2>7
  <2> DEFINE clear(share) == IF share < 50 * Unit THEN "multi_layer_offshore"
                             ELSE IF share < 75 * Unit THEN "single_layer_foreign" ELSE "fully_transparent"
  <2>10. ownership_state = IF hidden THEN "nominee_or_bearer" ELSE IF undisclosed THEN "ubo_undisclosed"
                           ELSE clear(identified_ownership)
    BY DEF ownership_state
  <2>11. ownership_state' = IF hidden' THEN "nominee_or_bearer" ELSE IF undisclosed' THEN "ubo_undisclosed"
                            ELSE clear(identified_ownership')
    BY DEF ownership_state
  <2>12. \A a, b \in Nat : a <= b => points_by_state[clear(b)] <= points_by_state[clear(a)]
    BY UnitIsNat DEF points_by_state
  <2> HIDE DEF hidden, undisclosed
  <2>14. CASE hidden \/ undisclosed
    BY <2>8, <2>9, <2>10, <2>11, <2>14 DEF points_by_state
  <2>15. CASE ~hidden /\ ~undisclosed
    <3> HIDE DEF clear
    <3> QED  BY <2>5, <2>8, <2>9, <2>10, <2>11, <2>12, <2>15
  <2> QED  BY <2>14, <2>15
<1> QED  BY <1>1, OwnershipInit_Inv, OwnershipStep_Inv, PTL DEF OwnershipSpec, NomineeNeverHelps

-------------------------------------------------------------------------------
\* Transaction monitoring

\* A split amount that holds the transaction just recorded is found by the rule: the
\* window that opens at its earliest part holds it all.
LEMMA SplitIsStructuring ==
    ASSUME NEW txs \in Seq(Transaction), NEW id \in DOMAIN txs, NEW ids \in SUBSET DOMAIN txs,
           id \in ids, Split(txs, ids), ~_has_open_alert("structuring"),
           threshold \in Nat, window_days \in Nat
    PROVE  Structuring(txs, id)
<1> DEFINE W == window_days
           amounts == [i \in DOMAIN txs |-> txs[i].amount]
<1>1. W \in Nat /\ STRUCTURING_MIN_COUNT \in Nat
  BY KytAssumption
<1>2. \A i \in DOMAIN txs : txs[i].at \in Nat /\ txs[i].amount \in Nat
  <2>1. \A i \in DOMAIN txs : txs[i] \in Transaction
    BY LenProperties
  <2>2. Amounts \subseteq Nat /\ TransactionDates \subseteq Nat
    BY KytAssumption
  <2> QED  BY <2>1, <2>2 DEF Transaction
<1>3. \A i, j \in ids : txs[i].direction = txs[j].direction /\ txs[i].at - txs[j].at <= W
  BY DEF Split
<1>4. \A i \in ids : txs[i].method \in STRUCTURING_METHODS /\ txs[i].amount < threshold
  BY DEF Split
<1> HIDE DEF W
<1>5. PICK start \in ids : \A i \in ids : txs[start].at <= txs[i].at
  <2> DEFINE T == {txs[i].at : i \in ids}
  <2>1. T \in SUBSET Nat /\ T # {}
    BY <1>2
  <2>2. Min(T) \in T /\ \A y \in T : Min(T) <= y
    BY <2>1, MinIsMember
  <2> QED  BY <2>2
<1>6. ids \subseteq Siblings(txs, id)
  <2> SUFFICES ASSUME NEW i \in ids  PROVE i \in Siblings(txs, id)
    OBVIOUS
  <2>1. txs[i].at \in Nat /\ txs[id].at \in Nat /\ i \in DOMAIN txs
    BY <1>2
  <2>2. txs[i].at - txs[id].at <= W /\ txs[id].at - txs[i].at <= W
    BY <1>3
  <2>3. txs[i].at \in txs[id].at - W..txs[id].at + W
    BY <2>1, <2>2, <1>1
  <2> QED  BY <2>1, <2>3, <1>3, <1>4 DEF Siblings, W
<1> DEFINE window == InWindow(txs, id, start)
           under == {i \in window : txs[i].amount < threshold}
<1>7. ids \subseteq window
  <2> SUFFICES ASSUME NEW i \in ids  PROVE i \in window
    OBVIOUS
  <2>1. txs[i].at \in Nat /\ txs[start].at \in Nat
    BY <1>2
  <2>2. txs[i].at \in txs[start].at..txs[start].at + W
    BY <2>1, <1>1, <1>3, <1>5
  <2> QED  BY <2>2, <1>6 DEF InWindow, W
<1>8. ids \subseteq under /\ under \subseteq DOMAIN txs
  BY <1>7, <1>4 DEF InWindow, Siblings
<1>9. IsFiniteSet(under) /\ IsFiniteSet(ids)
  <2>1. IsFiniteSet(DOMAIN txs)
    BY FS_Interval, LenProperties
  <2> HIDE DEF under
  <2> QED  BY <2>1, <1>8, FS_Subset
<1>10. Cardinality(under) >= STRUCTURING_MIN_COUNT
  <2> HIDE DEF under
  <2>1. Cardinality(ids) \in Nat /\ Cardinality(under) \in Nat /\ Cardinality(ids) <= Cardinality(under)
    BY <1>8, <1>9, FS_CardinalityType, FS_Subset
  <2> QED  BY <2>1, <1>1 DEF Split
<1>11. AmountOf(txs, under) >= threshold
  <2> HIDE DEF under
  <2>1. \A i \in under : amounts[i] \in Nat
    BY <1>2, <1>8
  <2>2. AmountOf(txs, ids) = SumFunctionOnSet(amounts, ids)
        /\ AmountOf(txs, under) = SumFunctionOnSet(amounts, under)
    BY DEF AmountOf
  <2> HIDE DEF amounts
  <2>3. SumFunctionOnSet(amounts, ids) <= SumFunctionOnSet(amounts, under)
    BY <2>1, <1>8, <1>9, SumMonotone
  <2>4. SumFunctionOnSet(amounts, ids) \in Nat /\ SumFunctionOnSet(amounts, under) \in Nat
    BY <2>1, <1>8, <1>9, SumIsNat
  <2>5. SumFunctionOnSet(amounts, ids) >= threshold
    BY <2>2 DEF Split
  <2> QED  BY <2>2, <2>3, <2>4, <2>5
<1> QED
  BY <1>4, <1>6, <1>7, <1>10, <1>11 DEF Structuring

\* Types of the rows of transactions and of their alerts.
THEOREM KytTypeCorrect == KytSpec => []KytTypeOK
<1>1. KytInit => KytTypeOK
  BY DEF KytInit, KytTypeOK, RuleConfig
<1>2. KytTypeOK /\ [KytNext]_kytVars => KytTypeOK'
  <2> SUFFICES ASSUME KytTypeOK, [KytNext]_kytVars  PROVE KytTypeOK'
    OBVIOUS
  <2> DEFINE Rules == {"large_cash", "large_value", "structuring", "velocity"}
  <2>1. ASSUME NEW tx \in Transaction, record_transaction_evaluated(tx)  PROVE KytTypeOK'
    <3> DEFINE txs == Append(transactions, tx)
               id == Len(txs)
               new == evaluate_transaction(txs, id)
    <3>1. txs \in Seq(Transaction) /\ id \in DOMAIN txs /\ DOMAIN transactions \subseteq DOMAIN txs
      BY <2>1 DEF KytTypeOK
    <3>2. new \subseteq Rules
      BY DEF evaluate_transaction
    <3>3. /\ transactions' = txs /\ setting' = setting
          /\ raised' = raised \cup {[rule |-> rule, id |-> id] : rule \in new}
      BY <2>1 DEF record_transaction_evaluated
    <3> HIDE DEF txs, id, new
    <3>4. {[rule |-> rule, id |-> id] : rule \in new} \subseteq [rule : Rules, id : DOMAIN txs]
      <4>1. ASSUME NEW rule \in new  PROVE [rule |-> rule, id |-> id] \in [rule : Rules, id : DOMAIN txs]
        <5>1. rule \in Rules /\ id \in DOMAIN txs
          BY <3>1, <3>2
        <5> HIDE DEF Rules
        <5> QED  BY <5>1
      <4> HIDE DEF Rules
      <4> QED  BY <4>1
    <3>5. raised \subseteq [rule : Rules, id : DOMAIN txs]
      BY <3>1 DEF KytTypeOK
    <3> QED  BY <3>1, <3>3, <3>4, <3>5 DEF KytTypeOK
  <2>2. ASSUME NEW a \in raised, disposition_raised(a)  PROVE KytTypeOK'
    BY <2>2 DEF disposition_raised, KytTypeOK
  <2>3. ASSUME NEW config \in RuleConfig, save_rule_config(config)  PROVE KytTypeOK'
    BY <2>3 DEF save_rule_config, KytTypeOK
  <2>4. CASE UNCHANGED kytVars
    BY <2>4 DEF kytVars, KytTypeOK
  <2> QED  BY <2>1, <2>2, <2>3, <2>4 DEF KytNext
<1> QED  BY <1>1, <1>2, PTL DEF KytSpec

\* In whatever order its parts are entered, whatever was decided and configured before, a
\* split amount leaves a structuring alert open once its last part is recorded
\* (_rule_structuring_pattern).
THEOREM SplitIsRaisedCorrect == KytSpec => SplitIsRaised
<1>1. KytTypeOK /\ [KytNext]_kytVars =>
          [transactions' # transactions =>
               LET id == Len(transactions') IN
               (\E ids \in SUBSET DOMAIN transactions' : id \in ids /\ Split(transactions', ids))
                   => \E a \in raised' : a.rule = "structuring"]_kytVars
  <2> SUFFICES ASSUME KytTypeOK, KytNext, transactions' # transactions,
                      NEW ids \in SUBSET DOMAIN transactions',
                      Len(transactions') \in ids, Split(transactions', ids)
               PROVE  \E a \in raised' : a.rule = "structuring"
    BY DEF kytVars
  <2>1. PICK tx \in Transaction : record_transaction_evaluated(tx)
    BY DEF KytNext, disposition_raised, save_rule_config
  <2> DEFINE txs == Append(transactions, tx)
             id == Len(txs)
  <2>2. /\ transactions' = txs
        /\ raised' = raised \cup {[rule |-> rule, id |-> id] : rule \in evaluate_transaction(txs, id)}
    BY <2>1 DEF record_transaction_evaluated
  <2>3. txs \in Seq(Transaction) /\ id \in DOMAIN txs /\ ids \in SUBSET DOMAIN txs /\ id \in ids /\ Split(txs, ids)
    BY <2>2 DEF KytTypeOK
  <2> HIDE DEF txs, id
  <2>4. CASE _has_open_alert("structuring")
    BY <2>2, <2>4 DEF _has_open_alert
  <2>5. CASE ~_has_open_alert("structuring")
    <3>1. threshold \in Nat /\ window_days \in Nat
      BY KytAssumption DEF KytTypeOK, RuleConfig, threshold, window_days
    <3>2. Structuring(txs, id)
      BY <2>3, <2>5, <3>1, SplitIsStructuring
    <3>3. "structuring" \in evaluate_transaction(txs, id)
      BY <3>2 DEF evaluate_transaction
    <3>4. [rule |-> "structuring", id |-> id] \in raised'
      BY <2>2, <3>3
    <3> QED  BY <3>4
  <2> QED  BY <2>4, <2>5
<1> QED  BY <1>1, KytTypeCorrect, PTL DEF KytSpec, SplitIsRaised

-------------------------------------------------------------------------------
\* The Local Terrorist List

\* The state of the pass over the page, before its first marker and in between.
PassBegins == [scope |-> FALSE, icon |-> FALSE, excel |-> <<>>, others |-> <<>>]
Passes == [scope : BOOLEAN, icon : BOOLEAN, excel : Seq(FileIds), others : Seq(FileIds)]

\* A pass over the first n markers of a page, marker by marker.
PassOver(scan, page) ==
    /\ scan \in [0..Len(page) -> Passes] /\ scan[0] = PassBegins
    /\ \A n \in 1..Len(page) : scan[n] = Scan(scan[n - 1], page[n])

\* After n markers: in scope only below the heading of the list, and no file taken that
\* a reader would not see there.
HeadingAbove(page, n) ==
    \E i \in 1..n : page[i] = "ltl" /\ \A k \in i..n : page[k] \notin {"other", "gap"}
TakenUnderHeading(scan, page, n) ==
    /\ scan.scope => HeadingAbove(page, n)
    /\ scan.excel \in Seq(UnderHeading(page)) /\ scan.others \in Seq(UnderHeading(page))

LEMMA PagesAreSequences ==
    ASSUME NEW page \in Pages
    PROVE  page \in Seq(Markers) /\ Len(page) \in Nat /\ DOMAIN page = 1..Len(page)
<1>1. PICK n \in 0..PageLength : page \in [1..n -> Markers]
  BY DEF Pages
<1>2. n \in Nat
  BY <1>1, LocalListAssumption
<1> QED  BY <1>1, <1>2

LEMMA ScanType ==
    ASSUME NEW scan \in Passes, NEW marker \in Markers
    PROVE  Scan(scan, marker) \in Passes
<1>1. scan.scope \in BOOLEAN /\ scan.icon \in BOOLEAN
      /\ scan.excel \in Seq(FileIds) /\ scan.others \in Seq(FileIds)
  BY DEF Passes
<1>2. CASE marker \in FileIds
  <2> DEFINE new == scan.scope /\ marker \notin Range(scan.excel) \cup Range(scan.others)
             e == IF new /\ scan.icon THEN Append(scan.excel, marker) ELSE scan.excel
             o == IF new /\ ~scan.icon THEN Append(scan.others, marker) ELSE scan.others
  <2>1. e \in Seq(FileIds) /\ o \in Seq(FileIds)
    BY <1>1, <1>2
  <2>2. Scan(scan, marker) = [scan EXCEPT !.icon = FALSE, !.excel = e, !.others = o]
    BY <1>2 DEF Scan
  <2> HIDE DEF e, o
  <2> QED  BY <1>1, <2>1, <2>2 DEF Passes
<1>3. CASE marker \notin FileIds
  <2>1. InScope(scan, marker) \in BOOLEAN
    BY <1>1 DEF InScope
  <2> QED  BY <1>1, <1>3, <2>1 DEF Scan, Passes
<1> QED  BY <1>2, <1>3

\* _candidate_file_ids is what a pass over the whole page takes.
LEMMA CandidatesOfPass ==
    ASSUME NEW page \in Pages
    PROVE  \E scan : /\ PassOver(scan, page)
                     /\ _candidate_file_ids(page) = scan[Len(page)].excel \o scan[Len(page)].others
<1> DEFINE N == Len(page)
           step == [p \in Passes \X (1..N) |-> Scan(p[1], page[p[2]])]
           earlier == [n \in 1..N |-> n - 1]
           it == CHOOSE scan : scan = [n \in 0..N |-> IF n = 0 THEN PassBegins ELSE Scan(scan[n - 1], page[n])]
<1>1. N \in Nat /\ \A n \in 1..N : page[n] \in Markers
  BY PagesAreSequences
<1>2. _candidate_file_ids(page) = it[N].excel \o it[N].others
  BY DEF _candidate_file_ids, PassBegins
<1> HIDE DEF N
<1>3. PassBegins \in Passes
  BY DEF PassBegins, Passes
<1>4. step \in [Passes \X (1..N) -> Passes]
  <2> SUFFICES ASSUME NEW p \in Passes \X (1..N)  PROVE Scan(p[1], page[p[2]]) \in Passes
    OBVIOUS
  <2>1. p[1] \in Passes /\ p[2] \in 1..N
    OBVIOUS
  <2> QED  BY <2>1, <1>1, ScanType
<1>5. earlier \in [1..N -> Nat] /\ \A n \in 1..N : earlier[n] < n
  BY <1>1
<1>6. PICK g : Computed(g, N, Passes, PassBegins, earlier, step)
  <2> HIDE DEF step, earlier, it
  <2> QED  BY <1>1, <1>3, <1>4, <1>5, RowByRow
<1>7. g \in [0..N -> Passes] /\ g[0] = PassBegins
  BY <1>6 DEF Computed
<1>8. ASSUME NEW n \in 1..N  PROVE g[n] = Scan(g[n - 1], page[n])
  <2>1. g[n] = step[<<g[earlier[n]], n>>]
    <3> HIDE DEF step, earlier
    <3> QED  BY <1>6 DEF Computed
  <2>2. earlier[n] = n - 1 /\ g[n - 1] \in Passes
    BY <1>1, <1>7
  <2>3. <<g[n - 1], n>> \in Passes \X (1..N)
    BY <2>2
  <2> QED  BY <2>1, <2>2, <2>3
<1> DEFINE Value(scan, n) == IF n = 0 THEN PassBegins ELSE Scan(scan[n - 1], page[n])
<1>9. g = [n \in 0..N |-> Value(g, n)]
  <2>1. \A n \in 0..N : g[n] = Value(g, n)
    BY <1>7, <1>8, <1>1
  <2> HIDE DEF Value
  <2> QED  BY <1>7, <2>1
<1>10. it = [n \in 0..N |-> Value(it, n)]
  BY <1>9
<1> HIDE DEF it
<1>11. it = g
  <2>1. DOMAIN it = 0..N /\ \A n \in 0..N : it[n] = Value(it, n)
    <3> HIDE DEF Value
    <3> QED  BY <1>10
  <2> DEFINE Bad == {n \in 0..N : it[n] # g[n]}
  <2>2. Bad = {}
    <3> SUFFICES ASSUME Bad # {}  PROVE FALSE
      OBVIOUS
    <3> DEFINE m == Min(Bad)
    <3>1. m \in Bad /\ \A y \in Bad : m <= y
      <4>1. Bad \in SUBSET Nat
        BY <1>1
      <4> HIDE DEF Bad
      <4> QED  BY <4>1, MinIsMember
    <3> HIDE DEF m
    <3>2. m \in 1..N
      BY <3>1, <2>1, <1>7, <1>1
    <3>3. it[m - 1] = g[m - 1]
      BY <3>1, <3>2, <1>1
    <3> QED  BY <3>1, <3>2, <3>3, <2>1, <1>8
  <2>3. it = [n \in 0..N |-> it[n]]
    <3> HIDE DEF Value
    <3> QED  BY <1>10
  <2>4. \A n \in 0..N : it[n] = g[n]
    BY <2>2
  <2> QED  BY <2>3, <2>4, <1>7
<1> QED  BY <1>2, <1>7, <1>8, <1>11 DEF PassOver, N

\* One more marker: the scope ends with the next heading or a gap, and a file is taken
\* in scope alone.
LEMMA ScanTakesUnderHeading ==
    ASSUME NEW page \in Pages, NEW n \in 1..Len(page), NEW scan \in Passes,
           TakenUnderHeading(scan, page, n - 1)
    PROVE  TakenUnderHeading(Scan(scan, page[n]), page, n)
<1> DEFINE U == UnderHeading(page)
           marker == page[n]
<1>1. Len(page) \in Nat /\ DOMAIN page = 1..Len(page) /\ marker \in Markers
  BY PagesAreSequences
<1>2. /\ scan.scope \in BOOLEAN /\ scan.icon \in BOOLEAN
      /\ scan = [scope |-> scan.scope, icon |-> scan.icon, excel |-> scan.excel, others |-> scan.others]
  BY DEF Passes
<1>3. scan.excel \in Seq(U) /\ scan.others \in Seq(U) /\ (scan.scope => HeadingAbove(page, n - 1))
  BY DEF TakenUnderHeading
<1>4. CASE marker \in FileIds
  <2>1. marker \notin {"ltl", "other", "excel", "pdf", "gap"}
    BY <1>4, LocalListAssumption
  <2>2. scan.scope => HeadingAbove(page, n)
    <3> SUFFICES ASSUME scan.scope  PROVE HeadingAbove(page, n)
      OBVIOUS
    <3>1. PICK i \in 1..(n - 1) : page[i] = "ltl" /\ \A k \in i..(n - 1) : page[k] \notin {"other", "gap"}
      BY <1>3 DEF HeadingAbove
    <3>2. \A k \in i..n : page[k] \notin {"other", "gap"}
      BY <3>1, <2>1, <1>1
    <3> QED  BY <3>1, <3>2, <1>1 DEF HeadingAbove
  <2>3. scan.scope => marker \in U
    <3> SUFFICES ASSUME scan.scope  PROVE marker \in U
      OBVIOUS
    <3>1. PICK i \in 1..n : page[i] = "ltl" /\ \A k \in i..n : page[k] \notin {"other", "gap"}
      BY <2>2 DEF HeadingAbove
    <3>2. i # n /\ i \in DOMAIN page /\ n \in DOMAIN page
      BY <3>1, <2>1, <1>1
    <3>3. i < n
      BY <3>2, <1>1
    <3> QED  BY <3>1, <3>2, <3>3, <1>4 DEF UnderHeading
  <2> DEFINE new == scan.scope /\ marker \notin Range(scan.excel) \cup Range(scan.others)
             e == IF new /\ scan.icon THEN Append(scan.excel, marker) ELSE scan.excel
             o == IF new /\ ~scan.icon THEN Append(scan.others, marker) ELSE scan.others
  <2> HIDE DEF U
  <2>4. e \in Seq(U) /\ o \in Seq(U)
    BY <1>3, <2>3
  <2>5. Scan(scan, marker) = [scan EXCEPT !.icon = FALSE, !.excel = e, !.others = o]
    BY <1>4 DEF Scan
  <2> HIDE DEF e, o
  <2>6. Scan(scan, marker).scope = scan.scope /\ Scan(scan, marker).excel = e /\ Scan(scan, marker).others = o
    BY <1>2, <2>5
  <2> QED  BY <2>2, <2>4, <2>6 DEF TakenUnderHeading, U
<1>5. CASE marker \notin FileIds
  <2>1. /\ Scan(scan, marker).scope = InScope(scan, marker)
        /\ Scan(scan, marker).excel = scan.excel /\ Scan(scan, marker).others = scan.others
    BY <1>2, <1>5 DEF Scan
  <2>2. ASSUME InScope(scan, marker)  PROVE HeadingAbove(page, n)
    <3>1. CASE marker = "ltl"
      <4>1. \A k \in n..n : page[k] \notin {"other", "gap"}
        BY <3>1, <1>1
      <4> QED  BY <4>1, <3>1, <1>1 DEF HeadingAbove
    <3>2. CASE marker # "ltl"
      <4>1. scan.scope /\ marker \notin {"other", "gap"}
        BY <3>2, <2>2 DEF InScope
      <4>2. PICK i \in 1..(n - 1) : page[i] = "ltl" /\ \A k \in i..(n - 1) : page[k] \notin {"other", "gap"}
        BY <1>3, <4>1 DEF HeadingAbove
      <4>3. \A k \in i..n : page[k] \notin {"other", "gap"}
        BY <4>2, <4>1, <1>1
      <4> QED  BY <4>2, <4>3, <1>1 DEF HeadingAbove
    <3> QED  BY <3>1, <3>2
  <2> QED  BY <2>1, <2>2, <1>3 DEF TakenUnderHeading
<1> QED  BY <1>4, <1>5

\* However the page is laid out, every candidate stands under the heading.
LEMMA CandidatesUnderHeading ==
    ASSUME NEW page \in Pages
    PROVE  _candidate_file_ids(page) \in Seq(UnderHeading(page))
<1>1. PICK scan : /\ PassOver(scan, page)
                  /\ _candidate_file_ids(page) = scan[Len(page)].excel \o scan[Len(page)].others
  BY CandidatesOfPass
<1>2. Len(page) \in Nat
  BY PagesAreSequences
<1> DEFINE Bad == {n \in 0..Len(page) : ~TakenUnderHeading(scan[n], page, n)}
<1>3. Bad = {}
  <2> SUFFICES ASSUME Bad # {}  PROVE FALSE
    OBVIOUS
  <2> DEFINE m == Min(Bad)
  <2>1. m \in Bad /\ \A y \in Bad : m <= y
    <3>1. Bad \in SUBSET Nat
      BY <1>2
    <3> HIDE DEF Bad
    <3> QED  BY <3>1, MinIsMember
  <2> HIDE DEF m
  <2>2. m # 0
    <3>1. TakenUnderHeading(scan[0], page, 0)
      BY <1>1 DEF PassOver, PassBegins, TakenUnderHeading
    <3> QED  BY <3>1, <2>1
  <2>3. m \in 1..Len(page) /\ m - 1 \in 0..Len(page)
    BY <2>1, <2>2, <1>2
  <2>4. TakenUnderHeading(scan[m - 1], page, m - 1)
    BY <2>1, <2>3, <1>2
  <2>5. TakenUnderHeading(scan[m], page, m)
    BY <2>3, <2>4, <1>1, ScanTakesUnderHeading DEF PassOver
  <2> QED  BY <2>5, <2>1
<1>4. TakenUnderHeading(scan[Len(page)], page, Len(page))
  BY <1>3, <1>2
<1> QED  BY <1>4, <1>1 DEF TakenUnderHeading

\* The fields of a refresh: what it still downloads, and what it parses, stands under the
\* heading; one that downloads has a file left.
FeedParts(phase, todo, tries, file, under, book) ==
    /\ phase \in {"idle", "page", "download", "parse"} /\ tries \in 0..max_attempts
    /\ under \in SUBSET FileIds /\ todo \in Seq(under)
    /\ phase = "download" => todo # <<>>
    /\ book \in Books \cup {<<>>} /\ (phase = "parse" => book \in Books)
    /\ phase = "parse" /\ file # None => file \in under

Feeds(f) ==
    \E phase, todo, tries, file, under, book :
        /\ FeedParts(phase, todo, tries, file, under, book)
        /\ f = [phase |-> phase, todo |-> todo, tries |-> tries, file |-> file, under |-> under, book |-> book]

ListInv ==
    /\ Feeds(feed)
    /\ index \in [SourceId -> Entity \cup {None}]
    /\ \A id \in SourceId : index[id] # None => ~index[id].delisted

LEMMA BooksAreSequences ==
    ASSUME NEW book \in Books
    PROVE  \E n \in Nat : DOMAIN book = 1..n /\ book \in [1..n -> Sheet]
  BY LocalListAssumption DEF Books

\* What a workbook loads: entities, none of a sheet that lists the delisted.
LEMMA LoadedType ==
    ASSUME NEW book \in Books
    PROVE  /\ Loaded(book) \in [SourceId -> Entity \cup {None}]
           /\ \A id \in SourceId : Loaded(book)[id] # None => ~Loaded(book)[id].delisted
<1>1. PICK n \in Nat : DOMAIN book = 1..n /\ book \in [1..n -> Sheet]
  BY BooksAreSequences
<1>2. ASSUME NEW id \in SourceId,
             NEW rows, rows = {i \in Yielding(book) : source_id(book[i]) = id}, rows # {}
      PROVE  _row_to_entity(book[Max(rows)]) \in Entity /\ ~_row_to_entity(book[Max(rows)]).delisted
  <2>1. rows \in SUBSET (0..n)
    BY <1>1, <1>2 DEF Yielding
  <2>2. Max(rows) \in rows
    BY <2>1, <1>2, MaxIsMember
  <2> DEFINE r == Max(rows)
  <2> HIDE DEF r
  <2>3. r \in 1..n /\ Read_(book[r]) /\ book[r].row.name # None
    BY <1>1, <1>2, <2>2 DEF Yielding, r
  <2>4. book[r].row.name \in Listees /\ "delisting" \notin book[r].columns
    BY <1>1, <2>3 DEF Read_, Sheet, SheetRow
  <2>5. _row_to_entity(book[r]) = [name |-> book[r].row.name, delisted |-> FALSE]
    <3>1. ("delisting" \in book[r].columns) = FALSE
      BY <2>4
    <3> QED  BY <3>1, Zenon DEF _row_to_entity
  <2>6. _row_to_entity(book[r]) \in Entity /\ ~_row_to_entity(book[r]).delisted
    BY <2>4, <2>5 DEF Entity
  <2> QED  BY <2>6 DEF r
<1> DEFINE rowsOf(id) == {i \in Yielding(book) : source_id(book[i]) = id}
           at(id) == IF rowsOf(id) = {} THEN None ELSE _row_to_entity(book[Max(rowsOf(id))])
<1>3. \A id \in SourceId : at(id) \in Entity \cup {None} /\ (at(id) # None => ~at(id).delisted)
  BY <1>2
<1>4. Loaded(book) = [id \in SourceId |-> at(id)]
  BY DEF Loaded
<1> HIDE DEF at
<1> QED  BY <1>3, <1>4

THEOREM OnlyTheLocalListCorrect == LocalListSpec => [](LocalListTypeOK /\ OnlyTheLocalList)
<1>0. Feeds(NoFeed)
  <2>1. FeedParts("idle", <<>>, 0, None, {}, <<>>)
    BY LocalListAssumption DEF FeedParts
  <2> QED  BY <2>1 DEF Feeds, NoFeed
<1>1. LocalListInit => ListInv
  BY <1>0 DEF LocalListInit, ListInv
<1>2. ListInv /\ [LocalListNext]_localListVars => ListInv'
  <2> SUFFICES ASSUME ListInv, [LocalListNext]_localListVars  PROVE ListInv'
    OBVIOUS
  <2>1. ASSUME Feeds(feed'), UNCHANGED index  PROVE ListInv'
    BY <2>1 DEF ListInv
  <2>2. PICK phase, todo, tries, file, under, book :
            /\ FeedParts(phase, todo, tries, file, under, book)
            /\ feed = [phase |-> phase, todo |-> todo, tries |-> tries, file |-> file, under |-> under,
                       book |-> book]
    BY DEF ListInv, Feeds
  <2>3. CASE UNCHANGED localListVars
    BY <2>3 DEF localListVars, ListInv
  <2>4. CASE RefreshBegins
    <3>1. FeedParts("page", <<>>, 0, None, {}, <<>>)
      BY LocalListAssumption DEF FeedParts
    <3>2. Feeds(feed')
      BY <3>1, <2>4 DEF RefreshBegins, Feeds, NoFeed
    <3> QED  BY <3>2, <2>1, <2>4 DEF RefreshBegins
  <2>5. CASE FetchOverride
    <3>1. PICK b \in Books : feed' = [NoFeed EXCEPT !.phase = "parse", !.book = b]
      BY <2>5 DEF FetchOverride
    <3>2. FeedParts("parse", <<>>, 0, None, {}, b)
      BY LocalListAssumption DEF FeedParts
    <3>3. feed' = [phase |-> "parse", todo |-> <<>>, tries |-> 0, file |-> None, under |-> {}, book |-> b]
      BY <3>1 DEF NoFeed
    <3>4. Feeds(feed')
      BY <3>2, <3>3 DEF Feeds
    <3> QED  BY <3>4, <2>1, <2>5 DEF FetchOverride
  <2>6. CASE ReadPage
    <3>1. PICK page \in Pages :
              feed' = IF Tried(_candidate_file_ids(page)) = <<>> THEN NoFeed
                      ELSE [NoFeed EXCEPT !.phase = "download", !.todo = Tried(_candidate_file_ids(page)),
                                          !.under = UnderHeading(page)]
      BY <2>6 DEF ReadPage
    <3> DEFINE c == _candidate_file_ids(page)
               u == UnderHeading(page)
               t == Tried(c)
    <3>2. c \in Seq(u) /\ u \in SUBSET FileIds
      BY CandidatesUnderHeading DEF UnderHeading
    <3>3. t \in Seq(u)
      <4> HIDE DEF c, u
      <4> DEFINE n == Min({Len(c), _MAX_DOWNLOAD_ATTEMPTS})
      <4>1. n \in Nat /\ n <= Len(c)
        <5>1. {Len(c), _MAX_DOWNLOAD_ATTEMPTS} \in SUBSET Nat
          BY <3>2, LocalListAssumption
        <5> QED  BY <5>1, MinIsMember
      <4> HIDE DEF n
      <4>2. SubSeq(c, 1, n) \in Seq(u)
        BY <3>2, <4>1
      <4> QED  BY <4>2 DEF Tried, n
    <3> HIDE DEF c, u, t
    <3>4. CASE t = <<>>
      <4>1. Feeds(feed')
        BY <3>1, <3>4, <1>0 DEF t, c
      <4> QED  BY <4>1, <2>1, <2>6 DEF ReadPage
    <3>5. CASE t # <<>>
      <4>1. FeedParts("download", t, 0, None, u, <<>>)
        BY <3>2, <3>3, <3>5, LocalListAssumption DEF FeedParts
      <4>2. feed' = [NoFeed EXCEPT !.phase = "download", !.todo = t, !.under = u]
        BY <3>1, <3>5 DEF t, c, u
      <4>3. feed' = [phase |-> "download", todo |-> t, tries |-> 0, file |-> None, under |-> u, book |-> <<>>]
        BY <4>2 DEF NoFeed
      <4>4. Feeds(feed')
        BY <4>1, <4>3 DEF Feeds
      <4> QED  BY <4>4, <2>1, <2>6 DEF ReadPage
    <3> QED  BY <3>4, <3>5
  <2>7. ASSUME NEW transient \in BOOLEAN, DownloadFails(transient)  PROVE ListInv'
    <3>1. CASE feed' = NoFeed
      BY <3>1, <1>0, <2>1, <2>7 DEF DownloadFails
    <3>2. CASE feed' # NoFeed
      <4>1. tries + 1 < max_attempts /\ feed' = [feed EXCEPT !.tries = tries + 1]
        BY <3>2, <2>2, <2>7 DEF DownloadFails
      <4>2. FeedParts(phase, todo, tries + 1, file, under, book)
        BY <4>1, <2>2, LocalListAssumption DEF FeedParts
      <4>3. feed' = [phase |-> phase, todo |-> todo, tries |-> tries + 1, file |-> file, under |-> under,
                     book |-> book]
        BY <4>1, <2>2
      <4>4. Feeds(feed')
        BY <4>2, <4>3 DEF Feeds
      <4> QED  BY <4>4, <2>1, <2>7 DEF DownloadFails
    <3> QED  BY <3>1, <3>2
  <2>8. CASE DownloadOther
    <3>1. CASE feed' = NoFeed
      BY <3>1, <1>0, <2>1, <2>8 DEF DownloadOther
    <3>2. CASE feed' # NoFeed
      <4>1. /\ phase = "download" /\ Len(todo) # 1
            /\ feed' = [phase |-> phase, todo |-> Tail(todo), tries |-> 0, file |-> file, under |-> under,
                        book |-> book]
        BY <3>2, <2>2, <2>8 DEF DownloadOther
      <4>2. todo \in Seq(under) /\ todo # <<>>
        BY <4>1, <2>2 DEF FeedParts
      <4>3. Tail(todo) \in Seq(under) /\ Tail(todo) # <<>>
        <5>1. Len(todo) \in Nat \ {0}
          BY <4>2, EmptySeq
        <5>2. Tail(todo) \in Seq(under) /\ Len(Tail(todo)) = Len(todo) - 1
          BY <4>2, HeadTailProperties
        <5>3. Len(Tail(todo)) # 0
          BY <4>1, <5>1, <5>2
        <5>4. Len(<<>>) = 0
          BY EmptySeq
        <5> QED  BY <5>2, <5>3, <5>4
      <4>4. FeedParts(phase, Tail(todo), 0, file, under, book)
        BY <4>3, <2>2, LocalListAssumption DEF FeedParts
      <4>5. Feeds(feed')
        BY <4>1, <4>4 DEF Feeds
      <4> QED  BY <4>5, <2>1, <2>8 DEF DownloadOther
    <3> QED  BY <3>1, <3>2
  <2>9. CASE DownloadWorkbook
    <3>1. PICK b \in Books : feed' = [NoFeed EXCEPT !.phase = "parse", !.file = Head(feed.todo), !.book = b,
                                                    !.under = feed.under \cap {Head(feed.todo)}]
      BY <2>9 DEF DownloadWorkbook
    <3>2. phase = "download" /\ todo \in Seq(under) /\ todo # <<>> /\ under \in SUBSET FileIds
      BY <2>2, <2>9 DEF DownloadWorkbook, FeedParts
    <3> DEFINE h == Head(todo)
               u == under \cap {h}
    <3>3. h \in under
      BY <3>2
    <3>4. h \in u /\ u \in SUBSET FileIds
      BY <3>2, <3>3
    <3>5. feed' = [phase |-> "parse", todo |-> <<>>, tries |-> 0, file |-> h, under |-> u, book |-> b]
      BY <3>1, <2>2 DEF NoFeed
    <3> HIDE DEF h, u
    <3>6. FeedParts("parse", <<>>, 0, h, u, b)
      BY <3>4, LocalListAssumption DEF FeedParts
    <3>7. Feeds(feed')
      BY <3>5, <3>6 DEF Feeds
    <3> QED  BY <3>7, <2>1, <2>9 DEF DownloadWorkbook
  <2>10. CASE Refresh
    <3>1. feed.book \in Books /\ feed' = NoFeed /\ (index' = Loaded(feed.book) \/ UNCHANGED index)
      BY <2>2, <2>10 DEF Refresh, FeedParts
    <3>2. ASSUME index' = Loaded(feed.book)  PROVE ListInv'
      BY <3>1, <3>2, <1>0, LoadedType DEF ListInv
    <3> QED  BY <3>1, <3>2, <1>0, <2>1
  <2>11. CASE RefreshDies
    BY <2>11, <1>0, <2>1 DEF RefreshDies
  <2> QED
    BY <2>3, <2>4, <2>5, <2>6, <2>7, <2>8, <2>9, <2>10, <2>11, Zenon DEF LocalListNext
<1>3. ListInv => LocalListTypeOK /\ OnlyTheLocalList
  <2> SUFFICES ASSUME ListInv  PROVE LocalListTypeOK /\ OnlyTheLocalList
    OBVIOUS
  <2>1. PICK phase, todo, tries, file, under, book :
            /\ FeedParts(phase, todo, tries, file, under, book)
            /\ feed = [phase |-> phase, todo |-> todo, tries |-> tries, file |-> file, under |-> under,
                       book |-> book]
    BY DEF ListInv, Feeds
  <2>2. todo \in Seq(under) /\ under \in SUBSET FileIds /\ book \in Books \cup {<<>>}
    BY <2>1 DEF FeedParts
  <2>3. Range(todo) \subseteq under /\ \A i \in DOMAIN todo : todo[i] \in under
    BY <2>2 DEF Range
  <2>4. Range(book) \subseteq Sheet
    <3>1. CASE book = <<>>
      BY <3>1 DEF Range
    <3>2. CASE book \in Books
      BY <3>2, BooksAreSequences DEF Range
    <3> QED  BY <3>1, <3>2, <2>2
  <2>5. LocalListTypeOK
    BY <2>1, <2>2, <2>3, <2>4 DEF LocalListTypeOK, ListInv, FeedParts
  <2>6. OnlyTheLocalList
    BY <2>1, <2>3 DEF OnlyTheLocalList, ListInv, FeedParts
  <2> QED  BY <2>5, <2>6
<1> QED  BY <1>1, <1>2, <1>3, PTL DEF LocalListSpec

-------------------------------------------------------------------------------
\* Types

\* Types of the lists that are overdue, of what was announced, and of the refresh.
THEOREM StalenessTypeCorrect == StalenessSpec => []StalenessTypeOK
<1> DEFINE Phases == {"idle", "refresh", "mail", "mark", "purge"}
           JobOK == job \in [phase : Phases, lists : SUBSET Lists]
           Inv == StalenessTypeOK /\ JobOK
<1>0. NoJob \in [phase : Phases, lists : SUBSET Lists]
  BY DEF NoJob
<1>1. StalenessInit => Inv
  BY <1>0, StalenessAssumption DEF StalenessInit, StalenessTypeOK
<1>2. Inv /\ [StalenessNext]_stalenessVars => Inv'
  <2> SUFFICES ASSUME Inv, [StalenessNext]_stalenessVars  PROVE Inv'
    OBVIOUS
  <2> DEFINE ListsOK == overdue \subseteq Lists /\ notified \subseteq Lists /\ announced \subseteq Lists
             FlagsOK == smtp \in BOOLEAN /\ mlros \in BOOLEAN /\ expired \in BOOLEAN
  <2>0. Inv <=> ListsOK /\ FlagsOK /\ JobOK
    BY DEF StalenessTypeOK
  <2>00. Inv' <=> ListsOK' /\ FlagsOK' /\ JobOK'
    BY DEF StalenessTypeOK
  <2> HIDE DEF Inv
  <2>1. CASE system_refresh
    BY <1>0, <2>0, <2>00, <2>1 DEF system_refresh
  <2>2. ASSUME NEW d \in Lists, ListLoaded(d) \/ ListFailed(d)  PROVE Inv'
    BY <2>0, <2>00, <2>2 DEF ListLoaded, ListFailed
  <2>3. CASE NoBreach
    BY <2>0, <2>00, <2>3 DEF NoBreach, Checked
  <2>4. CASE NothingToSay
    BY <2>0, <2>00, <2>4 DEF NothingToSay, Checked
  <2>5. CASE NewBreach
    BY <2>0, <2>00, <2>5 DEF NewBreach, Checked, needs_notification
  <2>6. CASE send_staleness_alert
    BY <2>0, <2>00, <2>6 DEF send_staleness_alert
  <2>7. CASE AlertFails
    BY <1>0, <2>0, <2>00, <2>7 DEF AlertFails
  <2>8. CASE MarkNotified
    BY <2>0, <2>00, <2>8 DEF MarkNotified
  <2>9. CASE purge_applications
    BY <1>0, <2>0, <2>00, <2>9 DEF purge_applications
  <2>10. CASE PurgeFails \/ JobDies
    BY <1>0, <2>0, <2>00, <2>10 DEF PurgeFails, JobDies
  <2>11. ASSUME NEW d \in Lists, FallsOverdue(d)  PROVE Inv'
    BY <2>0, <2>00, <2>11 DEF FallsOverdue
  <2>12. CASE ApplicationExpires
    BY <2>0, <2>00, <2>12 DEF ApplicationExpires
  <2>13. CASE MlroChanges
    BY <2>0, <2>00, <2>13 DEF MlroChanges
  <2>14. CASE UNCHANGED stalenessVars
    BY <2>0, <2>00, <2>14 DEF stalenessVars
  <2> QED
    BY <2>1, <2>2, <2>3, <2>4, <2>5, <2>6, <2>7, <2>8, <2>9, <2>10, <2>11, <2>12, <2>13, <2>14
    DEF StalenessNext, JobStep, CheckStep
<1>3. Inv => StalenessTypeOK
  OBVIOUS
<1> QED  BY <1>1, <1>2, <1>3, PTL DEF StalenessSpec

\* A check of the news: its steps, its candidates and its counts.
SearchSteps == {"query", "vertex", "resolve", "triage", "vault", "file"}
SearchRow == [todo : Seq(SearchSteps), urls : SUBSET Urls, found : Nat, answers : Nat, errors : Nat]
MediaInv == MediaTypeOK /\ mediaTime \in Nat /\ searches \in [Slots -> SearchRow]

LEMMA SearchEntered ==
    ASSUME MediaInv, NEW s \in Slots, NEW r \in SearchRow,
           searches' = [searches EXCEPT ![s] = r], environ' = environ, filed' \in [Urls -> Nat],
           surfaced' \subseteq Urls, last_ok' \in 0..mediaTime \cup {None},
           UNCHANGED <<mediaRating, mediaTime>>
    PROVE  MediaInv'
<1>1. searches' \in [Slots -> SearchRow]
  BY DEF MediaInv
<1>2. \A t \in Slots : /\ searches'[t].urls \subseteq Urls
                        /\ {searches'[t].found, searches'[t].answers, searches'[t].errors} \subseteq Nat
  BY <1>1 DEF SearchRow
<1> QED  BY <1>1, <1>2 DEF MediaInv, MediaTypeOK

LEMMA SearchAdvances ==
    ASSUME MediaInv, NEW s \in Slots, searches[s].todo # <<>>, NEW r \in SearchRow, r.todo = searches[s].todo,
           Advance(s, r), UNCHANGED <<environ, filed, last_ok, mediaRating, mediaTime>>, surfaced' \subseteq Urls
    PROVE  MediaInv'
<1>1. r.todo \in Seq(SearchSteps) /\ r.todo # <<>>
  BY DEF SearchRow
<1>2. Tail(r.todo) \in Seq(SearchSteps)
  BY <1>1
<1> DEFINE q == [r EXCEPT !.todo = Tail(r.todo)]
<1>3. q \in SearchRow
  BY <1>2 DEF SearchRow
<1>4. searches' = [searches EXCEPT ![s] = q]
  BY DEF Advance
<1> HIDE DEF q
<1>5. filed \in [Urls -> Nat] /\ last_ok \in 0..mediaTime \cup {None}
  BY DEF MediaInv, MediaTypeOK
<1> QED  BY <1>3, <1>4, <1>5, SearchEntered

\* Types of the articles that were filed, and of the checks.
THEOREM MediaTypeCorrect == MediaSpec => []MediaTypeOK
<1>0. NoSearch \in SearchRow
  BY DEF NoSearch, SearchRow
<1>1. MediaInit => MediaInv
  <2> SUFFICES ASSUME MediaInit  PROVE MediaInv
    OBVIOUS
  <2>1. searches \in [Slots -> SearchRow]
    BY <1>0 DEF MediaInit
  <2>2. \A s \in Slots : /\ searches[s].urls \subseteq Urls
                          /\ {searches[s].found, searches[s].answers, searches[s].errors} \subseteq Nat
    BY <2>1 DEF SearchRow
  <2> QED  BY <2>1, <2>2 DEF MediaInit, MediaInv, MediaTypeOK
<1>2. MediaInv /\ [MediaNext]_mediaVars => MediaInv'
  <2> SUFFICES ASSUME MediaInv, [MediaNext]_mediaVars  PROVE MediaInv'
    OBVIOUS
  <2>0. /\ filed \in [Urls -> Nat] /\ last_ok \in 0..mediaTime \cup {None} /\ mediaTime \in Nat
        /\ surfaced \subseteq Urls /\ \A s \in Slots : searches[s] \in SearchRow
    BY DEF MediaInv, MediaTypeOK
  <2>1. CASE MediaTick
    BY <2>0, <2>1 DEF MediaTick, MediaInv, MediaTypeOK
  <2>2. CASE Rerated
    BY <2>2 DEF Rerated, MediaInv, MediaTypeOK
  <2>3. ASSUME NEW s \in Slots, run_adverse_media(s)  PROVE MediaInv'
    <3>1. MediaStages \in Seq(SearchSteps)
      <4>0. "query" \in SearchSteps
        BY DEF SearchSteps
      <4>01. <<"query">> \in Seq(SearchSteps) /\ <<"query", "query">> \in Seq(SearchSteps)
        BY <4>0
      <4>1. Queries \in Seq(SearchSteps)
        BY <4>01 DEF Queries
      <4>2. <<"file">> \in Seq(SearchSteps) /\ <<"vertex">> \in Seq(SearchSteps) /\ <<>> \in Seq(SearchSteps)
            /\ <<"resolve", "triage", "vault", "file">> \in Seq(SearchSteps)
        BY DEF SearchSteps
      <4>3. \A a, b \in Seq(SearchSteps) : a \o b \in Seq(SearchSteps)
        BY ConcatProperties
      <4> QED  BY <4>1, <4>2, <4>3 DEF MediaStages
    <3> DEFINE r == [NoSearch EXCEPT !.todo = MediaStages]
    <3>2. r \in SearchRow
      BY <1>0, <3>1 DEF SearchRow
    <3>3. searches' = [searches EXCEPT ![s] = r]
      BY <2>3 DEF run_adverse_media
    <3> HIDE DEF r
    <3> QED  BY <2>0, <2>3, <3>2, <3>3, SearchEntered DEF run_adverse_media
  <2>4. ASSUME NEW s \in Slots, NEW articles \in SUBSET Urls, fetch(s, articles)  PROVE MediaInv'
    <3> DEFINE new == Acquired(searches[s], articles)
               r == [searches[s] EXCEPT !.urls = searches[s].urls \cup new,
                                        !.found = searches[s].found + Cardinality(new),
                                        !.answers = searches[s].answers + 1]
    <3>1. new \subseteq Urls
      BY DEF Acquired
    <3>2. Cardinality(new) \in Nat
      BY <3>1, MediaAssumption, FS_Subset, FS_CardinalityType
    <3> HIDE DEF new
    <3> DEFINE u == searches[s].urls \cup new
               f == searches[s].found + Cardinality(new)
               a == searches[s].answers + 1
    <3>21. u \in SUBSET Urls /\ f \in Nat /\ a \in Nat
      BY <2>0, <3>1, <3>2 DEF SearchRow
    <3>22. r = [searches[s] EXCEPT !.urls = u, !.found = f, !.answers = a]
      OBVIOUS
    <3> HIDE DEF u, f, a, r
    <3>3. r \in SearchRow /\ r.todo = searches[s].todo
      BY <2>0, <3>21, <3>22 DEF SearchRow
    <3> USE DEF r
    <3>4. Advance(s, r) /\ searches[s].todo # <<>> /\ UNCHANGED <<environ, filed, surfaced, last_ok, mediaRating, mediaTime>>
      BY <2>4 DEF fetch, At, new
    <3> HIDE DEF r
    <3> QED  BY <2>0, <3>3, <3>4, SearchAdvances
  <2>5. ASSUME NEW s \in Slots, MediaUnavailable(s)  PROVE MediaInv'
    <3> DEFINE r == [searches[s] EXCEPT !.errors = searches[s].errors + 1]
    <3>1. r \in SearchRow /\ r.todo = searches[s].todo
      BY <2>0 DEF SearchRow
    <3>2. Advance(s, r) /\ searches[s].todo # <<>> /\ UNCHANGED <<environ, filed, surfaced, last_ok, mediaRating, mediaTime>>
      BY <2>5 DEF MediaUnavailable, At
    <3> HIDE DEF r
    <3> QED  BY <2>0, <3>1, <3>2, SearchAdvances
  <2>6. ASSUME NEW s \in Slots, EnoughArticles(s) \/ _finish_run(s)  PROVE MediaInv'
    <3>1. /\ Advance(s, searches[s]) /\ searches[s].todo # <<>> /\ surfaced' \subseteq Urls
          /\ UNCHANGED <<environ, filed, last_ok, mediaRating, mediaTime>>
      BY <2>0, <2>6 DEF EnoughArticles, _finish_run, At, SearchRow
    <3> QED  BY <2>0, <3>1, SearchAdvances
  <2>7. ASSUME NEW s \in Slots, NEW kept \in SUBSET searches[s].urls, _resolve_entities(s, kept) \/ _triage(s, kept)
        PROVE  MediaInv'
    <3> DEFINE r == [searches[s] EXCEPT !.urls = kept]
    <3>1. r \in SearchRow /\ r.todo = searches[s].todo
      BY <2>0 DEF SearchRow
    <3>2. Advance(s, r) /\ searches[s].todo # <<>> /\ UNCHANGED <<environ, filed, surfaced, last_ok, mediaRating, mediaTime>>
      BY <2>7 DEF _resolve_entities, _triage, At
    <3> HIDE DEF r
    <3> QED  BY <2>0, <3>1, <3>2, SearchAdvances
  <2>8. ASSUME NEW s \in Slots, _persist_adverse_media(s)  PROVE MediaInv'
    <3>1. filed' \in [Urls -> Nat] /\ last_ok' \in 0..mediaTime \cup {None}
      BY <2>0, <2>8 DEF _persist_adverse_media
    <3> QED  BY <1>0, <2>0, <2>8, <3>1, SearchEntered DEF _persist_adverse_media
  <2>9. ASSUME NEW s \in Slots, MediaDies(s)  PROVE MediaInv'
    BY <1>0, <2>0, <2>9, SearchEntered DEF MediaDies
  <2>10. CASE UNCHANGED mediaVars
    BY <2>10 DEF mediaVars, MediaInv, MediaTypeOK
  <2> QED
    BY <2>1, <2>2, <2>3, <2>4, <2>5, <2>6, <2>7, <2>8, <2>9, <2>10 DEF MediaNext, run_due_adverse_media
<1>3. MediaInv => MediaTypeOK
  BY DEF MediaInv
<1> QED  BY <1>1, <1>2, <1>3, PTL DEF MediaSpec

-------------------------------------------------------------------------------
\* Types of the rows of Retention, whether or not requests overlap

Named == {"close", "reactivate", "submit", "store", "row"}
TaskNamed(t) == t.phase \in Named => t.customer \in Customers
RetentionRows ==
    /\ customer \in [Customers -> Customer] /\ year \in 1..MaxYear
    /\ rreq \in [Slots -> Task]
    /\ \A s \in Slots : TaskNamed(rreq[s])

LEMMA YearTypes ==
    ASSUME NEW y \in 1..MaxYear
    PROVE  /\ y \in Dates /\ y + 1 \in Dates /\ 0 \in Dates /\ 1 \in Dates
           /\ \A date \in Dates : retention_from(date) \in 0..MaxYear + 1 + RETENTION_YEARS
           /\ \A a, b \in Dates : Max({a, b}) \in Dates
<1>1. MaxYear \in Nat /\ RETENTION_YEARS \in Nat
  BY RetentionAssumption
<1>2. \A a, b \in Dates : Max({a, b}) \in {a, b}
  <2> SUFFICES ASSUME NEW a \in Dates, NEW b \in Dates  PROVE Max({a, b}) \in {a, b}
    OBVIOUS
  <2>1. {a, b} \in SUBSET (0..MaxYear + 1) /\ {a, b} # {} /\ MaxYear + 1 \in Nat
    BY <1>1 DEF Dates
  <2> QED  BY <2>1, MaxIsMember
<1>3. \A a, b \in Dates : Max({a, b}) \in Dates
  BY <1>2
<1> QED  BY <1>1, <1>3 DEF Dates, retention_from

LEMMA RecomputedType ==
    ASSUME NEW row \in Customer, NEW y \in 1..MaxYear
    PROVE  Recomputed(row) \in Customer
<1>1. row \in KeptRow
  <2>1. MaxYear + 1 + RETENTION_YEARS \in Nat /\ MaxYear + 1 \in Nat
    BY RetentionAssumption
  <2> QED  BY <2>1 DEF Customer, KeptRow, Dates
<1> DEFINE until == Recomputed(row).until
<1>2. Recomputed(row) = [row EXCEPT !.until = until]
      /\ (until = row.until \/ \E a \in Anchors(row) : until = retention_from(a))
  BY <1>1, RecomputedOK
<1>3. \A a \in Anchors(row) : a \in Dates
  BY YearTypes DEF Anchors, Customer
<1>4. until \in 0..MaxYear + 1 + RETENTION_YEARS
  <2>1. row.until \in 0..MaxYear + 1 + RETENTION_YEARS
    BY DEF Customer
  <2> HIDE DEF until
  <2> QED  BY <1>2, <1>3, <2>1, YearTypes
<1> HIDE DEF until
<1> QED  BY <1>2, <1>4 DEF Customer

LEMMA TaskTypes == NoTask \in Task /\ TaskNamed(NoTask)
<1>1. NoTask \in Task /\ NoTask.phase = "idle"
  BY NoTaskOK DEF NoTask
<1> QED  BY <1>1 DEF TaskNamed, Named

LEMMA RetentionKept ==
    ASSUME RetentionRows, NEW c \in Customers, NEW new \in Customer, NEW s \in Slots, NEW t \in Task, TaskNamed(t),
           customer' = customer \/ customer' = [customer EXCEPT ![c] = new],
           rreq' = rreq \/ rreq' = [rreq EXCEPT ![s] = t], year' = year
    PROVE  RetentionRows'
<1>1. customer' \in [Customers -> Customer] /\ rreq' \in [Slots -> Task] /\ year' \in 1..MaxYear
  BY DEF RetentionRows
<1>2. \A p \in Slots : TaskNamed(rreq'[p])
  BY DEF RetentionRows
<1> QED  BY <1>1, <1>2 DEF RetentionRows, TaskNamed

LEMMA RequestTypes ==
    ASSUME RetentionRows, NEW s \in Slots, RequestStep(s)
    PROVE  RetentionRows'
<1>0. /\ customer \in [Customers -> Customer] /\ rreq[s] \in Task /\ rreq \in [Slots -> Task]
      /\ TaskNamed(rreq[s]) /\ year \in 1..MaxYear
  BY DEF RetentionRows
<1>1. ASSUME NEW c \in Customers, NEW phase \in Named, Begin(s, phase, c)  PROVE RetentionRows'
  <2> DEFINE t == [phase |-> phase, customer |-> c, todo |-> {}]
  <2>1. t \in Task /\ TaskNamed(t)
    BY DEF Task, TaskNamed, Named
  <2>2. customer' = customer /\ rreq' = [rreq EXCEPT ![s] = t] /\ year' = year /\ customer[c] \in Customer
    BY <1>0, <1>1 DEF Begin
  <2> HIDE DEF t
  <2> QED  BY <1>0, <2>1, <2>2, RetentionKept
<1>2. ASSUME NEW new, new \in Customer, Write(s, new), rreq[s].phase \in Named  PROVE RetentionRows'
  <2>1. rreq[s].customer \in Customers
    BY <1>0, <1>2 DEF TaskNamed
  <2> QED  BY <1>0, <1>2, <2>1, TaskTypes, RetentionKept DEF Write
<1>3. CASE \E c \in Customers : CloseRead(s, c) \/ ReactivateRead(s, c) \/ SubmitRead(s, c) \/ UploadRead(s, c)
  <2>1. {"close", "reactivate", "submit", "store"} \subseteq Named
    BY DEF Named
  <2> QED  BY <1>1, <1>3, <2>1 DEF CloseRead, ReactivateRead, SubmitRead, UploadRead
<1> DEFINE row == customer[rreq[s].customer]
<1>4. rreq[s].phase \in Named => row \in Customer
  BY <1>0 DEF TaskNamed
<1>5. retention_from(year) \in 0..MaxYear + 1 + RETENTION_YEARS /\ year \in Dates /\ 0 \in Dates
  BY <1>0, YearTypes
<1>6. CASE close_relationship(s)
  <2> DEFINE status == "closed"  until == retention_from(year)
             new == [row EXCEPT !.status = status, !.exit = year, !.until = until]
  <2>1. Write(s, Recomputed(new)) /\ rreq[s].phase \in Named /\ status \in {"closed"}
    BY <1>6 DEF close_relationship, Named
  <2>2. until \in 0..MaxYear + 1 + RETENTION_YEARS
    BY <1>5
  <2> HIDE DEF row, status, until
  <2>3. new \in Customer
    BY <1>4, <1>5, <2>1, <2>2 DEF Customer
  <2> HIDE DEF new
  <2> QED  BY <1>0, <1>2, <2>1, <2>3, RecomputedType
<1>7. CASE reactivate_customer(s)
  <2> DEFINE status == "active"  until == retention_from(year)  exit == 0
             new == [row EXCEPT !.status = status, !.exit = exit, !.until = until]
  <2>1. Write(s, new) /\ rreq[s].phase \in Named /\ status \in {"active"}
    BY <1>7 DEF reactivate_customer, Named
  <2>2. until \in 0..MaxYear + 1 + RETENTION_YEARS /\ exit \in Dates
    BY <1>5
  <2> HIDE DEF row, status, until, exit
  <2>3. new \in Customer
    BY <1>4, <2>1, <2>2 DEF Customer
  <2> HIDE DEF new
  <2> QED  BY <1>2, <2>1, <2>3
<1>8. CASE report_submit(s)
  <2> DEFINE unsent == FALSE
             new == [row EXCEPT !.draft = unsent, !.report = year]
  <2>1. Write(s, Recomputed(new)) /\ rreq[s].phase \in Named /\ unsent \in BOOLEAN
    BY <1>8 DEF report_submit, Named
  <2> HIDE DEF row, unsent
  <2>2. new \in Customer
    BY <1>4, <1>5, <2>1 DEF Customer
  <2> HIDE DEF new
  <2> QED  BY <1>0, <1>2, <2>1, <2>2, RecomputedType
<1>9. CASE UploadStore(s)
  <2> DEFINE phase == "row"
             t == [rreq[s] EXCEPT !.phase = phase]
  <2>1. rreq[s].phase = "store" /\ rreq' = [rreq EXCEPT ![s] = t] /\ customer' = customer /\ year' = year
        /\ phase \in Named
    BY <1>9 DEF UploadStore, Named
  <2>2. rreq[s].customer \in Customers
    BY <1>0, <2>1 DEF TaskNamed, Named
  <2>3. phase \in {"row"}
    OBVIOUS
  <2> HIDE DEF phase
  <2>4. t \in Task /\ t.customer = rreq[s].customer
    BY <1>0, <2>3 DEF Task
  <2> HIDE DEF t
  <2>5. TaskNamed(t)
    BY <2>2, <2>4 DEF TaskNamed
  <2>6. customer[rreq[s].customer] \in Customer
    BY <1>0, <2>2
  <2> QED  BY <2>1, <2>2, <2>4, <2>5, <2>6, RetentionKept
<1>10. CASE UploadRow(s)
  <2> DEFINE files == TRUE
             new == [row EXCEPT !.files = files]
  <2>1. Write(s, new) /\ rreq[s].phase \in Named /\ files \in BOOLEAN
    BY <1>10 DEF UploadRow, Named
  <2> HIDE DEF row, files
  <2>2. new \in Customer
    BY <1>4, <2>1 DEF Customer
  <2> HIDE DEF new
  <2> QED  BY <1>2, <2>1, <2>2
<1> QED  BY <1>3, <1>6, <1>7, <1>8, <1>9, <1>10 DEF RequestStep

LEMMA AbsentType ==
    /\ Absent \in Customer /\ LegacyClosed \in Customer
    /\ \A files \in BOOLEAN : [Absent EXCEPT !.status = "purged", !.files = files] \in Customer
    /\ \A until \in 0..MaxYear + 1 + RETENTION_YEARS :
           [Absent EXCEPT !.status = "active", !.until = until] \in Customer
<1> DEFINE Until == 0..MaxYear + 1 + RETENTION_YEARS
<1>1. 0 \in Dates /\ 1 \in Dates /\ 0 \in Until /\ RETENTION_YEARS \in Until
  BY RetentionAssumption DEF Dates
<1> HIDE DEF Until
<1>2. ASSUME NEW no \in BOOLEAN, NEW files \in BOOLEAN, NEW status \in {"absent", "active", "closed", "purged"},
             NEW exit \in Dates, NEW until \in Until, NEW zero \in Dates
      PROVE  [status |-> status, exit |-> exit, until |-> until, transaction |-> zero, report |-> zero,
              draft |-> no, work |-> no, files |-> files] \in Customer
  BY <1>2 DEF Customer, Until
<1>3. TRUE \in BOOLEAN /\ FALSE \in BOOLEAN
  OBVIOUS
<1>4. Absent \in Customer
  <2>1. "absent" \in {"absent", "active", "closed", "purged"}
    OBVIOUS
  <2> QED  BY <1>1, <1>2, <1>3, <2>1, Zenon DEF Absent
<1>5. ASSUME NEW status \in {"absent", "active", "closed", "purged"}, NEW exit \in Dates, NEW until \in Until,
             NEW files \in BOOLEAN
      PROVE  /\ [Absent EXCEPT !.status = status, !.exit = exit, !.until = until, !.files = files] \in Customer
             /\ [Absent EXCEPT !.status = status, !.until = until] \in Customer
             /\ [Absent EXCEPT !.status = status, !.files = files] \in Customer
  BY <1>4 DEF Customer, Until
<1>6. LegacyClosed \in Customer
  BY <1>1, <1>3, <1>5, Zenon DEF LegacyClosed
<1>7. \A files \in BOOLEAN : [Absent EXCEPT !.status = "purged", !.files = files] \in Customer
  BY <1>1, <1>5
<1>8. \A until \in Until : [Absent EXCEPT !.status = "active", !.until = until] \in Customer
  BY <1>1, <1>3, <1>5
<1> QED  BY <1>4, <1>6, <1>7, <1>8 DEF Until

LEMMA ScriptTypes ==
    ASSUME RetentionRows, NEW s \in Slots, ScriptStep(s)
    PROVE  RetentionRows'
<1>0. /\ customer \in [Customers -> Customer] /\ rreq[s] \in Task /\ rreq \in [Slots -> Task]
      /\ TaskNamed(rreq[s]) /\ year \in 1..MaxYear
  BY DEF RetentionRows
<1>1. ASSUME NEW t \in Task, TaskNamed(t), rreq' = [rreq EXCEPT ![s] = t], UNCHANGED <<customer, year>>
      PROVE  RetentionRows'
  <2>1. rreq' \in [Slots -> Task] /\ \A p \in Slots : TaskNamed(rreq'[p])
    BY <1>0, <1>1 DEF RetentionRows
  <2> QED  BY <1>1, <2>1 DEF RetentionRows, TaskNamed
<1>2. ASSUME NEW c \in Customers, rreq[s].phase \notin Named
      PROVE  Rest(s, c) \in Task /\ TaskNamed(Rest(s, c))
  <2> DEFINE todo == rreq[s].todo \ {c}
             t == [rreq[s] EXCEPT !.todo = todo, !.customer = None]
  <2>1. todo \in SUBSET Customers
    BY <1>0 DEF Task
  <2>2. Rest(s, c) = NoTask \/ Rest(s, c) = t
    BY DEF Rest
  <2> HIDE DEF todo
  <2>3. t \in Task /\ t.phase = rreq[s].phase
    BY <1>0, <2>1 DEF Task
  <2> HIDE DEF t
  <2> QED  BY <1>2, <2>2, <2>3, TaskTypes DEF TaskNamed
<1>3. CASE ExtendSelect(s) \/ PurgeSelect(s)
  <2>1. PICK phase \in {"extend", "purge"}, todo \in SUBSET Customers :
            /\ rreq' = [rreq EXCEPT ![s] = [phase |-> phase, customer |-> None, todo |-> todo]]
            /\ UNCHANGED <<customer, year>>
    BY <1>3 DEF ExtendSelect, PurgeSelect
  <2> DEFINE t == [phase |-> phase, customer |-> None, todo |-> todo]
  <2>2. t \in Task /\ TaskNamed(t)
    BY DEF Task, TaskNamed, Named
  <2> HIDE DEF t
  <2> QED  BY <1>1, <2>1, <2>2 DEF t
<1>4. CASE PurgeRows(s)
  <2> DEFINE c == rreq[s].customer
             files == customer[c].files
             new == [Absent EXCEPT !.status = "purged", !.files = files]
  <2>1. c \in Customers /\ rreq[s].phase \notin Named
    BY <1>0, <1>4 DEF PurgeRows, Task, Named
  <2>2. files \in BOOLEAN
    BY <1>0, <2>1 DEF Customer
  <2>3. customer' = [customer EXCEPT ![c] = new] /\ rreq' = [rreq EXCEPT ![s] = Rest(s, c)] /\ year' = year
    BY <1>4 DEF PurgeRows
  <2> HIDE DEF c, files
  <2>4. new \in Customer
    BY <2>2, AbsentType
  <2> HIDE DEF new
  <2> QED  BY <1>2, <2>1, <2>3, <2>4, RetentionKept
<1>5. CASE TaskDies(s)
  BY <1>1, <1>5, TaskTypes DEF TaskDies
<1>6. ASSUME NEW c \in Customers, extend_closed_retention(s, c)  PROVE RetentionRows'
  <2> DEFINE until == retention_from(customer[c].exit)
             new == [customer[c] EXCEPT !.until = until]
  <2>1. /\ customer' = customer \/ customer' = [customer EXCEPT ![c] = new]
        /\ rreq' = [rreq EXCEPT ![s] = Rest(s, c)] /\ year' = year /\ rreq[s].phase \notin Named
    BY <1>0, <1>6 DEF extend_closed_retention, Named
  <2>2. customer[c].exit \in Dates /\ customer[c] \in Customer
    BY <1>0 DEF Customer
  <2>3. until \in 0..MaxYear + 1 + RETENTION_YEARS
    BY <1>0, <2>2, YearTypes
  <2> HIDE DEF until
  <2>4. new \in Customer
    BY <2>2, <2>3 DEF Customer
  <2> HIDE DEF new
  <2> QED  BY <1>2, <2>1, <2>4, RetentionKept
<1>7. ASSUME NEW c \in Customers, PurgeFiles(s, c)  PROVE RetentionRows'
  <2> DEFINE files == FALSE
             new == [customer[c] EXCEPT !.files = files]
             t == [rreq[s] EXCEPT !.customer = c]
  <2>1. customer' = [customer EXCEPT ![c] = new] /\ rreq' = [rreq EXCEPT ![s] = t] /\ year' = year /\ files \in BOOLEAN
    BY <1>0, <1>7 DEF PurgeFiles
  <2>2. t \in Task /\ t.customer = c
    BY <1>0 DEF Task
  <2> HIDE DEF files, t
  <2>3. new \in Customer
    BY <1>0, <2>1 DEF Customer
  <2> HIDE DEF new
  <2> QED  BY <2>1, <2>2, <2>3, RetentionKept DEF TaskNamed
<1>8. ASSUME NEW c \in Customers, PurgeFilesFail(s, c)  PROVE RetentionRows'
  <2>1. rreq' = [rreq EXCEPT ![s] = Rest(s, c)] /\ UNCHANGED <<customer, year>> /\ rreq[s].phase \notin Named
    BY <1>8 DEF PurgeFilesFail, Deferred, Named
  <2> QED  BY <1>1, <1>2, <2>1
<1> QED  BY <1>3, <1>4, <1>5, <1>6, <1>7, <1>8 DEF ScriptStep

LEMMA FreeTypes ==
    ASSUME RetentionRows, NEW c \in Customers,
           \/ onboard(c) \/ save_report(c) \/ Work(c)
           \/ \E date \in {1, year, year + 1}, alerted \in BOOLEAN : record_transaction(c, date, alerted)
    PROVE  RetentionRows'
<1>0. customer \in [Customers -> Customer] /\ customer[c] \in Customer /\ rreq \in [Slots -> Task] /\ year \in 1..MaxYear
  BY DEF RetentionRows
<1>1. ASSUME NEW new \in Customer, customer' = [customer EXCEPT ![c] = new], UNCHANGED <<rreq, year>>
      PROVE  RetentionRows'
  <2>1. customer' \in [Customers -> Customer]
    BY <1>0, <1>1
  <2> QED  BY <1>1, <2>1 DEF RetentionRows, TaskNamed
<1>2. CASE onboard(c)
  <2> DEFINE until == retention_from(year)
  <2>1. until \in 0..MaxYear + 1 + RETENTION_YEARS
    BY <1>0, YearTypes
  <2>2. customer' = [customer EXCEPT ![c] = [Absent EXCEPT !.status = "active", !.until = until]]
        /\ UNCHANGED <<rreq, year>>
    BY <1>2 DEF onboard
  <2> HIDE DEF until
  <2>3. [Absent EXCEPT !.status = "active", !.until = until] \in Customer
    BY <2>1, AbsentType
  <2> QED  BY <1>1, <2>2, <2>3
<1>3. CASE save_report(c)
  <2> DEFINE unsent == TRUE
             new == [customer[c] EXCEPT !.draft = unsent]
  <2>1. customer' = [customer EXCEPT ![c] = new] /\ UNCHANGED <<rreq, year>> /\ unsent \in BOOLEAN
    BY <1>0, <1>3 DEF save_report
  <2> HIDE DEF unsent
  <2>2. new \in Customer
    BY <1>0, <2>1 DEF Customer
  <2> HIDE DEF new
  <2> QED  BY <1>1, <2>1, <2>2
<1>4. CASE Work(c)
  <2>1. PICK open \in BOOLEAN : customer' = [customer EXCEPT ![c].work = open] /\ UNCHANGED <<rreq, year>>
    BY <1>4 DEF Work
  <2> DEFINE new == [customer[c] EXCEPT !.work = open]
  <2>2. customer' = [customer EXCEPT ![c] = new]
    BY <1>0, <2>1
  <2>3. new \in Customer
    BY <1>0 DEF Customer
  <2> HIDE DEF new
  <2> QED  BY <1>1, <2>1, <2>2, <2>3
<1>5. ASSUME NEW date \in {1, year, year + 1}, NEW alerted \in BOOLEAN, record_transaction(c, date, alerted)
      PROVE  RetentionRows'
  <2> DEFINE transaction == Max({customer[c].transaction, date})
             work == customer[c].work \/ alerted
             new == [customer[c] EXCEPT !.transaction = transaction, !.work = work]
  <2>1. customer' = [customer EXCEPT ![c] = Recomputed(new)] /\ UNCHANGED <<rreq, year>>
    BY <1>5 DEF record_transaction
  <2>2. customer[c].transaction \in Dates
    BY <1>0 DEF Customer
  <2>3. date \in Dates
    BY <1>0, YearTypes
  <2>4. transaction \in Dates
    BY <1>0, <2>2, <2>3, YearTypes
  <2>5. work \in BOOLEAN
    OBVIOUS
  <2> HIDE DEF transaction, work
  <2>6. new \in Customer
    BY <1>0, <2>4, <2>5 DEF Customer
  <2> HIDE DEF new
  <2> QED  BY <1>0, <1>1, <2>1, <2>6, RecomputedType
<1> QED  BY <1>2, <1>3, <1>4, <1>5

\* Types of the rows and of the requests, whatever requests and scripts do between each
\* other's reads and writes.
THEOREM RetentionTypeCorrect == RetentionSpec => []RetentionTypeOK
<1>1. RetentionInit => RetentionRows
  <2> SUFFICES ASSUME RetentionInit  PROVE RetentionRows
    OBVIOUS
  <2>1. customer \in [Customers -> Customer]
    BY AbsentType DEF RetentionInit
  <2>2. rreq \in [Slots -> Task] /\ \A s \in Slots : TaskNamed(rreq[s])
    BY TaskTypes DEF RetentionInit
  <2>3. year \in 1..MaxYear
    BY RetentionAssumption DEF RetentionInit
  <2> QED  BY <2>1, <2>2, <2>3 DEF RetentionRows
<1>2. RetentionRows /\ [RetentionNext]_retentionVars => RetentionRows'
  <2> SUFFICES ASSUME RetentionRows, [RetentionNext]_retentionVars  PROVE RetentionRows'
    OBVIOUS
  <2>1. CASE NewYear
    BY <2>1, RetentionAssumption DEF NewYear, RetentionRows, TaskNamed
  <2>2. CASE UNCHANGED retentionVars
    BY <2>2 DEF retentionVars, RetentionRows, TaskNamed
  <2> QED  BY <2>1, <2>2, RequestTypes, ScriptTypes, FreeTypes, Zenon DEF RetentionNext
<1>3. RetentionRows => RetentionTypeOK
  BY DEF RetentionRows, RetentionTypeOK, Task
<1> QED  BY <1>1, <1>2, <1>3, PTL DEF RetentionSpec

-------------------------------------------------------------------------------
\* Types of the rows of Organisations, whether or not requests overlap

RequestNamed(r) ==
    /\ r.phase \in {"register", "setup", "create"} => r.firm \in Firms
    /\ r.phase # "idle" => r.email \in Mailboxes
OrganisationRows ==
    /\ OrganisationTypeOK
    /\ \A s \in Slots : RequestNamed(orgreq[s])

LEMMA NobodyType == Nobody \in Member /\ NoOrganisationRequest \in OrganisationRequest /\ RequestNamed(NoOrganisationRequest)
<1> DEFINE n == CHOOSE m \in Spellings : TRUE
<1>1. n \in Spellings
  BY OrganisationsAssumption
<1>2. Nobody.name = n /\ NoOrganisationRequest.phase = "idle"
  BY DEF Nobody, NoOrganisationRequest
<1> HIDE DEF n
<1>3. ASSUME NEW no \in BOOLEAN, NEW yes \in BOOLEAN, NEW role \in {"officer"}, NEW phase \in {"idle"}
      PROVE  /\ [firm |-> None, name |-> n, role |-> role, active |-> no, super_admin |-> no] \in Member
             /\ [phase |-> phase, firm |-> None, email |-> None, name |-> n, role |-> role, paid |-> yes]
                    \in OrganisationRequest
  BY <1>1 DEF Member, OrganisationRequest
<1>4. FALSE \in BOOLEAN /\ TRUE \in BOOLEAN /\ "officer" \in {"officer"} /\ "idle" \in {"idle"}
  OBVIOUS
<1>5. Nobody = [firm |-> None, name |-> n, role |-> "officer", active |-> FALSE, super_admin |-> FALSE]
  BY DEF Nobody, n
<1>6. NoOrganisationRequest = [phase |-> "idle", firm |-> None, email |-> None, name |-> n, role |-> "officer", paid |-> TRUE]
  BY <1>2, Zenon DEF NoOrganisationRequest
<1>7. Nobody \in Member /\ NoOrganisationRequest \in OrganisationRequest
  BY <1>3, <1>4, <1>5, <1>6, Zenon
<1> QED  BY <1>2, <1>7 DEF RequestNamed

\* A request that is entered, and the one that was answered.
LEMMA OrganisationTurns ==
    ASSUME OrganisationRows, NEW s \in Slots, NEW r \in OrganisationRequest, RequestNamed(r),
           orgreq' = [orgreq EXCEPT ![s] = r], firm' \in [Firms -> Firm], setupLink' \subseteq Firms,
           member' \in [Mailboxes -> Member], lead' = lead
    PROVE  OrganisationRows'
<1>1. orgreq' \in [Slots -> OrganisationRequest] /\ \A t \in Slots : RequestNamed(orgreq'[t])
  BY DEF OrganisationRows, OrganisationTypeOK
<1> QED  BY <1>1 DEF OrganisationRows, OrganisationTypeOK, RequestNamed

LEMMA AskedType ==
    ASSUME OrganisationRows, NEW s \in Slots, NEW r \in OrganisationRequest, RequestNamed(r), Ask(s, r)
    PROVE  OrganisationRows'
  BY OrganisationTurns DEF Ask, OrganisationRows, OrganisationTypeOK

LEMMA AnsweredType ==
    ASSUME OrganisationRows, NEW s \in Slots, Answered(s), firm' \in [Firms -> Firm], setupLink' \subseteq Firms,
           member' \in [Mailboxes -> Member], lead' = lead
    PROVE  OrganisationRows'
  BY OrganisationTurns, NobodyType DEF Answered

LEMMA HiredType ==
    ASSUME member \in [Mailboxes -> Member], NEW e \in Mailboxes, NEW f \in Firms, NEW n \in Spellings,
           NEW role \in {"officer", "mlro"}
    PROVE  Hired(e, f, n, role) \in [Mailboxes -> Member]
<1>1. ASSUME NEW yes \in BOOLEAN, NEW no \in BOOLEAN
      PROVE  [firm |-> f, name |-> n, role |-> role, active |-> yes, super_admin |-> no] \in Member
  BY DEF Member
<1>2. [firm |-> f, name |-> n, role |-> role, active |-> TRUE, super_admin |-> FALSE] \in Member
  BY <1>1
<1> QED  BY <1>2 DEF Hired

\* What the checks of the nine entry points ask for.
LEMMA AsksType ==
    ASSUME OrganisationRows, NEW s \in Slots, NEW phase \in {"register", "setup", "create"},
           NEW f \in Firms, NEW e \in Mailboxes, NEW n \in Spellings, NEW role \in {"officer", "mlro"},
           NEW paid \in BOOLEAN,
           Ask(s, [NoOrganisationRequest EXCEPT !.phase = phase, !.firm = f, !.email = e, !.name = n,
                                                !.role = role, !.paid = paid])
    PROVE  OrganisationRows'
<1> DEFINE r == [NoOrganisationRequest EXCEPT !.phase = phase, !.firm = f, !.email = e, !.name = n,
                                              !.role = role, !.paid = paid]
<1>1. r \in OrganisationRequest /\ r.phase = phase /\ r.firm = f /\ r.email = e
  BY NobodyType DEF OrganisationRequest
<1> HIDE DEF r
<1>2. RequestNamed(r)
  BY <1>1 DEF RequestNamed
<1> QED  BY <1>1, <1>2, AskedType DEF r

LEMMA AsksOfMemberType ==
    ASSUME OrganisationRows, NEW s \in Slots, NEW phase \in {"rename", "deactivate", "reactivate"},
           NEW e \in Mailboxes, NEW n \in Spellings,
           Ask(s, [NoOrganisationRequest EXCEPT !.phase = phase, !.email = e, !.name = n])
    PROVE  OrganisationRows'
<1> DEFINE r == [NoOrganisationRequest EXCEPT !.phase = phase, !.email = e, !.name = n]
<1>1. r \in OrganisationRequest /\ r.phase = phase /\ r.email = e
  BY NobodyType DEF OrganisationRequest
<1> HIDE DEF r
<1>2. RequestNamed(r)
  BY <1>1 DEF RequestNamed
<1> QED  BY <1>1, <1>2, AskedType DEF r

LEMMA EntryType ==
    ASSUME OrganisationRows, NEW s \in Slots
    PROVE  /\ \A e \in Mailboxes, n \in Spellings, f \in Firms :
                 /\ SetupCheck(s, f, e, n) => OrganisationRows'
                 /\ \A paid \in BOOLEAN : RegisterCheck(s, f, e, n, paid) => OrganisationRows'
                 /\ \A role \in {"officer", "mlro"} : ProvisionCheck(s, f, e, n, role) => OrganisationRows'
           /\ \A by, e \in Mailboxes :
                 /\ ReactivateCheck(s, by, e) => OrganisationRows'
                 /\ \A app \in BOOLEAN : DeactivateCheck(s, by, e, app) => OrganisationRows'
                 /\ \A n \in Spellings :
                       /\ RenameCheck(s, by, e, n) => OrganisationRows'
                       /\ \A role \in {"officer", "mlro"} : CreateCheck(s, by, e, n, role) => OrganisationRows'
<1> DEFINE no == NoOrganisationRequest
<1>1. no \in OrganisationRequest /\ no.paid \in BOOLEAN /\ no.role \in {"officer", "mlro"} /\ no.name \in Spellings
  BY NobodyType DEF OrganisationRequest
<1>2. ASSUME NEW e \in Mailboxes, NEW n \in Spellings, NEW f \in Firms, SetupCheck(s, f, e, n)
      PROVE  OrganisationRows'
  <2> DEFINE role == "mlro"
  <2>1. Ask(s, [no EXCEPT !.phase = "setup", !.firm = f, !.email = e, !.name = n, !.role = role])
        /\ role \in {"officer", "mlro"}
    BY <1>2 DEF SetupCheck
  <2> HIDE DEF role
  <2>2. [no EXCEPT !.phase = "setup", !.firm = f, !.email = e, !.name = n, !.role = role]
          = [no EXCEPT !.phase = "setup", !.firm = f, !.email = e, !.name = n, !.role = role, !.paid = no.paid]
    BY <1>1 DEF OrganisationRequest
  <2>3. Ask(s, [no EXCEPT !.phase = "setup", !.firm = f, !.email = e, !.name = n, !.role = role, !.paid = no.paid])
    BY <2>1, <2>2, Zenon
  <2>4. "setup" \in {"register", "setup", "create"}
    OBVIOUS
  <2> QED  BY <1>1, <2>1, <2>3, <2>4, AsksType, Zenon
<1>3. ASSUME NEW e \in Mailboxes, NEW n \in Spellings, NEW f \in Firms, NEW paid \in BOOLEAN,
             RegisterCheck(s, f, e, n, paid)
      PROVE  OrganisationRows'
  BY <1>3, AsksType DEF RegisterCheck
<1>4. ASSUME NEW e \in Mailboxes, NEW n \in Spellings, NEW f \in Firms, NEW role \in {"officer", "mlro"},
             Ask(s, [no EXCEPT !.phase = "create", !.firm = f, !.email = e, !.name = n, !.role = role])
      PROVE  OrganisationRows'
  <2>1. [no EXCEPT !.phase = "create", !.firm = f, !.email = e, !.name = n, !.role = role]
          = [no EXCEPT !.phase = "create", !.firm = f, !.email = e, !.name = n, !.role = role, !.paid = no.paid]
    BY <1>1 DEF OrganisationRequest
  <2>2. Ask(s, [no EXCEPT !.phase = "create", !.firm = f, !.email = e, !.name = n, !.role = role, !.paid = no.paid])
    BY <1>4, <2>1, Zenon
  <2>3. "create" \in {"register", "setup", "create"}
    OBVIOUS
  <2> QED  BY <1>1, <1>4, <2>2, <2>3, AsksType, Zenon
<1>5. ASSUME NEW e \in Mailboxes, NEW n \in Spellings, NEW f \in Firms, NEW role \in {"officer", "mlro"},
             ProvisionCheck(s, f, e, n, role)
      PROVE  OrganisationRows'
  BY <1>4, <1>5 DEF ProvisionCheck
<1>6. ASSUME NEW by \in Mailboxes, NEW e \in Mailboxes, NEW n \in Spellings, NEW role \in {"officer", "mlro"},
             CreateCheck(s, by, e, n, role)
      PROVE  OrganisationRows'
  <2>1. member[by].firm \in Firms
    BY <1>6 DEF CreateCheck, IsMlro, OrganisationRows, OrganisationTypeOK, Member
  <2> QED  BY <1>4, <1>6, <2>1 DEF CreateCheck
<1>7. ASSUME NEW e \in Mailboxes, NEW phase \in {"deactivate", "reactivate"},
             Ask(s, [no EXCEPT !.phase = phase, !.email = e])
      PROVE  OrganisationRows'
  <2>1. [no EXCEPT !.phase = phase, !.email = e] = [no EXCEPT !.phase = phase, !.email = e, !.name = no.name]
    BY <1>1 DEF OrganisationRequest
  <2>2. Ask(s, [no EXCEPT !.phase = phase, !.email = e, !.name = no.name])
    BY <1>7, <2>1, Zenon
  <2>3. phase \in {"rename", "deactivate", "reactivate"}
    BY <1>7
  <2> QED  BY <1>1, <1>7, <2>2, <2>3, AsksOfMemberType, Zenon
<1>8. ASSUME NEW by \in Mailboxes, NEW e \in Mailboxes,
             ReactivateCheck(s, by, e) \/ \E app \in BOOLEAN : DeactivateCheck(s, by, e, app)
      PROVE  OrganisationRows'
  BY <1>7, <1>8 DEF ReactivateCheck, DeactivateCheck
<1>9. ASSUME NEW by \in Mailboxes, NEW e \in Mailboxes, NEW n \in Spellings, RenameCheck(s, by, e, n)
      PROVE  OrganisationRows'
  BY <1>9, AsksOfMemberType DEF RenameCheck
<1> QED  BY <1>2, <1>3, <1>5, <1>6, <1>8, <1>9, Zenon

LEMMA WorkType ==
    ASSUME OrganisationRows, NEW s \in Slots,
           \/ register_organization(s) \/ complete_initial_setup(s) \/ provision_operator(s)
           \/ rename_operator(s) \/ SetActive(s) \/ OrganisationDies(s)
    PROVE  OrganisationRows'
<1> DEFINE r == orgreq[s]
<1>0. /\ firm \in [Firms -> Firm] /\ setupLink \subseteq Firms /\ member \in [Mailboxes -> Member]
      /\ r \in OrganisationRequest /\ RequestNamed(r)
  BY DEF OrganisationRows, OrganisationTypeOK
<1>1. r.name \in Spellings /\ r.role \in {"officer", "mlro"}
  BY <1>0 DEF OrganisationRequest
<1>2. r.phase \in {"register", "setup", "create"} /\ r.firm \in Firms /\ r.email \in Mailboxes
         => Hired(r.email, r.firm, r.name, r.role) \in [Mailboxes -> Member]
  BY <1>0, <1>1, HiredType
<1>3. CASE register_organization(s)
  <2>1. r.phase = "register" /\ r.firm \in Firms /\ r.email \in Mailboxes
    BY <1>0, <1>3 DEF register_organization, RequestNamed
  <2>2. \A new \in Firm : [firm EXCEPT ![r.firm] = new] \in [Firms -> Firm]
    BY <1>0
  <2>3. {"legacy", "pending_payment"} \subseteq Firm
    BY DEF Firm
  <2>4. firm' \in [Firms -> Firm] /\ member' \in [Mailboxes -> Member]
    BY <1>0, <1>2, <1>3, <2>1, <2>2, <2>3 DEF register_organization
  <2> QED  BY <1>0, <1>3, <2>4, AnsweredType DEF register_organization
<1>4. CASE complete_initial_setup(s)
  <2>1. r.phase = "setup" /\ r.firm \in Firms /\ r.email \in Mailboxes
    BY <1>0, <1>4 DEF complete_initial_setup, RequestNamed
  <2>2. setupLink' \subseteq Firms /\ member' \in [Mailboxes -> Member]
    BY <1>0, <1>2, <1>4, <2>1 DEF complete_initial_setup
  <2> QED  BY <1>0, <1>4, <2>2, AnsweredType DEF complete_initial_setup
<1>5. CASE provision_operator(s)
  <2>1. r.phase = "create" /\ r.firm \in Firms /\ r.email \in Mailboxes
    BY <1>0, <1>5 DEF provision_operator, RequestNamed
  <2>2. member' \in [Mailboxes -> Member]
    BY <1>0, <1>2, <1>5, <2>1 DEF provision_operator
  <2> QED  BY <1>0, <1>5, <2>2, AnsweredType DEF provision_operator
<1>6. CASE rename_operator(s)
  <2>1. member' \in [Mailboxes -> Member]
    BY <1>0, <1>1, <1>6 DEF rename_operator, Member
  <2> QED  BY <1>0, <1>6, <2>1, AnsweredType DEF rename_operator
<1>7. CASE SetActive(s)
  <2> DEFINE active == (r.phase = "reactivate")
  <2>1. active \in BOOLEAN /\ member' = [member EXCEPT ![r.email].active = active]
    BY <1>7 DEF SetActive
  <2> HIDE DEF active
  <2>2. member' \in [Mailboxes -> Member]
    BY <1>0, <2>1 DEF Member
  <2> QED  BY <1>0, <1>7, <2>2, AnsweredType DEF SetActive
<1>8. CASE OrganisationDies(s)
  BY <1>0, <1>8, AnsweredType DEF OrganisationDies
<1> QED  BY <1>3, <1>4, <1>5, <1>6, <1>7, <1>8

LEMMA LeadsType ==
    ASSUME OrganisationRows,
           \/ purge_expired \/ DayPasses
           \/ \E a \in Leads :
                 \/ delete_application(a) \/ \E status \in Statuses : set_status(a, status)
                 \/ \E complete, consent, honeypot \in BOOLEAN : apply_submit(a, complete, consent, honeypot)
    PROVE  OrganisationRows'
<1>0. lead \in [Leads -> Lead] /\ RETENTION_DAYS \in Nat /\ NoLead \in Lead
  BY OrganisationsAssumption DEF OrganisationRows, OrganisationTypeOK, NoLead, Lead
<1>1. ASSUME NEW new \in [Leads -> Lead], OnLeads(new)  PROVE OrganisationRows'
  BY <1>1 DEF OnLeads, OrganisationRows, OrganisationTypeOK, RequestNamed
<1>2. CASE purge_expired
  <2> DEFINE new == [a \in Leads |-> IF a \in ExpiredLeads THEN NoLead ELSE lead[a]]
  <2>1. new \in [Leads -> Lead]
    BY <1>0
  <2>2. OnLeads(new)
    BY <1>2 DEF purge_expired
  <2> HIDE DEF new
  <2> QED  BY <1>1, <2>1, <2>2
<1>3. CASE DayPasses
  <2> DEFINE Older(a) == [lead[a] EXCEPT !.idle = lead[a].idle + 1]
             new == [a \in Leads |-> IF lead[a].status = "absent" \/ lead[a].idle > RETENTION_DAYS THEN lead[a]
                                     ELSE Older(a)]
  <2>1. ASSUME NEW a \in Leads, ~(lead[a].status = "absent" \/ lead[a].idle > RETENTION_DAYS)
        PROVE  Older(a) \in Lead
    <3> DEFINE idle == lead[a].idle + 1
    <3>1. lead[a] \in Lead /\ idle \in 0..RETENTION_DAYS + 1
      BY <1>0, <2>1 DEF Lead
    <3> HIDE DEF idle
    <3>2. [lead[a] EXCEPT !.idle = idle] \in Lead
      BY <3>1 DEF Lead
    <3> QED  BY <3>2 DEF idle
  <2>2. OnLeads(new)
    BY <1>3 DEF DayPasses
  <2> HIDE DEF Older
  <2>3. new \in [Leads -> Lead]
    BY <1>0, <2>1
  <2> HIDE DEF new
  <2> QED  BY <1>1, <2>2, <2>3
<1>4. ASSUME NEW a \in Leads, delete_application(a)  PROVE OrganisationRows'
  <2>1. [lead EXCEPT ![a] = NoLead] \in [Leads -> Lead]
    BY <1>0
  <2> QED  BY <1>1, <1>4, <2>1 DEF delete_application
<1>5. ASSUME NEW a \in Leads, NEW status \in Statuses, set_status(a, status)  PROVE OrganisationRows'
  <2> DEFINE row == [status |-> status, idle |-> 0]
  <2>1. row \in Lead
    BY <1>0 DEF Lead
  <2>2. OnLeads([lead EXCEPT ![a] = row])
    BY <1>5 DEF set_status
  <2> HIDE DEF row
  <2> QED  BY <1>0, <1>1, <2>1, <2>2
<1>6. ASSUME NEW a \in Leads, NEW new, new = lead \/ new = [lead EXCEPT ![a].status = "open"], OnLeads(new)
      PROVE  OrganisationRows'
  <2> DEFINE status == "open"
  <2>1. status \in Statuses \cup {"absent"} /\ (new = lead \/ new = [lead EXCEPT ![a].status = status])
    BY <1>6 DEF Statuses
  <2> HIDE DEF status
  <2>2. new \in [Leads -> Lead]
    BY <1>0, <2>1 DEF Lead
  <2> QED  BY <1>1, <1>6, <2>2
<1>7. ASSUME NEW a \in Leads, NEW complete \in BOOLEAN, NEW consent \in BOOLEAN, NEW honeypot \in BOOLEAN,
             apply_submit(a, complete, consent, honeypot)
      PROVE  OrganisationRows'
  <2> DEFINE new == IF ~honeypot /\ validate(complete, consent) THEN [lead EXCEPT ![a].status = "open"] ELSE lead
  <2>1. OnLeads(new)
    BY <1>7 DEF apply_submit
  <2>2. new = lead \/ new = [lead EXCEPT ![a].status = "open"]
    OBVIOUS
  <2> HIDE DEF new
  <2> QED  BY <1>6, <2>1, <2>2
<1> QED  BY <1>2, <1>3, <1>4, <1>5, <1>7, Zenon

\* Types of the firms, the operators, the leads and the requests, whatever requests do
\* between each other's checks and writes.
THEOREM OrganisationTypeCorrect == OrganisationSpec => []OrganisationTypeOK
<1>1. OrganisationInit => OrganisationRows
  <2> SUFFICES ASSUME OrganisationInit  PROVE OrganisationRows
    OBVIOUS
  <2>1. firm \in [Firms -> Firm] /\ setupLink \subseteq Firms
    BY DEF OrganisationInit, Firm
  <2>2. NoLead \in Lead
    BY OrganisationsAssumption DEF NoLead, Lead
  <2>3. member \in [Mailboxes -> Member] /\ lead \in [Leads -> Lead] /\ orgreq \in [Slots -> OrganisationRequest]
    BY <2>2, NobodyType DEF OrganisationInit
  <2>4. \A s \in Slots : RequestNamed(orgreq[s])
    BY NobodyType DEF OrganisationInit
  <2> QED  BY <2>1, <2>3, <2>4 DEF OrganisationRows, OrganisationTypeOK
<1>2. OrganisationRows /\ [OrganisationNext]_organisationVars => OrganisationRows'
  <2> SUFFICES ASSUME OrganisationRows, [OrganisationNext]_organisationVars  PROVE OrganisationRows'
    OBVIOUS
  <2>0. firm \in [Firms -> Firm] /\ member \in [Mailboxes -> Member]
    BY DEF OrganisationRows, OrganisationTypeOK
  <2>1. ASSUME NEW s \in Slots, OrganisationStep(s)  PROVE OrganisationRows'
    BY <2>1, EntryType, WorkType, Zenon DEF OrganisationStep
  <2>2. ASSUME NEW e \in Mailboxes, NEW grant \in BOOLEAN, set_super_admin(e, grant)  PROVE OrganisationRows'
    <3>1. member' \in [Mailboxes -> Member]
      BY <2>0, <2>2 DEF set_super_admin, Member
    <3> QED  BY <2>2, <3>1 DEF set_super_admin, OrganisationRows, OrganisationTypeOK, RequestNamed
  <2>3. ASSUME NEW f \in Firms, Subscribe(f)  PROVE OrganisationRows'
    <3>1. firm' \in [Firms -> Firm]
      BY <2>0, <2>3 DEF Subscribe, Firm
    <3> QED  BY <2>3, <3>1 DEF Subscribe, OrganisationRows, OrganisationTypeOK, RequestNamed
  <2>4. CASE UNCHANGED organisationVars
    BY <2>4 DEF organisationVars, OrganisationRows, OrganisationTypeOK, RequestNamed
  <2> QED  BY <2>1, <2>2, <2>3, <2>4, LeadsType, Zenon DEF OrganisationNext
<1>3. OrganisationRows => OrganisationTypeOK
  BY DEF OrganisationRows
<1> QED  BY <1>1, <1>2, <1>3, PTL DEF OrganisationSpec

-------------------------------------------------------------------------------
\* Types of the rows of IdentityCheck, whether or not callbacks overlap

CallbackNamed(r) ==
    r.phase # "idle" => /\ r.file \in Files
                        /\ r.phase # "exchange" => r.profile \in Profile
                        /\ r.phase = "write" => r.old \in Row
IdentityRows ==
    /\ IdentityTypeOK
    /\ \A c \in Files : oauth[c] <= issued[c]
    /\ \A s \in Slots : CallbackNamed(idreq[s])

LEMMA NoIdentityType == NoIdentity \in IdentityRequest /\ CallbackNamed(NoIdentity) /\ NoIdentity.profile = NoProfile
<1>1. ASSUME NEW phase \in {"idle"}, NEW no \in BOOLEAN
      PROVE  [phase |-> phase, file |-> None, profile |-> NoProfile, mismatch |-> no, reused |-> None, old |-> None]
                 \in IdentityRequest
  BY DEF IdentityRequest
<1>2. FALSE \in BOOLEAN /\ "idle" \in {"idle"}
  OBVIOUS
<1>3. NoIdentity \in IdentityRequest
  BY <1>1, <1>2, Zenon DEF NoIdentity
<1>4. NoIdentity.phase = "idle" /\ NoIdentity.profile = NoProfile
  BY DEF NoIdentity
<1> QED  BY <1>3, <1>4 DEF CallbackNamed

LEMMA CallbackType ==
    ASSUME IdentityRows, NEW s \in Slots, NEW r \in IdentityRequest, CallbackNamed(r),
           idreq' = [idreq EXCEPT ![s] = r], UNCHANGED <<issued>>, oauth' \in [Files -> 0..MaxStates],
           \A c \in Files : oauth'[c] <= oauth[c],
           onFile' \in [Files -> Row], verification' \subseteq Files \X Persons_, reuseAlert' \subseteq Files \X Files
    PROVE  IdentityRows'
<1>1. idreq' \in [Slots -> IdentityRequest] /\ \A t \in Slots : CallbackNamed(idreq'[t])
  BY DEF IdentityRows, IdentityTypeOK
<1>2. \A c \in Files : oauth'[c] <= issued[c]
  BY IdentityAssumption DEF IdentityRows, IdentityTypeOK
<1> QED  BY <1>1, <1>2 DEF IdentityRows, IdentityTypeOK, CallbackNamed

LEMMA NumberType ==
    ASSUME NEW profile \in Profile
    PROVE  profile.person \in Persons_ /\ profile.person \in Column
           /\ (idn(profile) # None => idn(profile) \in Column)
  BY DEF Profile, idn, Column

LEMMA FilledType ==
    ASSUME NEW row \in Row, NEW old \in Row, NEW profile \in Profile, NEW converts \in BOOLEAN
    PROVE  Filled(row, old, profile, converts) \in Row
<1> DEFINE contact == IF old.contact = None /\ profile.contact /\ converts THEN profile.person ELSE row.contact
           number == idn(profile)
<1>1. contact \in Column
  BY NumberType DEF Row
<1>2. number # None => number \in Column
  BY NumberType
<1>3. Filled(row, old, profile, converts) =
        IF old.id_number = None /\ old.id_type = None /\ number # None
        THEN [id_number |-> number, id_type |-> "emirates_id", contact |-> contact]
        ELSE [row EXCEPT !.contact = contact]
  BY DEF Filled
<1> HIDE DEF contact, number
<1>4. [row EXCEPT !.contact = contact] \in Row
  BY <1>1 DEF Row
<1>5. ASSUME number \in Column  PROVE [id_number |-> number, id_type |-> "emirates_id", contact |-> contact] \in Row
  <2>1. ASSUME NEW type \in {"emirates_id", "passport", None}
        PROVE  [id_number |-> number, id_type |-> type, contact |-> contact] \in Row
    BY <1>1, <1>5 DEF Row
  <2> QED  BY <2>1
<1> QED  BY <1>2, <1>3, <1>4, <1>5

LEMMA CallbackStepType ==
    ASSUME IdentityRows, NEW s \in Slots, IdentityStep(s)
    PROVE  IdentityRows'
<1> DEFINE r == idreq[s]
           Rows == /\ onFile \in [Files -> Row] /\ oauth \in [Files -> 0..MaxStates] /\ verification \subseteq Files \X Persons_
                   /\ reuseAlert \subseteq Files \X Files /\ \A c \in Files : oauth[c] <= oauth[c]
<1>0. Rows /\ r \in IdentityRequest /\ CallbackNamed(r) /\ idreq \in [Slots -> IdentityRequest]
  BY IdentityAssumption DEF IdentityRows, IdentityTypeOK
<1>1. ASSUME NEW q \in IdentityRequest, CallbackNamed(q), idreq' = [idreq EXCEPT ![s] = q],
             UNCHANGED <<onFile, issued, oauth, verification, reuseAlert>>
      PROVE  IdentityRows'
  <2>1. onFile' = onFile /\ issued' = issued /\ oauth' = oauth /\ verification' = verification /\ reuseAlert' = reuseAlert
    BY <1>1
  <2> QED  BY <1>0, <1>1, <2>1, CallbackType
<1>2. ASSUME NEW c \in Files, Consume(s, c)  PROVE IdentityRows'
  <2> DEFINE phase == "exchange"
             q == [NoIdentity EXCEPT !.phase = phase, !.file = c]
  <2>1. idreq' = [idreq EXCEPT ![s] = q] /\ phase \in {"exchange"}
    BY <1>2 DEF Consume
  <2> HIDE DEF phase
  <2>2. q \in IdentityRequest /\ q.phase = phase /\ q.file = c
    BY <2>1, NoIdentityType DEF IdentityRequest
  <2> HIDE DEF q
  <2>3. CallbackNamed(q)
    BY <2>1, <2>2 DEF CallbackNamed
  <2>4. oauth' \in [Files -> 0..MaxStates] /\ \A d \in Files : oauth'[d] <= oauth[d]
    BY <1>0, <1>2, IdentityAssumption DEF Consume
  <2> QED  BY <1>0, <1>2, <2>1, <2>2, <2>3, <2>4, CallbackType DEF Consume
<1>3. ASSUME NEW profile \in Profile, Exchange(s, profile)  PROVE IdentityRows'
  <2> DEFINE phase == "read"
             q == [r EXCEPT !.phase = phase, !.profile = profile]
  <2>1. idreq' = [idreq EXCEPT ![s] = q] /\ phase \in {"read"} /\ r.phase = "exchange"
    BY <1>0, <1>3 DEF Exchange
  <2> HIDE DEF phase
  <2>2. q \in IdentityRequest /\ q.phase = phase /\ q.file = r.file /\ q.profile = profile
    BY <1>0, <2>1 DEF IdentityRequest
  <2> HIDE DEF q
  <2>3. CallbackNamed(q)
    BY <1>0, <2>1, <2>2 DEF CallbackNamed
  <2> QED  BY <1>1, <1>3, <2>1, <2>2, <2>3 DEF Exchange
<1>4. CASE ExchangeFails(s) \/ IdentityDies(s)
  BY <1>1, <1>4, NoIdentityType DEF ExchangeFails, IdentityDies, IdentityEnd
<1>5. ASSUME NEW choice \in BOOLEAN, ReadFile(s, choice)  PROVE IdentityRows'
  <2> DEFINE phase == "write"
             old == onFile[r.file]
             mismatch == Mismatch(onFile[r.file], r.profile, choice) \/ Elsewhere(r.file, r.profile)
  <2>1. r.phase = "read" /\ r.file \in Files /\ r.profile \in Profile
    BY <1>0, <1>5 DEF ReadFile, CallbackNamed
  <2>2. PICK other \in Files \cup {None} :
            idreq' = [idreq EXCEPT ![s].phase = phase, ![s].old = old, ![s].reused = other, ![s].mismatch = mismatch]
    <3>1. VerifiedFor(r.file, r.profile) \subseteq Files
      BY DEF VerifiedFor
    <3> QED  BY <1>5, <3>1 DEF ReadFile
  <2>3. old \in Row /\ phase \in {"write"} /\ mismatch \in BOOLEAN
    BY <1>0, <2>1
  <2> HIDE DEF phase, old, mismatch
  <2> DEFINE q == [r EXCEPT !.phase = phase, !.old = old, !.reused = other, !.mismatch = mismatch]
  <2>4. idreq' = [idreq EXCEPT ![s] = q]
    BY <1>0, <2>2
  <2>5. q \in IdentityRequest /\ q.phase = phase /\ q.file = r.file /\ q.profile = r.profile /\ q.old = old
    BY <1>0, <2>3 DEF IdentityRequest
  <2> HIDE DEF q
  <2>6. CallbackNamed(q)
    BY <2>1, <2>3, <2>5 DEF CallbackNamed
  <2> QED  BY <1>1, <1>5, <2>4, <2>5, <2>6 DEF ReadFile
<1>6. ASSUME NEW choice \in BOOLEAN, record_uaepass_verification(s, choice)  PROVE IdentityRows'
  <2>1. r.phase = "write" /\ r.file \in Files /\ r.profile \in Profile /\ r.old \in Row
        /\ r.reused \in Files \cup {None}
    BY <1>0, <1>6 DEF record_uaepass_verification, CallbackNamed, IdentityRequest
  <2>2. verification' \subseteq Files \X Persons_
    <3>1. r.profile.person \in Persons_
      BY <2>1, NumberType
    <3> QED  BY <1>0, <1>6, <2>1, <3>1 DEF record_uaepass_verification
  <2>3. reuseAlert' \subseteq Files \X Files
    BY <1>0, <1>6, <2>1 DEF record_uaepass_verification
  <2>4. onFile' \in [Files -> Row]
    <3> DEFINE new == Filled(onFile[r.file], r.old, r.profile, choice)
    <3>1. new \in Row
      BY <1>0, <2>1, FilledType
    <3>2. onFile' = onFile \/ onFile' = [onFile EXCEPT ![r.file] = new]
      BY <1>6 DEF record_uaepass_verification
    <3> HIDE DEF new
    <3> QED  BY <1>0, <3>1, <3>2
  <2>5. idreq' = [idreq EXCEPT ![s] = NoIdentity] /\ issued' = issued /\ oauth' = oauth
    BY <1>6 DEF record_uaepass_verification, IdentityEnd
  <2> QED  BY <1>0, <2>2, <2>3, <2>4, <2>5, NoIdentityType, CallbackType
<1> QED  BY <1>2, <1>3, <1>4, <1>5, <1>6 DEF IdentityStep

\* Types of the customers, the states, the verifications and the callbacks, however
\* callbacks overlap and die: no more states are consumed than were issued.
THEOREM IdentityTypeCorrect == IdentitySpec => []IdentityTypeOK
<1>1. IdentityInit => IdentityRows
  <2> SUFFICES ASSUME IdentityInit  PROVE IdentityRows
    OBVIOUS
  <2>1. onFile \in [Files -> Row]
    <3>1. [id_number : {None}, id_type : {None, "passport"}, contact : {None, Entry}] \subseteq Row
      BY DEF Row, Column
    <3> QED  BY <3>1 DEF IdentityInit
  <2>2. issued \in [Files -> 0..MaxStates] /\ oauth \in [Files -> 0..MaxStates] /\ \A c \in Files : oauth[c] <= issued[c]
    BY IdentityAssumption DEF IdentityInit
  <2>3. idreq \in [Slots -> IdentityRequest] /\ \A s \in Slots : CallbackNamed(idreq[s])
    BY NoIdentityType DEF IdentityInit
  <2>4. verification = {} /\ reuseAlert = {}
    BY DEF IdentityInit
  <2> QED  BY <2>1, <2>2, <2>3, <2>4 DEF IdentityRows, IdentityTypeOK
<1>2. IdentityRows /\ [IdentityNext]_identityVars => IdentityRows'
  <2> SUFFICES ASSUME IdentityRows, [IdentityNext]_identityVars  PROVE IdentityRows'
    OBVIOUS
  <2>1. ASSUME NEW c \in Files, uaepass_customer_start(c)  PROVE IdentityRows'
    <3>1. issued' \in [Files -> 0..MaxStates] /\ oauth' \in [Files -> 0..MaxStates] /\ \A d \in Files : oauth'[d] <= issued'[d]
      BY <2>1, IdentityAssumption DEF uaepass_customer_start, IdentityRows, IdentityTypeOK
    <3> QED  BY <2>1, <3>1 DEF uaepass_customer_start, IdentityRows, IdentityTypeOK, CallbackNamed
  <2>2. CASE UNCHANGED identityVars
    BY <2>2 DEF identityVars, IdentityRows, IdentityTypeOK, CallbackNamed
  <2> QED  BY <2>1, <2>2, CallbackStepType DEF IdentityNext
<1>3. IdentityRows => IdentityTypeOK
  BY DEF IdentityRows
<1> QED  BY <1>1, <1>2, <1>3, PTL DEF IdentitySpec
===============================================================================
