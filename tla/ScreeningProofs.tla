---------------------------- MODULE ScreeningProofs ----------------------------
(***************************************************************************)
(* Proofs about Screening for every set of subjects, lists and slots: type *)
(* correctness, at most one open alert for a match, decisions that stand   *)
(* until the entry or the subject changes and, for requests that do not    *)
(* overlap, screenings that leave no match of their subject unhandled.     *)
(***************************************************************************)
EXTENDS Screening, TLAPS

USE ListAssumption, ScreeningBounds

\* The steps of one request or job.
Step(i) ==
    \/ StartRefresh(i) \/ Invalidate(i)
    \/ \E d \in Datasets : Load(i, d) \/ LoadFailed(i, d)
    \/ StartRescreen(i) \/ ListCustomers(i) \/ ListOwners(i)
    \/ \E s \in Subjects : Lookup(i, s) \/ Onboard(i, s)
    \/ Fill(i) \/ Score(i) \/ Persist(i) \/ Abort(i)
    \/ \E s \in Subjects, e \in Entities : DecideStamp(i, s, e)
    \/ DecideCommit(i)

\* The steps no slot is needed for.
Sudden ==
    Tick \/ \E s \in Subjects : close_relationship(s) \/ reactivate_customer(s) \/ ChangeSubject(s)

LEMMA NextSteps == Next => Sudden \/ \E i \in Slots : Step(i)
BY DEF Next, Sudden, Step, RefreshStep, ScreenStep

-------------------------------------------------------------------------------
\* The inductive invariant

TablesOK ==
    /\ entity \in [Entities -> EntityRow]
    /\ subject \in [Subjects -> SubjectRow]
    /\ alert \in [Subjects -> [Entities -> AlertRows]]

LocalOK ==
    /\ cache \in [Subjects -> (SUBSET Entities) \cup {None}]
    /\ clock \in 1..MaxTime
    /\ dirty \in BOOLEAN /\ screened \subseteq Subjects /\ moved \subseteq Subjects \X Entities

\* A screening or decision has its subject.
Informed(r) == r.phase \in {"fill", "score", "persist", "decide"} => r.subject \in Subjects

RequestsOK == req \in [Slots -> Request] /\ \A i \in Slots : Informed(req[i])

\* The pairs slot i is deciding about.
Deciding(i, s, e) == req[i].phase = "decide" /\ req[i].subject = s /\ e \in req[i].found

\* What an unmoved pair was decided on is still so.
Stands(s, e) ==
    /\ entity[e].changed <= alert[s][e].at
    /\ s \in Owners \/ alert[s][e].hash = subject[s].version

StandInv ==
    /\ \A s \in Subjects, e \in Entities :
          alert[s][e].at > 0 /\ alert[s][e].open = 0 /\ <<s, e>> \notin moved => Stands(s, e)
    /\ \A i \in Slots, s \in Subjects, e \in Entities :
          Deciding(i, s, e) /\ req[i].clean => entity[e].changed <= req[i].stamp
    /\ \A e \in Entities : entity[e].changed <= clock

TypeInv == TablesOK /\ LocalOK /\ RequestsOK
ScreenInv == TypeInv /\ OneOpenAlert /\ StandInv

LEMMA TypeInvIsTypeOK == TypeInv => TypeOK
BY DEF TypeInv, TablesOK, LocalOK, RequestsOK, TypeOK

-------------------------------------------------------------------------------
\* Lemmas

LEMMA NoRequestOK == NoRequest \in Request /\ Informed(NoRequest)
BY DEF NoRequest, Request, Informed

\* The row of a match whose alert has just been raised.
Opened(row) == [row EXCEPT !.open = 1]

\* A screening of s raises open alerts from 0 to 1 and changes nothing else.
LEMMA RaiseOK ==
    ASSUME TypeInv, NEW s, NEW hits
    PROVE  /\ Raise(s, hits) \in [Subjects -> [Entities -> AlertRows]]
           /\ \A t \in Subjects, e \in Entities :
                 \/ Raise(s, hits)[t][e] = alert[t][e]
                 \/ /\ ~Covered(t, e)
                    /\ Raise(s, hits)[t][e] = Opened(alert[t][e])
<1> DEFINE Row(e) ==
         IF e \in Uncovered(s, hits) THEN OneMore(alert[s][e]) ELSE alert[s][e]
<1>1. alert \in [Subjects -> [Entities -> AlertRows]]
  BY DEF TypeInv, TablesOK
<1>2. Raise(s, hits) = [alert EXCEPT ![s] = [e \in Entities |-> Row(e)]]
  BY DEF Raise
<1>3. ASSUME s \in Subjects, NEW e \in Entities
      PROVE  /\ Row(e) \in AlertRows
             /\ \/ Row(e) = alert[s][e]
                \/ ~Covered(s, e) /\ Row(e) = Opened(alert[s][e])
  <2>1. alert[s][e] \in AlertRows
    BY <1>1, <1>3
  <2>2. CASE e \in Uncovered(s, hits)
    <3>1. alert[s][e].open = 0
      BY <2>1, <2>2 DEF Uncovered, Covered, AlertRows
    <3>2. Row(e) = Opened(alert[s][e])
      BY <2>2, <3>1 DEF OneMore, Opened
    <3>3. QED
      BY <2>1, <2>2, <3>2 DEF Uncovered, AlertRows, Opened
  <2>3. CASE e \notin Uncovered(s, hits)
    BY <2>1, <2>3
  <2>4. QED
    BY <2>2, <2>3
<1> DEFINE rows == [e \in Entities |-> Row(e)]
<1>4. CASE s \in Subjects
  <2>1. \A e \in Entities : rows[e] = Row(e)
    OBVIOUS
  <2>2. rows \in [Entities -> AlertRows]
    BY <1>3, <1>4
  <2>3. Raise(s, hits) = [alert EXCEPT ![s] = rows]
    BY <1>2
  <2> HIDE DEF rows
  <2>4. Raise(s, hits) \in [Subjects -> [Entities -> AlertRows]]
    BY <1>1, <1>4, <2>2, <2>3
  <2>5. ASSUME NEW t \in Subjects, NEW e \in Entities
        PROVE  Raise(s, hits)[t][e] = IF t = s THEN Row(e) ELSE alert[t][e]
    BY <1>1, <1>4, <2>1, <2>3
  <2>6. QED
    BY <1>3, <1>4, <2>4, <2>5
<1>5. CASE s \notin Subjects
  BY <1>1, <1>2, <1>5
<1>6. QED
  BY <1>4, <1>5

\* ... and only where no alert covers the match.
LEMMA RaiseIsUncovered ==
    ASSUME TypeInv, NEW s, NEW hits, NEW t \in Subjects, NEW e \in Entities,
           Raise(s, hits)[t][e] # alert[t][e]
    PROVE  ~Covered(t, e)
BY RaiseOK

\* A request that takes a step, and no decision, disturbs nothing the invariant says.
LEMMA QuietStep ==
    ASSUME ScreenInv, NEW i \in Slots, NEW r \in Request, Informed(r), r.phase # "decide",
           req' = [req EXCEPT ![i] = r], UNCHANGED <<entity, subject, alert, clock, moved>>
    PROVE  RequestsOK' /\ OneOpenAlert' /\ StandInv'
<1>1. RequestsOK' /\ \A j \in Slots : req'[j] = IF j = i THEN r ELSE req[j]
  BY DEF ScreenInv, TypeInv, RequestsOK
<1>2. \A j \in Slots, s \in Subjects, e \in Entities : Deciding(j, s, e)' => j # i /\ Deciding(j, s, e)
  BY <1>1 DEF Deciding
<1>3. StandInv'
  BY <1>1, <1>2 DEF ScreenInv, StandInv, Stands
<1>4. QED
  BY <1>1, <1>3 DEF ScreenInv, OneOpenAlert

\* A request that goes on is in a phase without a subject.
LEMMA OnwardOK ==
    ASSUME NEW todo \in SUBSET Subjects, NEW owners \in BOOLEAN, NEW outdated
    PROVE  LET q == Onward(todo, owners, outdated)
           IN  q \in Request /\ Informed(q) /\ q.phase # "decide"
<1> DEFINE q == [NoRequest EXCEPT !.phase = "next", !.todo = todo, !.owners = owners,
                                  !.outdated = outdated \cap todo]
<1>1. /\ q \in Request /\ Informed(q) /\ q.phase # "decide"
      /\ NoRequest \in Request /\ Informed(NoRequest) /\ NoRequest.phase # "decide"
  BY NoRequestOK DEF NoRequest, Request, Informed
<1>2. Onward(todo, owners, outdated) = IF todo = {} /\ ~owners THEN NoRequest ELSE q
  BY DEF Onward
<1> HIDE DEF q
<1>3. QED
  BY <1>1, <1>2

LEMMA FinishOK ==
    ASSUME NEW i, Finish(i)
    PROVE  \E r \in Request : Informed(r) /\ r.phase # "decide" /\ req' = [req EXCEPT ![i] = r]
BY NoRequestOK DEF NoRequest, Finish

-------------------------------------------------------------------------------
\* Each step preserves the invariant

LEMMA RefreshSteps ==
    ASSUME ScreenInv, NEW i \in Slots,
           \/ StartRefresh(i) \/ Invalidate(i) \/ StartRescreen(i)
           \/ \E d \in Datasets : LoadFailed(i, d)
    PROVE  ScreenInv'
<1>0. req[i] \in Request /\ Informed(req[i]) /\ TypeInv
  BY DEF ScreenInv, TypeInv, RequestsOK
<1>n. clock \in 0..MaxTime /\ 0 \in 0..MaxTime
  BY <1>0 DEF TypeInv, LocalOK
<1>1. CASE StartRefresh(i)
  <2>1. [NoRequest EXCEPT !.phase = "load", !.lists = Datasets, !.stamp = clock] \in Request
    BY <1>n, NoRequestOK DEF NoRequest, Request
  <2>2. LET q == [NoRequest EXCEPT !.phase = "load", !.lists = Datasets, !.stamp = clock]
        IN  Informed(q) /\ q.phase # "decide"
    BY DEF NoRequest, Informed
  <2>3. RequestsOK' /\ OneOpenAlert' /\ StandInv'
    BY <1>1, <2>1, <2>2, QuietStep DEF StartRefresh, tables, history
  <2>4. QED
    BY <1>0, <1>1, <2>3 DEF StartRefresh, tables, history, ScreenInv, TypeInv, TablesOK, LocalOK
<1>2. CASE Invalidate(i)
  <2>1. LET q == [req[i] EXCEPT !.phase = "list", !.stamp = 0]
        IN  q \in Request /\ Informed(q) /\ q.phase # "decide"
    BY <1>0, <1>n DEF Request, Informed
  <2>5. req' = [req EXCEPT ![i] = [req[i] EXCEPT !.phase = "list", !.stamp = 0]]
        /\ UNCHANGED <<entity, subject, alert, clock, moved>>
    BY <1>0, <1>2 DEF Invalidate, tables, TypeInv, RequestsOK
  <2>2. RequestsOK' /\ OneOpenAlert' /\ StandInv'
    BY <2>1, <2>5, QuietStep
  <2>3. cache' \in [Subjects -> (SUBSET Entities) \cup {None}]
    BY <1>2 DEF Invalidate, invalidate
  <2>4. QED
    BY <1>0, <1>2, <2>2, <2>3 DEF Invalidate, tables, ScreenInv, TypeInv, TablesOK, LocalOK
<1>3. CASE StartRescreen(i)
  <2>1. LET q == [NoRequest EXCEPT !.phase = "list"]
        IN  q \in Request /\ Informed(q) /\ q.phase # "decide"
    BY NoRequestOK DEF NoRequest, Request, Informed
  <2>2. RequestsOK' /\ OneOpenAlert' /\ StandInv'
    BY <1>3, <2>1, QuietStep DEF StartRescreen, tables, history
  <2>3. QED
    BY <1>0, <1>3, <2>2 DEF StartRescreen, tables, history, ScreenInv, TypeInv, TablesOK, LocalOK
<1>4. ASSUME NEW d \in Datasets, LoadFailed(i, d)
      PROVE  ScreenInv'
  <2>1. LET q == [req[i] EXCEPT !.lists = @ \ {d}, !.stamp = clock]
        IN  q \in Request /\ Informed(q) /\ q.phase # "decide"
    BY <1>0, <1>n, <1>4 DEF Request, LoadFailed, Informed
  <2>2. req' = [req EXCEPT ![i] = [req[i] EXCEPT !.lists = @ \ {d}, !.stamp = clock]]
    BY <1>4 DEF LoadFailed
  <2>3. RequestsOK' /\ OneOpenAlert' /\ StandInv'
    BY <1>4, <2>1, <2>2, QuietStep DEF LoadFailed, tables, history
  <2>4. QED
    BY <1>0, <1>4, <2>3 DEF LoadFailed, tables, history, ScreenInv, TypeInv, TablesOK, LocalOK
<1>5. QED
  BY <1>1, <1>2, <1>3, <1>4

LEMMA ListSteps ==
    ASSUME ScreenInv, NEW i \in Slots, ListCustomers(i) \/ ListOwners(i) \/ Abort(i)
    PROVE  ScreenInv'
<1>0. TypeInv
  BY DEF ScreenInv
<1>1. {s \in Subjects \ Owners : subject[s].status = "active"} \in SUBSET Subjects
      /\ RelatedParties \in SUBSET Subjects
  BY DEF RelatedParties
<1>2. \E r \in Request : Informed(r) /\ r.phase # "decide" /\ req' = [req EXCEPT ![i] = r]
  BY <1>0, <1>1, OnwardOK, FinishOK DEF Continue, ListCustomers, ListOwners, Abort
<1>3. UNCHANGED <<tables, cache, clock, history>>
  BY DEF ListCustomers, ListOwners, Abort
<1>4. RequestsOK' /\ OneOpenAlert' /\ StandInv'
  BY <1>2, <1>3, QuietStep DEF tables, history
<1>5. QED
  BY <1>0, <1>3, <1>4 DEF tables, history, ScreenInv, TypeInv, TablesOK, LocalOK

LEMMA LookupStep ==
    ASSUME ScreenInv, NEW i \in Slots, NEW s \in Subjects, Lookup(i, s)
    PROVE  ScreenInv'
<1> DEFINE clean == ~dirty /\ s \notin req[i].outdated
           r == [req[i] EXCEPT !.todo = @ \ {s}, !.subject = s, !.clean = clean,
               !.phase = IF cache[s] = None THEN "fill" ELSE "score",
               !.found = IF cache[s] = None THEN Tokens(s) ELSE cache[s]]
<1>0. TypeInv /\ req[i] \in Request /\ dirty \in BOOLEAN
  BY DEF ScreenInv, TypeInv, RequestsOK, LocalOK
<1>1. Tokens(s) \subseteq Entities /\ (cache[s] # None => cache[s] \subseteq Entities)
  BY <1>0 DEF Tokens, TypeInv, LocalOK
<1>2. Informed(r) /\ r.phase # "decide" /\ req' = [req EXCEPT ![i] = r]
  BY <1>0 DEF Lookup, Request, Informed
<1> HIDE DEF clean
<1>c. clean \in BOOLEAN
  BY DEF clean
<1>3. r \in Request
  BY <1>0, <1>1, <1>c DEF Request
<1>4. RequestsOK' /\ OneOpenAlert' /\ StandInv'
  BY <1>2, <1>3, QuietStep DEF Lookup, tables, history
<1>5. QED
  BY <1>0, <1>4 DEF Lookup, tables, history, ScreenInv, TypeInv, TablesOK, LocalOK

LEMMA FillStep ==
    ASSUME ScreenInv, NEW i \in Slots, Fill(i)
    PROVE  ScreenInv'
<1>0. TypeInv /\ req[i] \in Request /\ Informed(req[i])
  BY DEF ScreenInv, TypeInv, RequestsOK
<1>1. LET q == [req[i] EXCEPT !.phase = "score"]
      IN  q \in Request /\ Informed(q) /\ q.phase # "decide"
  BY <1>0 DEF Fill, Request, Informed
<1>2. RequestsOK' /\ OneOpenAlert' /\ StandInv'
  BY <1>0, <1>1, QuietStep DEF Fill, tables, history
<1>3. cache' \in [Subjects -> (SUBSET Entities) \cup {None}]
  BY <1>0 DEF Fill, TypeInv, LocalOK, Request, Informed
<1>4. QED
  BY <1>0, <1>2, <1>3 DEF Fill, tables, history, ScreenInv, TypeInv, TablesOK, LocalOK

LEMMA ScoreStep ==
    ASSUME ScreenInv, NEW i \in Slots, Score(i)
    PROVE  ScreenInv'
<1> DEFINE r == [req[i] EXCEPT !.phase = "persist", !.found = {e \in @ : IsHit(req[i].subject, e)}]
<1>0. TypeInv /\ req[i] \in Request /\ Informed(req[i])
  BY DEF ScreenInv, TypeInv, RequestsOK
<1>1. r \in Request /\ Informed(r) /\ r.phase # "decide"
  BY <1>0 DEF Score, Request, Informed
<1>2. req' = [req EXCEPT ![i] = r]
  BY DEF Score
<1>3. RequestsOK' /\ OneOpenAlert' /\ StandInv'
  BY <1>1, <1>2, QuietStep DEF Score, tables, history
<1>4. QED
  BY <1>0, <1>3 DEF Score, tables, history, ScreenInv, TypeInv, TablesOK, LocalOK

LEMMA OnboardStep ==
    ASSUME ScreenInv, NEW i \in Slots, NEW s \in Subjects, Onboard(i, s)
    PROVE  ScreenInv'
<1> DEFINE r == [NoRequest EXCEPT !.phase = "next", !.todo = {s}]
<1>0. TypeInv
  BY DEF ScreenInv
<1>1. r \in Request /\ Informed(r) /\ r.phase # "decide" /\ req' = [req EXCEPT ![i] = r]
  BY NoRequestOK DEF Onboard, NoRequest, Request, Informed
<1>2. subject' \in [Subjects -> SubjectRow] /\ \A t \in Subjects : subject'[t].version = subject[t].version
  BY <1>0 DEF Onboard, TypeInv, TablesOK, SubjectRow
<1> HIDE DEF r
<1>3. RequestsOK' /\ \A j \in Slots : req'[j] = IF j = i THEN r ELSE req[j]
  BY <1>0, <1>1 DEF TypeInv, RequestsOK
<1>4. \A j \in Slots, t \in Subjects, e \in Entities : Deciding(j, t, e)' => j # i /\ Deciding(j, t, e)
  BY <1>1, <1>3 DEF Deciding
<1>5. StandInv'
  BY <1>2, <1>3, <1>4 DEF Onboard, history, ScreenInv, StandInv, Stands
<1>6. QED
  BY <1>0, <1>2, <1>3, <1>5 DEF Onboard, history, ScreenInv, TypeInv, TablesOK, LocalOK, OneOpenAlert

\* A transaction that raises alerts leaves decided matches that stand alone.
LEMMA PersistStep ==
    ASSUME ScreenInv, NEW i \in Slots, Persist(i)
    PROVE  ScreenInv'
<1> DEFINE q == req[i]
<1>0. TypeInv /\ q \in Request /\ Informed(q)
  BY DEF ScreenInv, TypeInv, RequestsOK
<1> DEFINE raised == Uncovered(q.subject, q.found)
           late(j) == req[j].phase = "decide" /\ req[j].subject = q.subject
<1>1. q.todo \in SUBSET Subjects /\ q.owners \in BOOLEAN
  BY <1>0 DEF Request
<1>2. PICK r \in Request :
         /\ Informed(r) /\ r.phase # "decide"
         /\ \/ req' = [req EXCEPT ![i] = r]
            \/ req' = [j \in Slots |-> IF j = i THEN r ELSE
                         [req[j] EXCEPT !.found = IF late(j) THEN @ \ raised ELSE @]]
  <2>1. CASE q.gone
    BY <2>1, FinishOK DEF Persist
  <2>2. CASE ~q.gone
    BY <1>1, <2>2, OnwardOK DEF Persist
  <2>3. QED
    BY <2>1, <2>2
<1>3. ASSUME NEW j \in Slots
      PROVE  /\ req'[j] \in Request /\ Informed(req'[j]) /\ (j = i => req'[j] = r)
             /\ j # i => /\ req'[j].phase = req[j].phase /\ req'[j].subject = req[j].subject
                         /\ req'[j].stamp = req[j].stamp /\ req'[j].clean = req[j].clean
                         /\ req'[j].found \subseteq req[j].found
  <2>1. req[j] \in Request /\ Informed(req[j])
    BY <1>0 DEF TypeInv, RequestsOK
  <2>2. CASE j = i
    BY <1>0, <1>2, <2>2 DEF TypeInv, RequestsOK
  <2>3. CASE j # i
    <3>1. PICK found \in SUBSET req[j].found : req'[j] = [req[j] EXCEPT !.found = found]
      <4>1. \/ req'[j] = [req[j] EXCEPT !.found = req[j].found]
            \/ req'[j] = [req[j] EXCEPT !.found = req[j].found \ raised]
        <5>1. CASE req' = [req EXCEPT ![i] = r]
          BY <1>0, <2>1, <2>3, <5>1 DEF TypeInv, RequestsOK, Request
        <5>2. CASE req' = [k \in Slots |-> IF k = i THEN r ELSE
                            [req[k] EXCEPT !.found = IF late(k) THEN @ \ raised ELSE @]]
          BY <2>3, <5>2
        <5>3. QED
          BY <1>2, <5>1, <5>2
      <4>2. req[j].found \in SUBSET req[j].found /\ req[j].found \ raised \in SUBSET req[j].found
        OBVIOUS
      <4>3. QED
        BY <4>1, <4>2
    <3>2. QED
      BY <2>1, <2>3, <3>1 DEF Request, Informed
  <2>4. QED
    BY <2>2, <2>3
<1> HIDE DEF late, raised
<1>4. UNCHANGED <<entity, subject, cache, clock, dirty, moved>> /\ screened' \subseteq Subjects
  BY <1>0 DEF Persist, Informed, TypeInv, LocalOK
<1>5. alert' = alert \/ alert' = Raise(q.subject, q.found)
  BY DEF Persist
<1>6. alert' \in [Subjects -> [Entities -> AlertRows]]
  BY <1>0, <1>5, RaiseOK DEF TypeInv, TablesOK
<1>7. ASSUME NEW s \in Subjects, NEW e \in Entities
      PROVE  \/ alert'[s][e] = alert[s][e]
             \/ /\ ~Covered(s, e)
                /\ alert'[s][e].open = 1
                /\ alert'[s][e].at = alert[s][e].at
                /\ alert'[s][e].hash = alert[s][e].hash
  <2>1. alert[s][e] \in AlertRows
    BY <1>0 DEF TypeInv, TablesOK
  <2>2. \/ alert'[s][e] = alert[s][e]
        \/ ~Covered(s, e) /\ alert'[s][e] = Opened(alert[s][e])
    BY <1>0, <1>5, RaiseOK
  <2>3. QED
    BY <2>1, <2>2 DEF AlertRows, Opened
<1>8. RequestsOK'
  <2>1. req' = [j \in Slots |-> req'[j]]
    BY <1>0, <1>2 DEF TypeInv, RequestsOK
  <2>2. QED
    BY <1>3, <2>1 DEF RequestsOK
<1>9. \A j \in Slots, s \in Subjects, e \in Entities :
         Deciding(j, s, e)' => j # i /\ Deciding(j, s, e)
  BY <1>2, <1>3 DEF Deciding
<1>10. OneOpenAlert'
  BY <1>7 DEF ScreenInv, OneOpenAlert
<1>11. StandInv'
  BY <1>3, <1>4, <1>7, <1>9 DEF ScreenInv, StandInv, Stands
<1>12. QED
  BY <1>0, <1>4, <1>6, <1>8, <1>10, <1>11 DEF ScreenInv, TypeInv, TablesOK, LocalOK

\* The clock and the customers' own changes.
LEMMA SuddenStep ==
    ASSUME ScreenInv, Sudden
    PROVE  ScreenInv'
<1>0. TypeInv
  BY DEF ScreenInv
<1>1. CASE Tick
  BY <1>0, <1>1 DEF Tick, tables, history, ScreenInv, TypeInv, TablesOK, LocalOK, RequestsOK, EntityRow,
     Deciding, OneOpenAlert, StandInv, Stands
<1>2. ASSUME NEW s \in Subjects, close_relationship(s) \/ reactivate_customer(s)
      PROVE  ScreenInv'
  <2>1. subject' \in [Subjects -> SubjectRow] /\ \A t \in Subjects : subject'[t].version = subject[t].version
    <3>1. PICK st \in {"active", "closed"} : subject' = [subject EXCEPT ![s].status = st]
      BY <1>2 DEF close_relationship, reactivate_customer
    <3>2. QED
      BY <1>0, <3>1 DEF TypeInv, TablesOK, SubjectRow
  <2>2. UNCHANGED <<entity, alert, cache, clock, req, history>>
    BY <1>2 DEF close_relationship, reactivate_customer
  <2>3. QED
    BY <1>0, <2>1, <2>2 DEF history, ScreenInv, TypeInv, TablesOK, LocalOK, RequestsOK,
       Deciding, OneOpenAlert, StandInv, Stands
<1>3. ASSUME NEW s \in Subjects, ChangeSubject(s)
      PROVE  ScreenInv'
  <2>1. UNCHANGED <<entity, alert, cache, clock, dirty>>
    BY <1>3 DEF ChangeSubject
  <2>2. /\ subject' \in [Subjects -> SubjectRow]
        /\ \A t \in Subjects : t # s => subject'[t].version = subject[t].version
    <3>1. subject' = [subject EXCEPT ![s].version = 1] /\ subject \in [Subjects -> SubjectRow]
      BY <1>0, <1>3 DEF ChangeSubject, TypeInv, TablesOK
    <3>2. QED
      BY <3>1 DEF SubjectRow
  <2>3. /\ screened' \subseteq Subjects /\ moved' \subseteq Subjects \X Entities
        /\ \A t \in Subjects, e \in Entities : <<t, e>> \notin moved' => t # s /\ <<t, e>> \notin moved
    BY <1>0, <1>3 DEF ChangeSubject, TypeInv, LocalOK
  <2>4. ASSUME NEW j \in Slots
        PROVE  /\ req'[j] \in Request
               /\ req'[j].phase = req[j].phase /\ req'[j].subject = req[j].subject
               /\ req'[j].found = req[j].found /\ req'[j].stamp = req[j].stamp
               /\ req'[j].clean => req[j].clean
    <3>1. PICK b \in BOOLEAN :
             /\ req'[j] = [req[j] EXCEPT !.clean = b, !.outdated = @ \cup ({s} \cap req[j].todo)]
             /\ b => req[j].clean
      <4>1. req'[j] = [req[j] EXCEPT !.clean = (req[j].clean /\ req[j].subject # s),
                                     !.outdated = @ \cup ({s} \cap req[j].todo)]
        BY <1>3 DEF ChangeSubject
      <4>2. (req[j].clean /\ req[j].subject # s) \in BOOLEAN
        OBVIOUS
      <4>3. QED
        BY <4>1, <4>2
    <3>2. req[j] \in Request
      BY <1>0 DEF TypeInv, RequestsOK
    <3>3. QED
      BY <3>1, <3>2 DEF Request
  <2>5. RequestsOK'
    <3>1. req' = [j \in Slots |-> req'[j]]
      BY <1>3 DEF ChangeSubject
    <3>2. QED
      BY <1>0, <2>4, <3>1 DEF TypeInv, RequestsOK, Informed
  <2>6. StandInv'
    BY <2>1, <2>2, <2>3, <2>4 DEF ScreenInv, StandInv, Stands, Deciding
  <2>7. QED
    BY <1>0, <2>1, <2>2, <2>3, <2>5, <2>6 DEF ScreenInv, TypeInv, TablesOK, LocalOK, OneOpenAlert
<1>4. QED
  BY <1>1, <1>2, <1>3 DEF Sudden

LEMMA DecideStampStep ==
    ASSUME ScreenInv, NEW i \in Slots, NEW s \in Subjects, NEW e \in Entities, DecideStamp(i, s, e)
    PROVE  ScreenInv'
<1> DEFINE r == [NoRequest EXCEPT !.phase = "decide", !.subject = s, !.found = {e},
                  !.clean = TRUE, !.stamp = clock, !.seen = entity[e].content]
<1>0. TypeInv
  BY DEF ScreenInv
<1>1. clock \in 0..MaxTime /\ entity[e].content \in Contents \cup {None}
  BY <1>0 DEF TypeInv, LocalOK, TablesOK, EntityRow
<1>2. r \in Request /\ Informed(r)
  BY <1>1, NoRequestOK DEF NoRequest, Request, Informed
<1>3. r.found = {e} /\ r.stamp = clock
  BY DEF NoRequest
<1>4. req' = [req EXCEPT ![i] = r] /\ UNCHANGED <<tables, cache, clock, history>>
  BY DEF DecideStamp
<1> HIDE DEF r
<1>5. RequestsOK' /\ \A j \in Slots : req'[j] = IF j = i THEN r ELSE req[j]
  BY <1>0, <1>2, <1>4 DEF TypeInv, RequestsOK
<1>6. ASSUME NEW j \in Slots, NEW t \in Subjects, NEW f \in Entities, Deciding(j, t, f)', req'[j].clean
      PROVE  entity[f].changed <= req'[j].stamp
  <2>1. CASE j = i
    BY <1>3, <1>5, <1>6, <2>1 DEF Deciding, ScreenInv, StandInv
  <2>2. CASE j # i
    BY <1>5, <1>6, <2>2 DEF Deciding, ScreenInv, StandInv
  <2>3. QED
    BY <2>1, <2>2
<1>7. StandInv'
  BY <1>4, <1>6 DEF tables, history, ScreenInv, StandInv, Stands
<1>8. QED
  BY <1>0, <1>4, <1>5, <1>7 DEF tables, history, ScreenInv, TypeInv, TablesOK, LocalOK, OneOpenAlert

LEMMA DecideCommitStep ==
    ASSUME ScreenInv, NEW i \in Slots, DecideCommit(i)
    PROVE  ScreenInv'
<1> DEFINE q == req[i]
           Row(e) == Decided(alert[q.subject][e], q)
           rows == [e \in Entities |-> IF e \in q.found THEN Row(e) ELSE alert[q.subject][e]]
           pairs == {q.subject} \X q.found
<1>0. TypeInv /\ q \in Request /\ q.subject \in Subjects /\ q.phase = "decide"
  BY DEF ScreenInv, TypeInv, RequestsOK, Informed, DecideCommit
<1>1. PICK r \in Request : Informed(r) /\ r.phase # "decide" /\ req' = [req EXCEPT ![i] = r]
  BY FinishOK DEF DecideCommit
<1>2. RequestsOK' /\ \A j \in Slots : req'[j] = IF j = i THEN r ELSE req[j]
  BY <1>0, <1>1 DEF TypeInv, RequestsOK
<1>3. alert' = [alert EXCEPT ![q.subject] = rows]
  BY DEF DecideCommit
<1>4. /\ UNCHANGED <<entity, subject, cache, clock, dirty, screened>>
      /\ moved' = IF q.clean THEN moved \ pairs ELSE moved \cup pairs
  BY DEF DecideCommit
<1>5. ASSUME NEW e \in q.found
      PROVE  /\ Row(e) \in AlertRows /\ Row(e).at = q.stamp
             /\ Row(e).open <= alert[q.subject][e].open
             /\ Row(e).hash = subject[q.subject].version
  <2>1. e \in Entities
    BY <1>0 DEF Request
  <2>2. alert[q.subject][e] \in AlertRows
    BY <1>0, <2>1 DEF TypeInv, TablesOK
  <2>3. subject[q.subject] \in SubjectRow
    BY <1>0 DEF TypeInv, TablesOK
  <2>4. QED
    BY <1>0, <2>2, <2>3 DEF Decided, AlertRows, SubjectRow, Request
<1> HIDE DEF Row
<1>6. rows \in [Entities -> AlertRows]
  BY <1>0, <1>5 DEF TypeInv, TablesOK
<1>7. \A e \in Entities : rows[e] = IF e \in q.found THEN Row(e) ELSE alert[q.subject][e]
  OBVIOUS
<1> HIDE DEF rows
<1>8. alert' \in [Subjects -> [Entities -> AlertRows]]
  BY <1>0, <1>3, <1>6 DEF TypeInv, TablesOK
<1>9. \A t \in Subjects, e \in Entities : alert'[t][e] = IF Deciding(i, t, e) THEN Row(e) ELSE alert[t][e]
  BY <1>0, <1>3, <1>7 DEF TypeInv, TablesOK, Deciding
<1>10. /\ moved' \subseteq Subjects \X Entities
       /\ \A t \in Subjects, e \in Entities : <<t, e>> \notin moved' =>
              IF Deciding(i, t, e) THEN q.clean ELSE <<t, e>> \notin moved
  BY <1>0, <1>4 DEF TypeInv, LocalOK, Request, Deciding
<1>11. \A j \in Slots, t \in Subjects, e \in Entities :
          Deciding(j, t, e)' => j # i /\ Deciding(j, t, e)
  BY <1>1, <1>2 DEF Deciding
<1>12. OneOpenAlert'
  <2>1. ASSUME NEW t \in Subjects, NEW e \in Entities
        PROVE  alert'[t][e].open <= 1
    <3>1. alert[t][e].open <= 1 /\ alert[t][e].open \in 0..2 /\ alert'[t][e].open \in 0..2
      BY <1>0, <1>8 DEF TypeInv, TablesOK, AlertRows, ScreenInv, OneOpenAlert
    <3>2. alert'[t][e].open <= alert[t][e].open
      BY <1>5, <1>9, <3>1 DEF Deciding
    <3>3. QED
      BY <3>1, <3>2
  <2>2. QED
    BY <2>1 DEF OneOpenAlert
<1>13. StandInv'
  <2>1. ASSUME NEW t \in Subjects, NEW e \in Entities,
               alert'[t][e].at > 0, alert'[t][e].open = 0, <<t, e>> \notin moved'
        PROVE  Stands(t, e)'
    <3>1. CASE Deciding(i, t, e)
      <4>1. entity[e].changed <= q.stamp /\ t = q.subject /\ e \in q.found
        BY <1>10, <2>1, <3>1 DEF ScreenInv, StandInv, Deciding
      <4>2. alert'[t][e].at = q.stamp /\ alert'[t][e].hash = subject[t].version
        BY <1>5, <1>9, <3>1, <4>1
      <4>3. QED
        BY <1>4, <4>1, <4>2 DEF Stands
    <3>2. CASE ~Deciding(i, t, e)
      BY <1>4, <1>9, <1>10, <2>1, <3>2 DEF ScreenInv, StandInv, Stands
    <3>3. QED
      BY <3>1, <3>2
  <2>2. QED
    BY <1>2, <1>4, <1>11, <2>1 DEF ScreenInv, StandInv
<1>14. QED
  BY <1>0, <1>2, <1>4, <1>8, <1>10, <1>12, <1>13 DEF ScreenInv, TypeInv, TablesOK, LocalOK

LEMMA LoadStep ==
    ASSUME ScreenInv, NEW i \in Slots, NEW d \in Datasets, Load(i, d)
    PROVE  ScreenInv'
<1>0. TypeInv
  BY DEF ScreenInv
<1>p. PICK source \in [On(d) -> Contents \cup {None}], now \in req[i].stamp..clock :
         LoadFrom(i, d, source, now)
  BY DEF Load
<1>1. LET differ  == {e \in On(d) : source[e] # entity[e].content}
             deleted == {e \in differ : source[e] = None}
         IN  /\ req[i].phase = "load"
             /\ entity' = [e \in Entities |->
                   IF e \in On(d) THEN LoadedRow(e, source[e], now) ELSE entity[e]]
             /\ alert' = [s \in Subjects |-> [e \in Entities |->
                   IF e \in deleted THEN NoAlert ELSE alert[s][e]]]
             /\ cache' = [s \in Subjects |-> IF cache[s] = None THEN None ELSE cache[s] \ deleted]
             /\ req' = [j \in Slots |->
                   IF j = i THEN [req[i] EXCEPT !.lists = @ \ {d}, !.stamp = clock]
                   ELSE [req[j] EXCEPT
                       !.gone = @ \/ (req[j].phase = "persist" /\ req[j].found \cap deleted # {}),
                       !.found = @ \ deleted,
                       !.clean = @ /\ Untouched(req[j], differ)]]
             /\ dirty' = (dirty \/ differ # {})
             /\ screened' = IF differ = {} THEN screened ELSE {}
             /\ moved' = {p \in Subjects \X Entities :
                             p[2] \notin deleted /\ (p \in moved \/ p[2] \in differ)}
             /\ UNCHANGED <<subject, clock>>
  BY <1>p DEF LoadFrom
<1> DEFINE differ  == {e \in On(d) : source[e] # entity[e].content}
           deleted == {e \in differ : source[e] = None}
<1>2. On(d) \subseteq Entities /\ differ \subseteq Entities /\ deleted \subseteq differ
  BY DEF On
<1>n. now \in 0..MaxTime /\ now <= clock /\ clock \in 1..MaxTime /\ clock \in 0..MaxTime
  BY <1>0 DEF TypeInv, LocalOK, RequestsOK, Request
<1>3. ASSUME NEW e \in Entities
      PROVE  /\ entity'[e] \in EntityRow
             /\ e \notin differ => entity'[e].changed <= entity[e].changed
             /\ entity'[e].changed <= clock
  <2>1. entity[e] \in EntityRow /\ entity[e].changed <= clock /\ clock \in 1..MaxTime
    BY <1>0 DEF TypeInv, TablesOK, LocalOK, ScreenInv, StandInv
  <2>2. CASE e \notin On(d)
    <3>1. entity'[e] = entity[e]
      BY <1>1, <2>2
    <3>2. QED
      BY <2>1, <3>1 DEF EntityRow
  <2>3. CASE e \in On(d)
    <3>1. entity'[e] = LoadedRow(e, source[e], now) /\ source[e] \in Contents \cup {None}
      BY <1>1, <2>3
    <3>2. e \notin differ => source[e] = entity[e].content
      BY <2>3
    <3>3. QED
      BY <1>n, <2>1, <3>1, <3>2 DEF LoadedRow, EntityRow, Listed
  <2>4. QED
    BY <2>2, <2>3
<1>4. entity' \in [Entities -> EntityRow]
  BY <1>1, <1>3
<1>5. ASSUME NEW s \in Subjects, NEW e \in Entities
      PROVE  /\ alert'[s][e] = IF e \in deleted THEN NoAlert ELSE alert[s][e]
             /\ alert'[s][e] \in AlertRows
  <2>1. alert'[s][e] = IF e \in deleted THEN NoAlert ELSE alert[s][e]
    BY <1>1
  <2>2. NoAlert \in AlertRows /\ alert[s][e] \in AlertRows
    BY <1>0 DEF TypeInv, TablesOK, NoAlert, AlertRows
  <2>3. QED
    BY <2>1, <2>2
<1>6. alert' \in [Subjects -> [Entities -> AlertRows]]
  <2>1. alert' = [s \in Subjects |-> [e \in Entities |-> alert'[s][e]]]
    BY <1>1
  <2>2. QED
    BY <1>5, <2>1
<1>7. cache' \in [Subjects -> (SUBSET Entities) \cup {None}]
  BY <1>0, <1>1 DEF TypeInv, LocalOK
<1>8. ASSUME NEW j \in Slots
      PROVE  /\ req'[j] \in Request
             /\ req'[j].phase = req[j].phase /\ req'[j].subject = req[j].subject
             /\ j # i => /\ req'[j].found = req[j].found \ deleted
                         /\ req'[j].stamp = req[j].stamp
                         /\ req'[j].clean => /\ req[j].clean /\ Untouched(req[j], differ)
  <2>1. req[j] \in Request
    BY <1>0 DEF TypeInv, RequestsOK
  <2>2. CASE j = i
    <3>1. req'[j] = [req[j] EXCEPT !.lists = @ \ {d}, !.stamp = clock]
      BY <1>1, <2>2
    <3>2. QED
      BY <1>n, <2>1, <2>2, <3>1 DEF Request
  <2>3. CASE j # i
    <3>1. PICK g \in BOOLEAN, c \in BOOLEAN :
             /\ req'[j] = [req[j] EXCEPT !.gone = g, !.found = @ \ deleted, !.clean = c]
             /\ c => req[j].clean /\ Untouched(req[j], differ)
      <4> DEFINE g == req[j].gone \/ (req[j].phase = "persist" /\ req[j].found \cap deleted # {})
                 c == req[j].clean /\ Untouched(req[j], differ)
      <4>1. req'[j] = [req[j] EXCEPT !.gone = g, !.found = @ \ deleted, !.clean = c]
        BY <1>1, <2>3
      <4>2. g \in BOOLEAN /\ c \in BOOLEAN
        OBVIOUS
      <4>3. QED
        BY <4>1, <4>2
    <3>2. QED
      BY <2>1, <2>3, <3>1 DEF Request
  <2>4. QED
    BY <2>2, <2>3
<1>9. RequestsOK'
  <2>1. req' = [j \in Slots |-> req'[j]]
    BY <1>1
  <2>2. QED
    BY <1>0, <1>8, <2>1 DEF TypeInv, RequestsOK, Informed
<1>10. /\ UNCHANGED <<subject, clock>> /\ dirty' \in BOOLEAN /\ screened' \subseteq Subjects
       /\ moved' \subseteq Subjects \X Entities
  BY <1>0, <1>1 DEF TypeInv, LocalOK
<1>11. ASSUME NEW s \in Subjects, NEW e \in Entities
       PROVE  <<s, e>> \in moved' <=> e \notin deleted /\ (<<s, e>> \in moved \/ e \in differ)
  BY <1>1
<1>12. ASSUME NEW j \in Slots, NEW s \in Subjects, NEW e \in Entities, Deciding(j, s, e)'
       PROVE  Deciding(j, s, e) /\ e \notin deleted
  <2>1. req'[j].phase = "decide" /\ req'[j].subject = s /\ e \in req'[j].found
    BY <1>12 DEF Deciding
  <2>2. j # i
    BY <1>1, <1>8, <2>1
  <2>3. QED
    BY <1>8, <2>1, <2>2 DEF Deciding
<1> HIDE DEF differ, deleted
<1>13. OneOpenAlert'
  BY <1>5 DEF ScreenInv, OneOpenAlert, NoAlert
<1>14. StandInv'
  <2>1. ASSUME NEW s \in Subjects, NEW e \in Entities,
               alert'[s][e].at > 0, alert'[s][e].open = 0, <<s, e>> \notin moved'
        PROVE  Stands(s, e)'
    <3>1. e \notin deleted /\ alert'[s][e] = alert[s][e]
      BY <1>5, <2>1 DEF NoAlert
    <3>2. <<s, e>> \notin moved /\ e \notin differ
      BY <1>11, <2>1, <3>1
    <3>3. Stands(s, e)
      BY <2>1, <3>1, <3>2 DEF ScreenInv, StandInv
    <3>4. entity'[e].changed <= entity[e].changed /\ entity[e] \in EntityRow
          /\ entity'[e] \in EntityRow /\ alert[s][e] \in AlertRows
      BY <1>0, <1>3, <3>2 DEF TypeInv, TablesOK
    <3>5. QED
      BY <1>10, <3>1, <3>3, <3>4 DEF Stands, EntityRow, AlertRows
  <2>2. ASSUME NEW j \in Slots, NEW s \in Subjects, NEW e \in Entities,
               Deciding(j, s, e)', req'[j].clean
        PROVE  entity'[e].changed <= req'[j].stamp
    <3>1. Deciding(j, s, e) /\ j # i
      BY <1>1, <1>12, <2>2 DEF Deciding
    <3>2. req[j].clean /\ e \notin differ
      <4>1. req[j].clean /\ Untouched(req[j], differ)
        BY <1>8, <2>2, <3>1
      <4>2. req[j].phase = "decide" /\ e \in req[j].found
        BY <3>1 DEF Deciding
      <4>3. QED
        BY <4>1, <4>2 DEF Untouched
    <3>3. entity[e].changed <= req[j].stamp /\ req'[j].stamp = req[j].stamp
      BY <1>8, <3>1, <3>2 DEF ScreenInv, StandInv
    <3>4. entity'[e].changed <= entity[e].changed /\ entity[e] \in EntityRow
          /\ entity'[e] \in EntityRow /\ req[j] \in Request
      BY <1>0, <1>3, <3>2 DEF TypeInv, TablesOK, RequestsOK
    <3>5. QED
      BY <3>3, <3>4 DEF EntityRow, Request
  <2>3. QED
    BY <1>3, <1>10, <2>1, <2>2 DEF StandInv
<1>15. QED
  BY <1>0, <1>4, <1>6, <1>7, <1>9, <1>10, <1>13, <1>14 DEF ScreenInv, TypeInv, TablesOK, LocalOK

-------------------------------------------------------------------------------
\* The theorems

LEMMA InitScreenInv == Init => ScreenInv
<1> SUFFICES ASSUME Init PROVE ScreenInv
  OBVIOUS
<1>1. TablesOK
  BY DEF Init, TablesOK, EntityRow, SubjectRow, AlertRows, NoAlert
<1>2. LocalOK
  <2>1. cache \in [Subjects -> (SUBSET Entities) \cup {None}]
    BY DEF Init
  <2>2. clock \in 1..MaxTime
    BY DEF Init
  <2>3. dirty \in BOOLEAN /\ screened \subseteq Subjects /\ moved \subseteq Subjects \X Entities
    BY DEF Init
  <2>4. QED
    BY <2>1, <2>2, <2>3 DEF LocalOK
<1>3. RequestsOK
  BY NoRequestOK DEF Init, RequestsOK
<1>4. StandInv /\ OneOpenAlert
  BY DEF Init, StandInv, Stands, OneOpenAlert, Deciding, NoRequest, NoAlert
<1>5. QED
  BY <1>1, <1>2, <1>3, <1>4 DEF ScreenInv, TypeInv

LEMMA StepsKeepScreenInv == ScreenInv /\ [Next]_vars => ScreenInv'
<1> SUFFICES ASSUME ScreenInv, [Next]_vars PROVE ScreenInv'
  OBVIOUS
<1>1. CASE Sudden
  BY <1>1, SuddenStep
<1>2. ASSUME NEW i \in Slots, Step(i) PROVE ScreenInv'
  BY <1>2, RefreshSteps, ListSteps, LookupStep, FillStep, ScoreStep, OnboardStep, PersistStep,
     LoadStep, DecideStampStep, DecideCommitStep DEF Step
<1>3. CASE UNCHANGED vars
  BY <1>3 DEF vars, tables, history, ScreenInv, TypeInv, TablesOK, LocalOK, RequestsOK, Informed,
     Deciding, OneOpenAlert, StandInv, Stands
<1>4. QED
  BY <1>1, <1>2, <1>3, NextSteps

LEMMA ScreenInvariant == Spec => []ScreenInv
BY InitScreenInv, StepsKeepScreenInv, PTL DEF Spec

\* Every variable keeps its type, and a counter of open alerts is never
\* decremented below zero.
THEOREM TypeCorrect == Spec => []TypeOK
BY ScreenInvariant, TypeInvIsTypeOK, PTL DEF ScreenInv

\* However many screenings overlap, a match waits in at most one open alert
\* (_coverage read in the transaction that inserts, engine.py).
THEOREM OneOpenAlertCorrect == Spec => []OneOpenAlert
BY ScreenInvariant, PTL DEF ScreenInv

\* A decided match is raised again only after its entry or its subject changed.
THEOREM DecisionStandsCorrect == Spec => DecisionStands
<1> DEFINE A == \A s \in Subjects, e \in Entities :
              alert[s][e].at > 0 /\ alert'[s][e].open > alert[s][e].open => <<s, e>> \in moved
<1>1. ScreenInv /\ [Next]_vars => [A]_vars
  <2> SUFFICES ASSUME ScreenInv, Next, NEW s \in Subjects, NEW e \in Entities,
                      alert[s][e].at > 0, alert'[s][e].open > alert[s][e].open
               PROVE  <<s, e>> \in moved
    OBVIOUS
  <2>0. TypeInv /\ alert[s][e] \in AlertRows
    BY DEF ScreenInv, TypeInv, TablesOK
  <2>1. CASE alert' = alert
    BY <2>0, <2>1 DEF AlertRows
  <2>2. ASSUME NEW i \in Slots, Persist(i) PROVE <<s, e>> \in moved
    <3>1. ~Covered(s, e)
      <4>1. alert'[s][e] # alert[s][e]
        BY <2>0 DEF AlertRows
      <4>2. alert' = alert \/ alert' = Raise(req[i].subject, req[i].found)
        BY <2>2 DEF Persist
      <4>3. QED
        BY <2>0, <4>1, <4>2, RaiseIsUncovered
    <3>2. alert[s][e].open = 0 /\ ~Stands(s, e)
      BY <2>0, <3>1 DEF Covered, Stands, AlertRows
    <3>3. QED
      BY <3>2 DEF ScreenInv, StandInv
  <2>3. ASSUME NEW i \in Slots, DecideCommit(i) PROVE <<s, e>> \in moved
    BY <2>0, <2>3 DEF DecideCommit, Decided, TypeInv, TablesOK, AlertRows
  <2>4. ASSUME NEW i \in Slots, NEW d \in Datasets, Load(i, d) PROVE <<s, e>> \in moved
    <3>1. alert'[s][e] = alert[s][e] \/ alert'[s][e] = NoAlert
      <4> DEFINE deleted(source) ==
                   {f \in {g \in On(d) : source[g] # entity[g].content} : source[f] = None}
      <4>1. \E source \in [On(d) -> Contents \cup {None}] :
               alert' = [t \in Subjects |-> [f \in Entities |->
                           IF f \in deleted(source) THEN NoAlert ELSE alert[t][f]]]
        BY <2>4 DEF Load, LoadFrom
      <4> HIDE DEF deleted
      <4>2. QED
        BY <4>1
    <3>2. QED
      BY <2>0, <3>1 DEF NoAlert, AlertRows
  <2>5. Sudden => alert' = alert
    BY DEF Sudden, Tick, close_relationship, reactivate_customer, ChangeSubject, tables
  <2>6. ASSUME NEW i \in Slots, Step(i)
        PROVE  alert' = alert \/ Persist(i) \/ DecideCommit(i) \/ \E d \in Datasets : Load(i, d)
    BY <2>6 DEF Step, StartRefresh, Invalidate, LoadFailed, StartRescreen, ListCustomers,
       ListOwners, Lookup, Onboard, Fill, Score, Abort, DecideStamp, tables
  <2>7. QED
    BY <2>1, <2>2, <2>3, <2>4, <2>5, <2>6, NextSteps
<1>2. QED
  BY <1>1, ScreenInvariant, PTL DEF Spec, DecisionStands

-----------------------------------------------------------------
\* While requests do not overlap: every match of a screened subject is handled

OneRequest == \A i, j \in Slots : i = j

\* A decision stamped after the last change of the entry was on what the entry says; an
\* entry that is not listed has no alerts.
AlertKnown(s, e) ==
    /\ ~Listed(e) => alert[s][e].at = 0 /\ alert[s][e].open = 0
    /\ alert[s][e].at <= clock
    /\ entity[e].changed < alert[s][e].at => alert[s][e].seen = entity[e].content

\* Nothing is missing in a cache that no list has changed under.
CacheKnown == ~dirty => \A s \in Subjects : cache[s] # None => Tokens(s) \subseteq cache[s]

\* What a screening has found so far holds every match; what is decided is what is listed;
\* no decision is later than the stamp a list is loaded with.
Knows(r) ==
    /\ r.phase = "load" => /\ r.stamp \in 0..clock
                           /\ \A s \in Subjects, e \in Entities : alert[s][e].at <= r.stamp
    /\ r.phase = "fill" => Tokens(r.subject) \subseteq r.found
    /\ r.phase \in {"score", "persist"} /\ r.clean => Tokens(r.subject) \subseteq r.found
    /\ r.phase = "persist" => \A e \in r.found : Listed(e)
    /\ r.phase = "decide" =>
          r.stamp \in 1..clock /\ \A e \in r.found : Listed(e) /\ r.seen = entity[e].content

HandledInv ==
    /\ \A s \in Subjects, e \in Entities : AlertKnown(s, e)
    /\ CacheKnown
    /\ \A i \in Slots : Knows(req[i])
    /\ ScreenedIsHandled

LEMMA NoRequestKnows == Knows(NoRequest)
BY DEF Knows, NoRequest

LEMMA OnwardKnows ==
    ASSUME NEW todo, NEW owners, NEW outdated
    PROVE  /\ Knows(Onward(todo, owners, outdated))
           /\ Onward(todo, owners, outdated).phase \in {"idle", "next"}
<1>1. Knows([NoRequest EXCEPT !.phase = "next", !.todo = todo, !.owners = owners,
                              !.outdated = outdated \cap todo])
  BY DEF Knows, NoRequest
<1>2. QED
  BY <1>1, NoRequestKnows DEF Onward, NoRequest

\* A request that goes on from what it knows, and writes nothing.
LEMMA KnowingStep ==
    ASSUME OneRequest, ScreenInv, HandledInv, NEW i \in Slots, NEW r, Knows(r),
           req' = [req EXCEPT ![i] = r],
           UNCHANGED <<entity, alert, subject, clock, cache, dirty, screened>>
    PROVE  HandledInv'
<1>1. \A j \in Slots : req'[j] = r
  BY DEF OneRequest, ScreenInv, TypeInv, RequestsOK
<1>2. \A j \in Slots : Knows(req[j])'
  BY <1>1 DEF Knows, Tokens, IsHit, Listed
<1>3. (\A s \in Subjects, e \in Entities : AlertKnown(s, e))'
  BY DEF HandledInv, AlertKnown, Listed
<1>4. CacheKnown'
  BY DEF HandledInv, CacheKnown, Tokens, IsHit, Listed
<1>5. ScreenedIsHandled'
  BY DEF HandledInv, ScreenedIsHandled, IsHit, Listed, Handled, SameSecond
<1>6. QED
  BY <1>2, <1>3, <1>4, <1>5 DEF HandledInv

LEMMA ReadersKeepHandled ==
    ASSUME OneRequest, ScreenInv, HandledInv, NEW i \in Slots,
           \/ StartRefresh(i) \/ StartRescreen(i) \/ ListCustomers(i) \/ ListOwners(i) \/ Score(i) \/ Abort(i)
           \/ \E d \in Datasets : LoadFailed(i, d)
           \/ \E s \in Subjects : Lookup(i, s) \/ \E e \in Entities : DecideStamp(i, s, e)
    PROVE  HandledInv'
<1> DEFINE q == req[i]
           Goes(r) == Knows(r) /\ req' = [req EXCEPT ![i] = r]
                      /\ UNCHANGED <<tables, cache, clock, history>>
<1>0. q \in Request /\ Informed(q) /\ Knows(q) /\ TypeInv
  BY DEF ScreenInv, TypeInv, RequestsOK, HandledInv
<1>1. ASSUME NEW r, Goes(r)  PROVE HandledInv'
  BY <1>1, KnowingStep DEF tables, history
<1>2. ASSUME StartRefresh(i)  PROVE HandledInv'
  <2>1. Goes([NoRequest EXCEPT !.phase = "load", !.lists = Datasets, !.stamp = clock])
    <3>1. (\A s \in Subjects, e \in Entities : alert[s][e].at <= clock) /\ clock \in 0..clock
      BY <1>0 DEF HandledInv, AlertKnown, TypeInv, LocalOK
    <3>2. QED
      BY <1>2, <3>1 DEF StartRefresh, Knows, NoRequest
  <2>2. QED
    BY <1>1, <2>1
<1>3. ASSUME StartRescreen(i)  PROVE HandledInv'
  <2>1. Goes([NoRequest EXCEPT !.phase = "list"])
    BY <1>3 DEF StartRescreen, Knows, NoRequest
  <2>2. QED
    BY <1>1, <2>1
<1>4. ASSUME ListCustomers(i) \/ ListOwners(i)  PROVE HandledInv'
  <2>1. PICK todo, owners, outdated : Goes(Onward(todo, owners, outdated))
    BY <1>4, OnwardKnows DEF ListCustomers, ListOwners, Continue
  <2>2. QED
    BY <1>1, <2>1
<1>5. ASSUME Abort(i)  PROVE HandledInv'
  <2>1. Goes(NoRequest)
    BY <1>5, NoRequestKnows DEF Abort, Finish
  <2>2. QED
    BY <1>1, <2>1
<1>6. ASSUME NEW d \in Datasets, LoadFailed(i, d)  PROVE HandledInv'
  <2> DEFINE r == [q EXCEPT !.lists = q.lists \ {d}, !.stamp = clock]
  <2>1. r.phase = "load" /\ r.stamp = clock
    BY <1>0, <1>6 DEF LoadFailed, Request
  <2>2. req' = [req EXCEPT ![i] = r] /\ UNCHANGED <<tables, cache, clock, history>>
    BY <1>6 DEF LoadFailed
  <2> HIDE DEF r
  <2>3. (\A s \in Subjects, e \in Entities : alert[s][e].at <= clock) /\ clock \in 0..clock
    BY <1>0 DEF HandledInv, AlertKnown, TypeInv, LocalOK
  <2>4. QED
    BY <1>1, <2>1, <2>2, <2>3 DEF Knows
<1>7. ASSUME Score(i)  PROVE HandledInv'
  <2> DEFINE found == {e \in q.found : IsHit(q.subject, e)}
             r == [q EXCEPT !.phase = "persist", !.found = found]
  <2>1. req' = [req EXCEPT ![i] = r] /\ UNCHANGED <<tables, cache, clock, history>> /\ q.phase = "score"
    BY <1>7 DEF Score
  <2>2. q.clean => Tokens(q.subject) \subseteq q.found
    BY <1>0, <2>1 DEF Knows
  <2>3. (q.clean => Tokens(q.subject) \subseteq found) /\ \A e \in found : Listed(e)
    BY <2>2 DEF Tokens, IsHit
  <2> HIDE DEF found
  <2>4. r.phase = "persist" /\ r.found = found /\ r.clean = q.clean /\ r.subject = q.subject
    BY <1>0 DEF Request
  <2> HIDE DEF r
  <2>5. Knows(r)
    BY <2>3, <2>4 DEF Knows
  <2>6. QED
    BY <1>1, <2>1, <2>5
<1>8. ASSUME NEW s \in Subjects, Lookup(i, s)  PROVE HandledInv'
  <2> DEFINE found == IF cache[s] = None THEN Tokens(s) ELSE cache[s]
             phase == IF cache[s] = None THEN "fill" ELSE "score"
             clean == ~dirty /\ s \notin q.outdated
             todo == q.todo \ {s}
             r == [q EXCEPT !.todo = todo, !.subject = s, !.clean = clean, !.phase = phase, !.found = found]
  <2>1. req' = [req EXCEPT ![i] = r] /\ UNCHANGED <<tables, cache, clock, history>>
    BY <1>8 DEF Lookup
  <2>2. phase \in {"fill", "score"} /\ (phase = "fill" => found = Tokens(s))
        /\ (clean => Tokens(s) \subseteq found)
    BY DEF HandledInv, CacheKnown
  <2> HIDE DEF found, phase, clean, todo
  <2>3. r.phase = phase /\ r.found = found /\ r.clean = clean /\ r.subject = s
    BY <1>0 DEF Request
  <2> HIDE DEF r
  <2>4. Knows(r)
    BY <2>2, <2>3 DEF Knows
  <2>5. QED
    BY <1>1, <2>1, <2>4
<1>9. ASSUME NEW s \in Subjects, NEW e \in Entities, DecideStamp(i, s, e)  PROVE HandledInv'
  <2> DEFINE yes == TRUE
             seen == entity[e].content
             r == [NoRequest EXCEPT !.phase = "decide", !.subject = s, !.found = {e},
                      !.clean = yes, !.stamp = clock, !.seen = seen]
  <2>1. req' = [req EXCEPT ![i] = r] /\ UNCHANGED <<tables, cache, clock, history>> /\ alert[s][e].open > 0
    BY <1>9 DEF DecideStamp
  <2>2. Listed(e) /\ clock \in 1..clock
    BY <1>0, <2>1 DEF HandledInv, AlertKnown, TypeInv, LocalOK
  <2> HIDE DEF yes
  <2>3. r.phase = "decide" /\ r.found = {e} /\ r.stamp = clock /\ r.seen = seen
    BY DEF NoRequest
  <2> HIDE DEF r
  <2>4. Knows(r)
    BY <2>2, <2>3 DEF Knows
  <2>5. QED
    BY <1>1, <2>1, <2>4
<1>10. QED
  BY <1>2, <1>3, <1>4, <1>5, <1>6, <1>7, <1>8, <1>9, Zenon

\* The cache is cleared, or holds what the database holds.
LEMMA CacheKeepsHandled ==
    ASSUME OneRequest, ScreenInv, HandledInv, NEW i \in Slots, Invalidate(i) \/ Fill(i)
    PROVE  HandledInv'
<1> DEFINE q == req[i]
<1>0. q \in Request /\ Informed(q) /\ Knows(q) /\ TypeInv
  BY DEF ScreenInv, TypeInv, RequestsOK, HandledInv
<1>1. UNCHANGED <<entity, alert, subject, clock, screened>>
  BY DEF Invalidate, Fill, tables, history
<1>2. PICK r : Knows(r) /\ req' = [req EXCEPT ![i] = r]
  <2>1. CASE Invalidate(i)
    <3>1. req' = [req EXCEPT ![i] = [q EXCEPT !.phase = "list", !.stamp = 0]]
      BY <1>0, <2>1 DEF Invalidate, TypeInv, RequestsOK
    <3>2. Knows([q EXCEPT !.phase = "list", !.stamp = 0])
      BY <1>0 DEF Knows, Request
    <3>3. QED
      BY <3>1, <3>2
  <2>2. CASE Fill(i)
    <3>1. req' = [req EXCEPT ![i] = [q EXCEPT !.phase = "score"]]
      BY <1>0, <2>2 DEF Fill, TypeInv, RequestsOK
    <3>2. Knows([q EXCEPT !.phase = "score"])
      BY <1>0, <2>2 DEF Knows, Request, Fill
    <3>3. QED
      BY <3>1, <3>2
  <2>3. QED
    BY <2>1, <2>2
<1>3. \A j \in Slots : req'[j] = r
  BY <1>2 DEF OneRequest, ScreenInv, TypeInv, RequestsOK
<1>4. \A j \in Slots : Knows(req[j])'
  BY <1>1, <1>2, <1>3 DEF Knows, Tokens, IsHit, Listed
<1>5. (\A s \in Subjects, e \in Entities : AlertKnown(s, e))'
  BY <1>1 DEF HandledInv, AlertKnown, Listed
<1>6. ScreenedIsHandled'
  BY <1>1 DEF HandledInv, ScreenedIsHandled, IsHit, Listed, Handled, SameSecond
<1>7. \A s \in Subjects : Tokens(s)' = Tokens(s)
  BY <1>1 DEF Tokens, IsHit, Listed
<1>8. CacheKnown'
  <2>1. CASE Invalidate(i)
    BY <2>1 DEF Invalidate, invalidate, CacheKnown
  <2>2. CASE Fill(i)
    <3>1. cache' = [cache EXCEPT ![q.subject] = q.found] /\ dirty' = dirty /\ Tokens(q.subject) \subseteq q.found
      BY <1>0, <2>2 DEF Fill, Knows, history
    <3>2. QED
      BY <1>0, <1>7, <3>1 DEF CacheKnown, HandledInv, TypeInv, LocalOK
  <2>3. QED
    BY <2>1, <2>2
<1>9. QED
  BY <1>4, <1>5, <1>6, <1>8 DEF HandledInv

\* The alerts of a subject after its screening: a hit is open, or covered by a decision that
\* no change came after.
LEMMA PersistKeepsHandled ==
    ASSUME OneRequest, ScreenInv, HandledInv, NEW i \in Slots, Persist(i)
    PROVE  HandledInv'
<1> DEFINE q == req[i]
           s == q.subject
<1>0. q \in Request /\ s \in Subjects /\ Knows(q) /\ TypeInv /\ q.phase = "persist"
  BY DEF ScreenInv, TypeInv, RequestsOK, HandledInv, Informed, Persist
<1>1. UNCHANGED <<entity, subject, cache, clock, dirty>>
  BY DEF Persist
<1>2. \A j \in Slots : req'[j].phase \in {"idle", "next"}
  <2>1. ASSUME q.gone  PROVE req'[i].phase = "idle"
    BY <1>0, <2>1 DEF Persist, Finish, NoRequest, TypeInv, RequestsOK
  <2>2. ASSUME ~q.gone  PROVE req'[i].phase \in {"idle", "next"}
    BY <2>2, OnwardKnows DEF Persist
  <2>3. QED
    BY <2>1, <2>2 DEF OneRequest
<1>3. \/ UNCHANGED <<alert, screened>>
      \/ /\ alert' = Raise(s, q.found)
         /\ screened' = IF q.clean THEN screened \cup {s} ELSE screened
  BY DEF Persist
<1>4. ASSUME NEW t \in Subjects, NEW e \in Entities
      PROVE  /\ alert[t][e] \in AlertRows /\ alert'[t][e] \in AlertRows
             /\ alert'[t][e].at = alert[t][e].at /\ alert'[t][e].seen = alert[t][e].seen
             /\ alert'[t][e].hash = alert[t][e].hash
             /\ alert'[t][e].open >= alert[t][e].open
             /\ alert'[t][e] # alert[t][e] => Listed(e)
  <2>1. alert[t][e] \in AlertRows
    BY <1>0 DEF TypeInv, TablesOK
  <2>2. CASE alert'[t][e] = alert[t][e]
    BY <2>1, <2>2 DEF AlertRows
  <2>3. CASE alert'[t][e] # alert[t][e]
    <3>1. alert' = Raise(s, q.found)
      BY <1>3, <2>3
    <3>2. /\ alert'[t][e] = Opened(alert[t][e])
          /\ ~Covered(t, e)
      BY <1>0, <2>3, <3>1, RaiseOK
    <3>3. e \in q.found
      BY <1>0, <2>3, <3>1 DEF Raise, Uncovered, TypeInv, TablesOK
    <3>4. alert[t][e].open = 0
      BY <2>1, <3>2 DEF Covered, AlertRows
    <3>5. QED
      BY <1>0, <2>1, <3>2, <3>3, <3>4 DEF Opened, AlertRows, Knows
  <2>4. QED
    BY <2>2, <2>3
<1>5. ASSUME NEW t \in Subjects, t = s, NEW e \in q.found, alert' = Raise(s, q.found), IsHit(t, e)
      PROVE  Handled(t, e)' \/ SameSecond(t, e)'
  <2>1. e \in Entities
    BY <1>0, <1>5 DEF Request
  <2>2. alert[t][e] \in AlertRows /\ AlertKnown(t, e) /\ entity[e] \in EntityRow
    BY <1>0, <2>1 DEF TypeInv, TablesOK, HandledInv
  <2>3. CASE Covered(t, e)
    <3>1. alert'[t][e] = alert[t][e]
      BY <1>0, <1>5, <2>1, <2>3 DEF Raise, Uncovered, TypeInv, TablesOK
    <3>2. Handled(t, e) \/ SameSecond(t, e)
      BY <2>2, <2>3 DEF Covered, Handled, SameSecond, AlertKnown, AlertRows, EntityRow
    <3>3. QED
      BY <1>1, <3>1, <3>2 DEF Handled, SameSecond
  <2>4. CASE ~Covered(t, e)
    <3>1. alert'[t][e] = OneMore(alert[t][e])
      BY <1>0, <1>5, <2>1, <2>4 DEF Raise, Uncovered, TypeInv, TablesOK
    <3>2. alert'[t][e].open > 0
      BY <2>2, <3>1 DEF OneMore, AlertRows
    <3>3. QED
      BY <3>2 DEF Handled
  <2>5. QED
    BY <2>3, <2>4
<1>6. (\A t \in Subjects, e \in Entities : AlertKnown(t, e))'
  <2>1. ASSUME NEW t \in Subjects, NEW e \in Entities  PROVE AlertKnown(t, e)'
    <3>1. AlertKnown(t, e)
      BY DEF HandledInv
    <3>2. ~Listed(e) => alert'[t][e] = alert[t][e]
      BY <1>4
    <3>3. QED
      BY <1>1, <1>4, <3>1, <3>2 DEF AlertKnown, Listed
  <2>2. QED
    BY <2>1
<1>7. CacheKnown'
  BY <1>1 DEF HandledInv, CacheKnown, Tokens, IsHit, Listed
<1>8. \A j \in Slots : Knows(req[j])'
  BY <1>2 DEF Knows
<1>9. ScreenedIsHandled'
  <2>1. ASSUME NEW t \in screened', NEW e \in Entities, IsHit(t, e)  PROVE Handled(t, e)' \/ SameSecond(t, e)'
    <3>0. screened \subseteq Subjects
      BY <1>0 DEF TypeInv, LocalOK
    <3>1. CASE t \in screened
      <4>1. (Handled(t, e) \/ SameSecond(t, e)) /\ t \in Subjects
        BY <2>1, <3>0, <3>1 DEF HandledInv, ScreenedIsHandled
      <4>2. QED
        BY <1>1, <1>4, <4>1 DEF Handled, SameSecond, AlertRows
    <3>2. CASE t \notin screened
      <4>1. t = s /\ q.clean /\ alert' = Raise(s, q.found)
        BY <1>3, <2>1, <3>2
      <4>2. e \in q.found
        BY <1>0, <2>1, <4>1 DEF Knows, Tokens
      <4>3. QED
        BY <1>0, <1>5, <2>1, <4>1, <4>2
    <3>3. QED
      BY <3>1, <3>2
  <2>2. QED
    BY <1>1, <2>1 DEF ScreenedIsHandled, IsHit, Listed
<1>10. QED
  BY <1>6, <1>7, <1>8, <1>9 DEF HandledInv

\* A decision is on what the entry says, for no list was loaded since its stamp.
LEMMA DecideKeepsHandled ==
    ASSUME OneRequest, ScreenInv, HandledInv, NEW i \in Slots, DecideCommit(i)
    PROVE  HandledInv'
<1> DEFINE q == req[i]
           s == q.subject
           Row(e) == Decided(alert[s][e], q)
<1>0. q \in Request /\ s \in Subjects /\ Knows(q) /\ TypeInv /\ q.phase = "decide"
  BY DEF ScreenInv, TypeInv, RequestsOK, HandledInv, Informed, DecideCommit
<1>1. UNCHANGED <<entity, subject, cache, clock, dirty, screened>>
  BY DEF DecideCommit
<1>2. \A j \in Slots : req'[j] = NoRequest
  BY <1>0 DEF DecideCommit, Finish, OneRequest, TypeInv, RequestsOK
<1>3. ASSUME NEW t \in Subjects, NEW e \in Entities
      PROVE  alert'[t][e] = IF t = s /\ e \in q.found THEN Row(e) ELSE alert[t][e]
  BY <1>0 DEF DecideCommit, TypeInv, TablesOK
<1>4. ASSUME NEW e \in q.found
      PROVE  /\ Row(e).at = q.stamp /\ q.stamp \in 1..clock
             /\ Row(e).seen = entity[e].content /\ Row(e).hash = subject[s].version
             /\ Listed(e)
  BY <1>0 DEF Decided, Knows
<1> HIDE DEF Row
<1>5. (\A t \in Subjects, e \in Entities : AlertKnown(t, e))'
  <2>1. ASSUME NEW t \in Subjects, NEW e \in Entities  PROVE AlertKnown(t, e)'
    <3>1. AlertKnown(t, e) /\ clock \in Nat
      BY <1>0 DEF HandledInv, TypeInv, LocalOK
    <3>2. QED
      BY <1>1, <1>3, <1>4, <3>1 DEF AlertKnown, Listed
  <2>2. QED
    BY <2>1
<1>6. CacheKnown'
  BY <1>1 DEF HandledInv, CacheKnown, Tokens, IsHit, Listed
<1>7. \A j \in Slots : Knows(req[j])'
  BY <1>2 DEF Knows, NoRequest
<1>8. ScreenedIsHandled'
  <2>1. ASSUME NEW t \in screened, NEW e \in Entities, IsHit(t, e)  PROVE Handled(t, e)' \/ SameSecond(t, e)'
    <3>1. t \in Subjects /\ (Handled(t, e) \/ SameSecond(t, e))
      BY <1>0, <2>1 DEF TypeInv, LocalOK, HandledInv, ScreenedIsHandled
    <3>2. CASE t = s /\ e \in q.found
      <4>1. q.stamp > 0
        BY <1>0, <1>4, <3>2 DEF TypeInv, LocalOK
      <4>2. QED
        BY <1>1, <1>3, <1>4, <3>1, <3>2, <4>1 DEF Handled
    <3>3. CASE ~(t = s /\ e \in q.found)
      BY <1>1, <1>3, <3>1, <3>3 DEF Handled, SameSecond
    <3>4. QED
      BY <3>2, <3>3
  <2>2. QED
    BY <1>1, <2>1 DEF ScreenedIsHandled, IsHit, Listed
<1>9. QED
  BY <1>5, <1>6, <1>7, <1>8 DEF HandledInv

\* A list that says something new ends what was known of it: the cache is dirty, nobody
\* counts as screened, and the new row is dated no earlier than any decision.
LEMMA LoadKeepsHandled ==
    ASSUME OneRequest, ScreenInv, HandledInv, NEW i \in Slots, NEW d \in Datasets, Load(i, d)
    PROVE  HandledInv'
<1>0. req[i] \in Request /\ TypeInv
  BY DEF ScreenInv, TypeInv, RequestsOK
<1>p. PICK source \in [On(d) -> Contents \cup {None}], now \in req[i].stamp..clock :
         LoadFrom(i, d, source, now)
  BY DEF Load
<1>1. LET differ  == {e \in On(d) : source[e] # entity[e].content}
             deleted == {e \in differ : source[e] = None}
         IN  /\ req[i].phase = "load"
             /\ entity' = [e \in Entities |->
                   IF e \in On(d) THEN LoadedRow(e, source[e], now) ELSE entity[e]]
             /\ alert' = [s \in Subjects |-> [e \in Entities |->
                   IF e \in deleted THEN NoAlert ELSE alert[s][e]]]
             /\ cache' = [s \in Subjects |-> IF cache[s] = None THEN None ELSE cache[s] \ deleted]
             /\ req' = [j \in Slots |->
                   IF j = i THEN [req[i] EXCEPT !.lists = @ \ {d}, !.stamp = clock]
                   ELSE [req[j] EXCEPT
                       !.gone = @ \/ (req[j].phase = "persist" /\ req[j].found \cap deleted # {}),
                       !.found = @ \ deleted,
                       !.clean = @ /\ Untouched(req[j], differ)]]
             /\ dirty' = (dirty \/ differ # {})
             /\ screened' = IF differ = {} THEN screened ELSE {}
             /\ UNCHANGED <<subject, clock>>
  BY <1>p DEF LoadFrom
<1> DEFINE differ  == {e \in On(d) : source[e] # entity[e].content}
           deleted == {e \in differ : source[e] = None}
<1>2. \A j \in Slots : req'[j].phase = "load" /\ req'[j].stamp = clock
  <2>1. req'[i].phase = "load" /\ req'[i].stamp = clock
    BY <1>0, <1>1 DEF Request
  <2>2. QED
    BY <2>1 DEF OneRequest
<1>n. /\ clock \in Nat /\ now \in Nat /\ now <= clock
      /\ \A s \in Subjects, e \in Entities : alert[s][e].at \in Nat /\ alert[s][e].at <= now
  <2>1. clock \in Nat /\ req[i].stamp \in Nat
    BY <1>0 DEF TypeInv, LocalOK, Request
  <2>4. \A s \in Subjects, e \in Entities : alert[s][e].at <= req[i].stamp
    <3>1. Knows(req[i]) /\ req[i].phase = "load"
      BY <1>1 DEF HandledInv
    <3>2. QED
      BY <3>1 DEF Knows
  <2>2. \A s \in Subjects, e \in Entities : alert[s][e].at \in Nat
    BY <1>0 DEF TypeInv, TablesOK, AlertRows
  <2>3. QED
    BY <2>1, <2>2, <2>4
<1>3. ASSUME NEW s \in Subjects, NEW e \in Entities
      PROVE  alert'[s][e] = IF e \in deleted THEN NoAlert ELSE alert[s][e]
  BY <1>1
<1>4. On(d) \subseteq Entities /\ deleted \subseteq differ
  BY DEF On
<1>5. ASSUME NEW e \in Entities
      PROVE  /\ e \in deleted => ~Listed(e)'
             /\ e \notin deleted /\ Listed(e) => Listed(e)'
             /\ e \notin differ => entity'[e].content = entity[e].content
             /\ e \notin differ /\ Listed(e) => entity'[e].changed = entity[e].changed
             /\ e \in differ /\ Listed(e) /\ Listed(e)' => entity'[e].changed = now
             /\ ~Listed(e)' => e \in deleted \/ ~Listed(e)
  <2>1. CASE e \notin On(d)
    <3>1. entity'[e] = entity[e] /\ e \notin differ
      BY <1>1, <2>1
    <3>2. QED
      BY <3>1, <1>4 DEF Listed
  <2>2. CASE e \in On(d)
    <3>1. entity'[e] = LoadedRow(e, source[e], now)
      BY <1>1, <2>2
    <3>2. entity'[e].content = source[e]
          /\ entity'[e].changed = IF source[e] = None \/ ~Listed(e) THEN 0
                 ELSE IF source[e] # entity[e].content THEN now ELSE entity[e].changed
      BY <3>1 DEF LoadedRow
    <3>3. (e \in differ <=> source[e] # entity[e].content) /\ (e \in deleted <=> e \in differ /\ source[e] = None)
      BY <2>2
    <3> HIDE DEF differ, deleted
    <3>4. QED
      BY <3>2, <3>3 DEF Listed
  <2>3. QED
    BY <2>1, <2>2
<1>6. /\ dirty' = (dirty \/ differ # {}) /\ screened' = IF differ = {} THEN screened ELSE {}
      /\ cache' = [s \in Subjects |-> IF cache[s] = None THEN None ELSE cache[s] \ deleted]
      /\ UNCHANGED <<subject, clock>>
  BY <1>1
<1> HIDE DEF differ, deleted
<1>7. (\A s \in Subjects, e \in Entities : AlertKnown(s, e))'
  <2>1. ASSUME NEW s \in Subjects, NEW e \in Entities  PROVE AlertKnown(s, e)'
    <3>1. AlertKnown(s, e) /\ alert[s][e] \in AlertRows /\ entity[e] \in EntityRow /\ clock \in Nat
      BY <1>0 DEF HandledInv, TypeInv, TablesOK, LocalOK
    <3>2. CASE e \in deleted
      <4>1. entity'[e].changed \in Nat
        <5>1. TypeInv'
          BY LoadStep DEF ScreenInv
        <5>2. QED
          BY <5>1 DEF TypeInv, TablesOK, EntityRow
      <4>2. QED
        BY <1>3, <1>6, <3>1, <3>2, <4>1 DEF AlertKnown, NoAlert
    <3>3. CASE e \notin deleted
      <4>1. alert'[s][e] = alert[s][e]
        BY <1>3, <3>3
      <4>2. CASE ~Listed(e)
        <5>1. alert'[s][e].at = 0 /\ alert'[s][e].open = 0
          BY <3>1, <4>1, <4>2 DEF AlertKnown
        <5>2. entity'[e].changed \in Nat
          <6>1. TypeInv'
            BY LoadStep DEF ScreenInv
          <6>2. QED
            BY <6>1 DEF TypeInv, TablesOK, EntityRow
        <5>3. QED
          BY <1>6, <3>1, <5>1, <5>2 DEF AlertKnown
      <4>3. CASE Listed(e)
        <5>1. Listed(e)' /\ entity'[e].changed = IF e \in differ THEN now ELSE entity[e].changed
          BY <1>5, <3>3, <4>3
        <5>2. alert[s][e].at \in Nat
          BY <3>1 DEF AlertRows
        <5>3. QED
          BY <1>n, <1>5, <1>6, <3>1, <4>1, <5>1, <5>2 DEF AlertKnown
      <4>4. QED
        BY <4>2, <4>3
    <3>4. QED
      BY <3>2, <3>3
  <2>2. QED
    BY <2>1
<1>8. ASSUME differ = {}, NEW e \in Entities
      PROVE  /\ entity'[e].content = entity[e].content
             /\ Listed(e) => entity'[e].changed = entity[e].changed
  BY <1>5, <1>8
<1>9. CacheKnown'
  <2> SUFFICES ASSUME ~dirty', NEW s \in Subjects, cache'[s] # None  PROVE (Tokens(s) \subseteq cache[s])'
    BY DEF CacheKnown
  <2>1. ~dirty /\ differ = {}
    BY <1>6
  <2>2. cache'[s] = cache[s] /\ cache[s] # None
    BY <1>4, <1>6, <2>1
  <2>3. Tokens(s)' = Tokens(s)
    BY <1>8, <2>1 DEF Tokens, IsHit, Listed
  <2>4. QED
    BY <2>1, <2>2, <2>3 DEF HandledInv, CacheKnown
<1>10. \A j \in Slots : Knows(req[j])'
  <2>1. \A s \in Subjects, e \in Entities : alert'[s][e].at <= clock
    BY <1>n, <1>3 DEF NoAlert
  <2>2. QED
    BY <1>n, <1>2, <1>6, <2>1 DEF Knows
<1>11. ScreenedIsHandled'
  <2> SUFFICES ASSUME NEW s \in screened', NEW e \in Entities, IsHit(s, e)'
               PROVE  Handled(s, e)' \/ SameSecond(s, e)'
    BY DEF ScreenedIsHandled
  <2>1. differ = {} /\ s \in screened
    BY <1>6
  <2>2. IsHit(s, e) /\ Listed(e)
    BY <1>8, <2>1 DEF IsHit, Listed
  <2>3. s \in Subjects /\ (Handled(s, e) \/ SameSecond(s, e))
    BY <1>0, <2>1, <2>2 DEF TypeInv, LocalOK, HandledInv, ScreenedIsHandled
  <2>4. alert'[s][e] = alert[s][e]
    BY <1>3, <1>4, <2>1, <2>3
  <2>5. QED
    BY <1>6, <1>8, <2>1, <2>2, <2>3, <2>4 DEF Handled, SameSecond
<1>12. QED
  BY <1>7, <1>9, <1>10, <1>11 DEF HandledInv

\* The clock, and what changes of the customers themselves.
LEMMA CustomersKeepHandled ==
    ASSUME OneRequest, ScreenInv, HandledInv, Sudden \/ \E i \in Slots, s \in Subjects : Onboard(i, s)
    PROVE  HandledInv'
<1>0. TypeInv /\ clock \in Nat
  BY DEF ScreenInv, TypeInv, LocalOK
<1>1. ASSUME Tick  PROVE HandledInv'
  <2>1. clock' = clock + 1 /\ UNCHANGED <<entity, subject, alert, cache, req, dirty, screened>>
    BY <1>1 DEF Tick, tables, history
  <2>2. (\A s \in Subjects, e \in Entities : AlertKnown(s, e))'
    <3>1. ASSUME NEW s \in Subjects, NEW e \in Entities  PROVE AlertKnown(s, e)'
      <4>1. AlertKnown(s, e) /\ alert[s][e].at \in Nat
        BY <1>0 DEF HandledInv, TypeInv, TablesOK, AlertRows
      <4>2. QED
        BY <1>0, <2>1, <4>1 DEF AlertKnown, Listed
    <3>2. QED
      BY <3>1
  <2>3. CacheKnown'
    BY <2>1 DEF HandledInv, CacheKnown, Tokens, IsHit, Listed
  <2>4. ASSUME NEW i \in Slots  PROVE Knows(req[i])'
    <3>1. Knows(req[i])
      BY DEF HandledInv
    <3>2. (\A stamp \in 1..clock : stamp \in 1..clock') /\ \A stamp \in 0..clock : stamp \in 0..clock'
      BY <1>0, <2>1
    <3>3. QED
      BY <2>1, <3>1, <3>2 DEF Knows, Tokens, IsHit, Listed
  <2>5. ScreenedIsHandled'
    BY <2>1 DEF HandledInv, ScreenedIsHandled, IsHit, Listed, Handled, SameSecond
  <2>6. QED
    BY <2>2, <2>3, <2>4, <2>5 DEF HandledInv
<1> DEFINE Quiet(r, q) == /\ q.phase = r.phase /\ q.subject = r.subject /\ q.found = r.found
                          /\ q.stamp = r.stamp /\ q.seen = r.seen /\ (q.clean => r.clean)
<1>2. ASSUME UNCHANGED <<entity, alert, clock, cache, dirty>>, screened' \subseteq screened,
             \A s \in screened' : subject'[s].version = subject[s].version,
             \A i \in Slots : req'[i].phase = "next" \/ Quiet(req[i], req'[i])
      PROVE  HandledInv'
  <2>1. (\A s \in Subjects, e \in Entities : AlertKnown(s, e))'
    BY <1>2 DEF HandledInv, AlertKnown, Listed
  <2>2. CacheKnown'
    BY <1>2 DEF HandledInv, CacheKnown, Tokens, IsHit, Listed
  <2>3. ASSUME NEW i \in Slots  PROVE Knows(req[i])'
    <3>1. CASE req'[i].phase = "next"
      BY <3>1 DEF Knows
    <3>2. CASE Quiet(req[i], req'[i])
      <4>1. Knows(req[i])
        BY DEF HandledInv
      <4>2. QED
        BY <1>2, <3>2, <4>1 DEF Knows, Tokens, IsHit, Listed
    <3>3. QED
      BY <1>2, <3>1, <3>2
  <2>4. ScreenedIsHandled'
    BY <1>2 DEF HandledInv, ScreenedIsHandled, IsHit, Listed, Handled, SameSecond
  <2>5. QED
    BY <2>1, <2>2, <2>3, <2>4 DEF HandledInv
<1>3. ASSUME NEW s \in Subjects, close_relationship(s) \/ reactivate_customer(s)  PROVE HandledInv'
  <2>1. UNCHANGED <<entity, alert, clock, cache, dirty, screened, req>>
    BY <1>3 DEF close_relationship, reactivate_customer, history
  <2>2. \A t \in Subjects : subject'[t].version = subject[t].version
    <3>1. \E status : subject' = [subject EXCEPT ![s] = [@ EXCEPT !.status = status]]
      BY <1>3 DEF close_relationship, reactivate_customer
    <3>2. QED
      BY <1>0, <3>1 DEF TypeInv, TablesOK, SubjectRow
  <2>3. QED
    BY <1>0, <1>2, <2>1, <2>2 DEF TypeInv, LocalOK
<1>4. ASSUME NEW i \in Slots, NEW s \in Subjects, Onboard(i, s)  PROVE HandledInv'
  <2>1. UNCHANGED <<entity, alert, clock, cache, dirty, screened>>
    BY <1>4 DEF Onboard, history
  <2>2. \A t \in Subjects : subject'[t].version = subject[t].version
    BY <1>0, <1>4 DEF Onboard, TypeInv, TablesOK, SubjectRow
  <2>3. req'[i].phase = "next"
    BY <1>0, <1>4 DEF Onboard, NoRequest, TypeInv, RequestsOK
  <2>4. \A j \in Slots : req'[j].phase = "next"
    BY <2>3 DEF OneRequest
  <2>5. QED
    BY <1>0, <1>2, <2>1, <2>2, <2>4 DEF TypeInv, LocalOK
<1>5. ASSUME NEW s \in Subjects, ChangeSubject(s)  PROVE HandledInv'
  <2>1. UNCHANGED <<entity, alert, clock, cache, dirty>> /\ screened' = screened \ {s}
    BY <1>5 DEF ChangeSubject
  <2>2. \A t \in Subjects \ {s} : subject'[t].version = subject[t].version
    BY <1>0, <1>5 DEF ChangeSubject, TypeInv, TablesOK
  <2>3. ASSUME NEW j \in Slots  PROVE Quiet(req[j], req'[j])
    <3> DEFINE clean == req[j].clean /\ req[j].subject # s
               outdated == req[j].outdated \cup ({s} \cap req[j].todo)
    <3>1. req'[j] = [req[j] EXCEPT !.clean = clean, !.outdated = outdated] /\ req[j] \in Request
      BY <1>0, <1>5 DEF ChangeSubject, TypeInv, RequestsOK
    <3>2. clean \in BOOLEAN /\ (clean => req[j].clean)
      OBVIOUS
    <3> HIDE DEF clean, outdated
    <3>3. QED
      BY <3>1, <3>2 DEF Request
  <2>4. QED
    BY <1>0, <1>2, <2>1, <2>2, <2>3 DEF TypeInv, LocalOK
<1>6. QED
  BY <1>1, <1>3, <1>4, <1>5 DEF Sudden

\* While requests do not overlap, for any subjects, lists and matches: when a screening began
\* after the cache was cleared for the lists in force, and nothing changed since, every
\* match of its subject is open or was decided on what the entry says.
THEOREM ScreenedIsHandledCorrect ==
    ASSUME OneRequest
    PROVE  Spec => []ScreenedIsHandled
<1>1. Init => HandledInv
  <2> SUFFICES ASSUME Init  PROVE HandledInv
    OBVIOUS
  <2>1. (\A e \in Entities : ~Listed(e)) /\ clock = 1 /\ screened = {}
        /\ (\A s \in Subjects : cache[s] = None) /\ \A i \in Slots : req[i] = NoRequest
    BY DEF Init, Listed
  <2>2. \A s \in Subjects, e \in Entities :
            alert[s][e].at = 0 /\ alert[s][e].open = 0 /\ entity[e].changed = 0
    BY DEF Init, NoAlert
  <2>3. QED
    BY <2>1, <2>2, NoRequestKnows DEF HandledInv, AlertKnown, CacheKnown, ScreenedIsHandled
<1>2. ScreenInv /\ HandledInv /\ [Next]_vars => HandledInv'
  <2> SUFFICES ASSUME ScreenInv, HandledInv, [Next]_vars  PROVE HandledInv'
    OBVIOUS
  <2>1. CASE UNCHANGED vars
    <3>1. UNCHANGED <<entity, alert, subject, clock, cache, dirty, screened, req>>
      BY <2>1 DEF vars, tables, history
    <3>2. (\A s \in Subjects, e \in Entities : AlertKnown(s, e))' /\ (\A i \in Slots : Knows(req[i]))'
      BY <3>1 DEF HandledInv, AlertKnown, Listed, Knows, Tokens, IsHit
    <3>3. CacheKnown' /\ ScreenedIsHandled'
      BY <3>1 DEF HandledInv, CacheKnown, Tokens, ScreenedIsHandled, IsHit, Listed, Handled, SameSecond
    <3>4. QED
      BY <3>2, <3>3 DEF HandledInv
  <2>2. ASSUME NEW i \in Slots, Step(i)  PROVE HandledInv'
    BY <2>2, ReadersKeepHandled, CacheKeepsHandled, PersistKeepsHandled, DecideKeepsHandled,
       LoadKeepsHandled, CustomersKeepHandled, Zenon DEF Step
  <2>3. CASE Sudden
    BY <2>3, CustomersKeepHandled
  <2>4. QED
    BY <2>1, <2>2, <2>3, NextSteps
<1>3. HandledInv => ScreenedIsHandled
  BY DEF HandledInv
<1>4. QED
  BY <1>1, <1>2, <1>3, ScreenInvariant, PTL DEF Spec
===============================================================================
