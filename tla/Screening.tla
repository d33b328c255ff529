------------------------------- MODULE Screening -------------------------------
(***************************************************************************)
(* List refresh, token cache and screening: ingest/loader.py,              *)
(* match/cache.py, match/engine.py and cases/scheduler.py.                 *)
(*                                                                         *)
(* A refresh replaces the lists one dataset at a time, clears the token    *)
(* cache of its process and screens every customer and beneficial owner.   *)
(* Onboarding and the MLRO's re-screening run the same screening meanwhile.*)
(* A screening reads the cache, fills it on a miss, reads the candidates   *)
(* and only then writes its record and alerts in one transaction.          *)
(***************************************************************************)
EXTENDS Integers, FiniteSets

CONSTANTS
    Subjects,    \* customers and beneficial owners
    Owners,      \* those of them that are beneficial owners
    Datasets,    \* sanctions lists
    Entities,    \* list entries, by the identity their source gives them
    DatasetOf,   \* the list each entry is on
    Contents,    \* what a list entry can say
    Matches,     \* the subjects an entry with that content matches
    Slots,       \* requests and jobs in flight, in one process
    MaxTime,     \* the clock, in seconds, stops at this bound
    None         \* SQL NULL, an unlisted entry, an empty cache slot

ASSUME ListAssumption ==
    /\ Owners \subseteq Subjects
    /\ DatasetOf \in [Entities -> Datasets]
    /\ Matches \in [Contents -> SUBSET Subjects]
ASSUME ScreeningBounds == MaxTime \in Nat \ {0} /\ None \notin Contents

VARIABLES
    entity,      \* entity[e]: the row of entities with its names and tokens
    cache,       \* cache[s]: the entity ids cached for the tokens of s's name
    subject,     \* subject[s]: the row of customers or ubo_links
    alert,       \* alert[s][e]: the alerts of s against e
    clock,       \* utcnow, in seconds
    req,         \* req[i]: the request or job in slot i
    dirty,       \* history: lists changed and no cache was cleared since
    screened,    \* history: subjects screened since the lists or they changed
    moved        \* history: pairs whose entry or subject changed since the decision

tables  == <<entity, subject, alert>>
history == <<dirty, screened, moved>>
vars    == <<tables, cache, clock, req, history>>

-------------------------------------------------------------------------------
EntityRow  == [content : Contents \cup {None}, changed : 0..MaxTime]   \* 0: never
SubjectRow == [status : {"none", "active", "closed"}, version : 0..1]

\* open counts the undecided alerts; at, seen and hash are of the latest decision.
AlertRows == [open : 0..2, at : 0..MaxTime, seen : Contents \cup {None}, hash : 0..1]
NoAlert   == [open |-> 0, at |-> 0, seen |-> None, hash |-> 0]

Request == [phase : {"idle", "load", "list", "next", "fill", "score", "persist", "decide"},
            lists : SUBSET Datasets,         \* datasets still to load
            todo : SUBSET Subjects,          \* subjects still to screen
            owners : BOOLEAN,                \* ubo_links are still to be listed
            subject : Subjects \cup {None},  \* the one being screened or decided about
            found : SUBSET Entities,         \* candidates, then hits
            gone : BOOLEAN,                  \* a hit's entity row has been deleted
            clean : BOOLEAN,                 \* history: nothing changed since it began
            outdated : SUBSET Subjects,      \* history: listed, and changed since
            stamp : 0..MaxTime,              \* utcnow of a decision; when a load may have begun
            seen : Contents \cup {None}]
NoRequest == [phase |-> "idle", lists |-> {}, todo |-> {}, owners |-> FALSE, subject |-> None,
              found |-> {}, gone |-> FALSE, clean |-> FALSE, outdated |-> {}, stamp |-> 0,
              seen |-> None]

Listed(e)    == entity[e].content # None
IsHit(s, e)  == Listed(e) /\ s \in Matches[entity[e].content]
Tokens(s)    == {e \in Entities : IsHit(s, e)}
Finish(i)    == req' = [req EXCEPT ![i] = NoRequest]

-------------------------------------------------------------------------------
\* _coverage: does an earlier alert make a new one unnecessary?

\* Mutation: earlier alerts are not looked at.
CoveredNever(s, e) == FALSE
\* Mutation: an entry that has ever changed is always raised again.
CoveredUntilChange(s, e) ==
    \/ alert[s][e].open > 0
    \/ alert[s][e].at > 0 /\ entity[e].changed = 0
\* Mutation: a decided match is never looked at again.
CoveredForGood(s, e) == alert[s][e].open > 0 \/ alert[s][e].at > 0
Covered(s, e) ==
    \/ alert[s][e].open > 0
    \/ /\ alert[s][e].at > 0
       /\ entity[e].changed <= alert[s][e].at
       /\ s \in Owners \/ alert[s][e].hash = subject[s].version

\* The alerts after a screening of s with these hits; two open ones stand for many.
OneMore(row) == [row EXCEPT !.open = IF @ < 2 THEN @ + 1 ELSE 2]
Uncovered(s, hits) == {e \in hits : ~Covered(s, e)}
Raise(s, hits) ==
    [alert EXCEPT ![s] = [e \in Entities |->
        IF e \in Uncovered(s, hits) THEN OneMore(alert[s][e]) ELSE alert[s][e]]]

-------------------------------------------------------------------------------
Init ==
    /\ entity = [e \in Entities |-> [content |-> None, changed |-> 0]]
    /\ cache = [s \in Subjects |-> None]
    /\ subject = [s \in Subjects |-> [status |-> "none", version |-> 0]]
    /\ alert = [s \in Subjects |-> [e \in Entities |-> NoAlert]]
    /\ clock = 1
    /\ req = [i \in Slots |-> NoRequest]
    /\ dirty = FALSE /\ screened = {} /\ moved = {}

Tick ==
    /\ clock < MaxTime /\ clock' = clock + 1
    /\ UNCHANGED <<tables, cache, req, history>>

-------------------------------------------------------------------------------
\* run_sanctions_refresh and refresh_with_progress

StartRefresh(i) ==
    /\ req[i].phase = "idle"
    /\ req' = [req EXCEPT ![i] = [NoRequest EXCEPT !.phase = "load", !.lists = Datasets,
                                                  !.stamp = clock]]
    /\ UNCHANGED <<tables, cache, clock, history>>

\* load: the transaction that makes the entries of one list what its source
\* says.  Entries still listed keep their row, content_changed_at moves only
\* when the content hash differs, delisted entries go with their alerts.
LoadedRow(e, content, now) ==
    [content |-> content,
     changed |-> IF content = None \/ ~Listed(e) THEN 0
                 ELSE IF content # entity[e].content THEN now ELSE entity[e].changed]

On(d) == {e \in Entities : DatasetOf[e] = d}

\* A decision is about one entry, a screening may need any.
Untouched(r, differ) == differ = {} \/ (r.phase = "decide" /\ r.found \cap differ = {})

LoadFrom(i, d, source, now) ==
    LET differ  == {e \in On(d) : source[e] # entity[e].content}
        deleted == {e \in differ : source[e] = None}
    IN  /\ req[i].phase = "load" /\ d \in req[i].lists
        /\ \E e \in On(d) : source[e] # None            \* refuses an empty list
        /\ entity' = [e \in Entities |->
                        IF e \in On(d) THEN LoadedRow(e, source[e], now) ELSE entity[e]]
        /\ alert' = [s \in Subjects |-> [e \in Entities |->
                        IF e \in deleted THEN NoAlert ELSE alert[s][e]]]
        \* Ids of deleted rows that a cache or a screening holds lead nowhere.
        /\ cache' = [s \in Subjects |->
                        IF cache[s] = None THEN None ELSE cache[s] \ deleted]
        /\ req' = [j \in Slots |->
               IF j = i THEN [req[i] EXCEPT !.lists = @ \ {d}, !.stamp = clock]
               ELSE [req[j] EXCEPT
                       !.gone = @ \/ (req[j].phase = "persist" /\ req[j].found \cap deleted # {}),
                       !.found = @ \ deleted,
                       !.clean = @ /\ Untouched(req[j], differ)]]
        /\ dirty' = (dirty \/ differ # {})
        /\ screened' = IF differ = {} THEN screened ELSE {}
        /\ moved' = {p \in Subjects \X Entities :
                        p[2] \notin deleted /\ (p \in moved \/ p[2] \in differ)}
        /\ UNCHANGED <<subject, clock>>

\* The time is taken before the transaction, after the load of the list before.
Load(i, d) ==
    \E source \in [On(d) -> Contents \cup {None}], now \in req[i].stamp..clock :
        LoadFrom(i, d, source, now)

\* AdapterError: recorded on the dataset, and the next list is loaded.
LoadFailed(i, d) ==
    /\ req[i].phase = "load" /\ d \in req[i].lists
    /\ req' = [req EXCEPT ![i].lists = @ \ {d}, ![i].stamp = clock]
    /\ UNCHANGED <<tables, cache, clock, history>>

\* Mutation: the refresh leaves the cache alone.
KeepCache == UNCHANGED cache
invalidate == cache' = [s \in Subjects |-> None]

Invalidate(i) ==
    /\ req[i].phase = "load" /\ req[i].lists = {}
    /\ invalidate
    /\ req' = [req EXCEPT ![i].phase = "list", ![i].stamp = 0]
    /\ dirty' = FALSE
    /\ UNCHANGED <<tables, clock, screened, moved>>

-------------------------------------------------------------------------------
\* rescreen_all: the customers that are active now, then every owner

StartRescreen(i) ==
    /\ req[i].phase = "idle"
    /\ req' = [req EXCEPT ![i] = [NoRequest EXCEPT !.phase = "list"]]
    /\ UNCHANGED <<tables, cache, clock, history>>

\* On with the next subject, or the end of the request.
Onward(todo, owners, outdated) ==
    IF todo = {} /\ ~owners THEN NoRequest
    ELSE [NoRequest EXCEPT !.phase = "next", !.todo = todo, !.owners = owners,
                           !.outdated = outdated \cap todo]
Continue(i, todo, owners) == req' = [req EXCEPT ![i] = Onward(todo, owners, {})]

RelatedParties == {s \in Owners : subject[s].status # "none"}

\* The names to screen are read with the list.
ListCustomers(i) ==
    /\ req[i].phase = "list"
    /\ Continue(i, {s \in Subjects \ Owners : subject[s].status = "active"}, TRUE)
    /\ UNCHANGED <<tables, cache, clock, history>>

ListOwners(i) ==
    /\ req[i].phase = "next" /\ req[i].todo = {} /\ req[i].owners
    /\ Continue(i, RelatedParties, FALSE)
    /\ UNCHANGED <<tables, cache, clock, history>>

-------------------------------------------------------------------------------
\* screen

\* get_entities_for_tokens: the cache, or on a miss the database.
Lookup(i, s) ==
    LET cached == cache[s]
    IN  /\ req[i].phase = "next" /\ s \in req[i].todo
        /\ req' = [req EXCEPT ![i].todo = @ \ {s}, ![i].subject = s,
               ![i].clean = ~dirty /\ s \notin req[i].outdated,
               ![i].phase = IF cached = None THEN "fill" ELSE "score",
               ![i].found = IF cached = None THEN Tokens(s) ELSE cached]
        /\ UNCHANGED <<tables, cache, clock, history>>

Fill(i) ==
    /\ req[i].phase = "fill"
    /\ cache' = [cache EXCEPT ![req[i].subject] = req[i].found]
    /\ req' = [req EXCEPT ![i].phase = "score"]
    /\ UNCHANGED <<tables, clock, history>>

\* The candidates' rows and names are read and scored.
Score(i) ==
    /\ req[i].phase = "score"
    /\ req' = [req EXCEPT ![i].phase = "persist",
                          ![i].found = {e \in @ : IsHit(req[i].subject, e)}]
    /\ UNCHANGED <<tables, cache, clock, history>>

\* _persist.  A hit whose entity is gone violates the foreign key: the
\* transaction rolls back and the rest of the request is given up.  A decision in
\* flight then writes to an alert that is no longer the latest: _coverage takes the
\* latest decision, and this one was stamped before the new alert was raised.
Persist(i) ==
    LET r == req[i]
        raised == Uncovered(r.subject, r.found)
        late(q) == q.phase = "decide" /\ q.subject = r.subject
    IN  /\ r.phase = "persist"
        /\ IF r.gone
           THEN Finish(i) /\ UNCHANGED <<alert, screened>>
           ELSE /\ alert' = Raise(r.subject, r.found)
                /\ screened' = IF r.clean THEN screened \cup {r.subject} ELSE screened
                /\ req' = [j \in Slots |->
                       IF j = i THEN Onward(r.todo, r.owners, r.outdated)
                       ELSE [req[j] EXCEPT !.found = IF late(req[j]) THEN @ \ raised ELSE @]]
        /\ UNCHANGED <<entity, subject, cache, clock, dirty, moved>>

\* The worker dies, a statement fails, or the refresh meets an error that is
\* not an AdapterError: what was loaded stays and the cache is not cleared.
Abort(i) ==
    /\ req[i].phase # "idle"
    /\ Finish(i)
    /\ UNCHANGED <<tables, cache, clock, history>>

-------------------------------------------------------------------------------
\* Customers

\* onboard and add_ubo commit the row first and screen it afterwards.
Onboard(i, s) ==
    /\ req[i].phase = "idle" /\ subject[s].status = "none"
    /\ subject' = [subject EXCEPT ![s].status = "active"]
    /\ req' = [req EXCEPT ![i] = [NoRequest EXCEPT !.phase = "next", !.todo = {s}]]
    /\ UNCHANGED <<entity, alert, cache, clock, history>>

\* Mutation: the status of a deactivated operator, which no customer has.
CloseAsInactive(s) ==
    /\ s \notin Owners /\ subject[s].status = "active"
    /\ subject' = [subject EXCEPT ![s].status = "inactive"]
    /\ UNCHANGED <<entity, alert, cache, clock, req, history>>
close_relationship(s) ==
    /\ s \notin Owners /\ subject[s].status = "active"
    /\ subject' = [subject EXCEPT ![s].status = "closed"]
    /\ UNCHANGED <<entity, alert, cache, clock, req, history>>

reactivate_customer(s) ==
    /\ subject[s].status = "closed"
    /\ subject' = [subject EXCEPT ![s].status = "active"]
    /\ UNCHANGED <<entity, alert, cache, clock, req, history>>

\* A UAE PASS verification fills in the customer's identity; nothing is screened.
ChangeSubject(s) ==
    /\ s \notin Owners /\ subject[s].status # "none" /\ subject[s].version = 0
    /\ subject' = [subject EXCEPT ![s].version = 1]
    /\ screened' = screened \ {s}
    /\ moved' = moved \cup {p \in Subjects \X Entities : p[1] = s}
    /\ req' = [j \in Slots |-> [req[j] EXCEPT !.clean = @ /\ req[j].subject # s,
                                              !.outdated = @ \cup ({s} \cap req[j].todo)]]
    /\ UNCHANGED <<entity, alert, cache, clock, dirty>>

\* A disposition takes its time stamp, then commits, waiting for the write lock
\* in between, and stamps the hash of the customer as of the commit.  Of two that
\* overlap the later commit overwrites the earlier.  Staging is no decision.
DecideStamp(i, s, e) ==
    /\ req[i].phase = "idle" /\ alert[s][e].open > 0
    /\ req' = [req EXCEPT ![i] = [NoRequest EXCEPT !.phase = "decide", !.subject = s, !.found = {e},
                  !.clean = TRUE, !.stamp = clock, !.seen = entity[e].content]]
    /\ UNCHANGED <<tables, cache, clock, history>>

Decided(row, r) ==
    [open |-> IF row.open > 0 THEN row.open - 1 ELSE 0,
     at |-> r.stamp, seen |-> r.seen, hash |-> subject[r.subject].version]

DecideCommit(i) ==
    LET r == req[i]
        pairs == {r.subject} \X r.found
    IN  /\ r.phase = "decide"
        /\ alert' = [alert EXCEPT ![r.subject] = [e \in Entities |->
                        IF e \in r.found THEN Decided(@[e], r) ELSE @[e]]]
        /\ moved' = IF r.clean THEN moved \ pairs ELSE moved \cup pairs
        /\ Finish(i)
        /\ UNCHANGED <<entity, subject, cache, clock, dirty, screened>>

-------------------------------------------------------------------------------
RefreshStep(i) ==
    \/ StartRefresh(i) \/ Invalidate(i)
    \/ \E d \in Datasets : Load(i, d) \/ LoadFailed(i, d)

ScreenStep(i) ==
    \/ ListCustomers(i) \/ ListOwners(i) \/ Fill(i) \/ Score(i) \/ Persist(i)
    \/ \E s \in Subjects : Lookup(i, s)

Next ==
    \/ Tick
    \/ \E i \in Slots :
          \/ RefreshStep(i) \/ StartRescreen(i) \/ ScreenStep(i) \/ DecideCommit(i) \/ Abort(i)
          \/ \E s \in Subjects : Onboard(i, s) \/ \E e \in Entities : DecideStamp(i, s, e)
    \/ \E s \in Subjects :
          close_relationship(s) \/ reactivate_customer(s) \/ ChangeSubject(s)

Spec == Init /\ [][Next]_vars

\* The scheduler asks for a refresh again and again, and of the refreshes that
\* get as far as a step not every one dies there.  A source may always be down.
FairSpec ==
    /\ Spec
    /\ \A i \in Slots : SF_vars(StartRefresh(i)) /\ SF_vars(Invalidate(i))
    /\ \A i \in Slots, d \in Datasets :
          SF_vars(Load(i, d) \/ LoadFailed(i, d))
    /\ \A i \in Slots : SF_vars(ListCustomers(i)) /\ SF_vars(ListOwners(i))
    /\ \A i \in Slots, s \in Subjects :
          /\ SF_vars(Lookup(i, s))
          /\ SF_vars(Fill(i) /\ req[i].subject = s)
          /\ SF_vars(Score(i) /\ req[i].subject = s)
          /\ SF_vars(Persist(i) /\ req[i].subject = s)

-------------------------------------------------------------------------------
\* Properties

\* Every variable has its type.
TypeOK ==
    /\ entity \in [Entities -> EntityRow]
    /\ cache \in [Subjects -> (SUBSET Entities) \cup {None}]
    /\ subject \in [Subjects -> SubjectRow]
    /\ alert \in [Subjects -> [Entities -> AlertRows]]
    /\ clock \in 1..MaxTime
    /\ req \in [Slots -> Request]
    /\ dirty \in BOOLEAN /\ screened \subseteq Subjects /\ moved \subseteq Subjects \X Entities

\* A match waits for a decision at most once, however many screenings of the
\* subject run into each other: a second open alert would let another operator
\* decide it apart from the first.
OneOpenAlert == \A s \in Subjects, e \in Entities : alert[s][e].open <= 1

\* A decided match whose entry and subject have not changed since is not raised
\* again by any screening.
DecisionStands ==
    [][\A s \in Subjects, e \in Entities :
           alert[s][e].at > 0 /\ alert'[s][e].open > alert[s][e].open => <<s, e>> \in moved]_vars

\* The match is before an operator, or was decided on what the list says now.
Handled(s, e) ==
    \/ alert[s][e].open > 0
    \/ /\ alert[s][e].at > 0 /\ alert[s][e].seen = entity[e].content
       /\ s \in Owners \/ alert[s][e].hash = subject[s].version

\* The decision and the change of the entry carry the same second.
SameSecond(s, e) == alert[s][e].at > 0 /\ alert[s][e].at = entity[e].changed

\* What a screening reports is complete: when it began after the cache was
\* cleared for the lists in force and nothing changed since, every match of its
\* subject is handled.  Holds when requests do not overlap.  Decisions in the
\* second of the change are excepted (SameSecond).
ScreenedIsHandled ==
    \A s \in screened, e \in Entities : IsHit(s, e) => Handled(s, e) \/ SameSecond(s, e)

\* Every match of an active customer or an owner with a list in force is
\* eventually handled: also one whose onboarding died, one who was reactivated
\* and one whose identity changed, and after refreshes that failed half way.
EveryMatchIsHandled ==
    \A s \in Subjects, e \in Entities :
        (subject[s].status = "active" /\ IsHit(s, e))
            ~> (Handled(s, e) \/ SameSecond(s, e) \/ subject[s].status # "active" \/ ~IsHit(s, e))
===============================================================================
