------------------------------ MODULE AdverseMedia ------------------------------
(***************************************************************************)
(* Adverse-media checks of one active customer: the plain search of        *)
(* screening/adverse_media.py, the four-stage pipeline of                  *)
(* screening/media_pipeline.py, and how cases/manager.py files their       *)
(* outcome and decides that a check is due.                                *)
(*                                                                         *)
(* A check asks the news provider once per spelling of the name, judges    *)
(* the articles, and files what is adverse.  The environment decides which *)
(* stages run.  A provider may be down at any call.  Filing is one write   *)
(* transaction; the pipeline commits its audit vault in another before it. *)
(***************************************************************************)
EXTENDS Requests, Integers, Sequences, FiniteSets

CONSTANTS
    Urls,          \* articles; two URLs that normalise alike are one here
    Adverse,       \* those whose headline carries a risk term
    MAX_ARTICLES,
    MaxMediaTime   \* bound: the clock, in the shortest interval between checks

ASSUME MediaAssumption ==
    /\ Adverse \subseteq Urls /\ IsFiniteSet(Urls)
    /\ MAX_ARTICLES \in Nat \ {0} /\ MaxMediaTime \in Nat

VARIABLES
    environ,       \* which stages are switched on, and whether there is an Arabic name
    searches,      \* searches[s]: the check in slot s
    filed,         \* filed[u]: rows of adverse_media_findings for u
    surfaced,      \* articles the vault holds as relevant
    last_ok,       \* when the newest check with status 'ok' was filed
    mediaRating,   \* the customer's risk rating
    mediaTime

mediaVars == <<environ, searches, filed, surfaced, last_ok, mediaRating, mediaTime>>

-------------------------------------------------------------------------------
\* Vocabulary

adverse_media_months == [high |-> 1, medium |-> 2]

adverse_media_due ==
    last_ok # None => mediaTime - last_ok >= adverse_media_months[mediaRating]

\* answers, errors: calls that were answered and that failed.  urls: the articles that
\* are still candidates, in the end the relevant ones.  found: how many were acquired.
NoSearch == [todo |-> <<>>, urls |-> {}, found |-> 0, answers |-> 0, errors |-> 0]

Queries == IF environ.arabic THEN <<"query", "query">> ELSE <<"query">>
MediaStages ==
    IF ~environ.pipeline THEN Queries \o <<"file">>
    ELSE Queries \o (IF environ.vertex THEN <<"vertex">> ELSE <<>>)
                 \o <<"resolve", "triage", "vault", "file">>

\* Partial coverage is still 'ok' for the plain search, and not for the pipeline, which
\* counts articles and not answers.
Status(r) ==
    IF ~environ.pipeline THEN IF r.answers > 0 THEN "ok" ELSE "unavailable"
    ELSE IF r.errors = 0 THEN "ok"
    ELSE IF r.found = 0 THEN "unavailable" ELSE "partial"

\* The same URL is the same article.  Mutation: new to this check is new.
NewToThisCheck(u) == TRUE
Unfiled(u) == filed[u] = 0

-------------------------------------------------------------------------------
MediaInit ==
    /\ environ \in {e \in [pipeline : BOOLEAN, arabic : BOOLEAN, vertex : BOOLEAN,
                           nl : BOOLEAN, triage : BOOLEAN] :
                        e.pipeline \/ ~(e.vertex \/ e.nl \/ e.triage)}
    /\ searches = [s \in Slots |-> NoSearch]
    /\ filed = [u \in Urls |-> 0]
    /\ surfaced = {}
    /\ last_ok = None
    /\ mediaRating \in DOMAIN adverse_media_months
    /\ mediaTime = 0

At(s, stage) == searches[s].todo # <<>> /\ Head(searches[s].todo) = stage
Advance(s, r) == searches' = [searches EXCEPT ![s] = [r EXCEPT !.todo = Tail(@)]]

\* On request.
run_adverse_media(s) ==
    /\ searches[s].todo = <<>>
    /\ searches' = [searches EXCEPT ![s] = [NoSearch EXCEPT !.todo = MediaStages]]
    /\ UNCHANGED <<environ, filed, surfaced, last_ok, mediaRating, mediaTime>>

\* An officer works through the customers that are due.
run_due_adverse_media(s) == adverse_media_due /\ run_adverse_media(s)

\* The plain search keeps what its headline shows to be adverse; the pipeline takes
\* up to MAX_ARTICLES candidates, each once.
Acquired(r, articles) ==
    IF ~environ.pipeline THEN articles \cap Adverse ELSE articles \ r.urls

fetch(s, articles) ==
    LET r == searches[s]
        new == Acquired(r, articles)
    IN
    /\ At(s, "query") \/ At(s, "vertex")
    /\ environ.pipeline => /\ Cardinality(r.urls) < MAX_ARTICLES
                           /\ Cardinality(r.urls \cup new) <= MAX_ARTICLES
    /\ Advance(s, [r EXCEPT !.urls = @ \cup new, !.found = @ + Cardinality(new),
                          !.answers = @ + 1])
    /\ UNCHANGED <<environ, filed, surfaced, last_ok, mediaRating, mediaTime>>

MediaUnavailable(s) ==
    /\ At(s, "query") \/ At(s, "vertex")
    /\ environ.pipeline => Cardinality(searches[s].urls) < MAX_ARTICLES
    /\ Advance(s, [searches[s] EXCEPT !.errors = @ + 1])
    /\ UNCHANGED <<environ, filed, surfaced, last_ok, mediaRating, mediaTime>>

\* The pipeline asks no further once it has MAX_ARTICLES.
EnoughArticles(s) ==
    /\ At(s, "query") \/ At(s, "vertex")
    /\ environ.pipeline /\ Cardinality(searches[s].urls) >= MAX_ARTICLES
    /\ Advance(s, searches[s])
    /\ UNCHANGED <<environ, filed, surfaced, last_ok, mediaRating, mediaTime>>

\* Headlines decide, or the language service; an article it cannot analyse is dropped.
_resolve_entities(s, kept) ==
    /\ At(s, "resolve")
    /\ ~environ.nl => kept = searches[s].urls \cap Adverse
    /\ Advance(s, [searches[s] EXCEPT !.urls = kept])
    /\ UNCHANGED <<environ, filed, surfaced, last_ok, mediaRating, mediaTime>>

\* Headlines decide, or the language model; a batch it cannot score is not relevant.
_triage(s, relevant) ==
    /\ At(s, "triage")
    /\ ~environ.triage => relevant = searches[s].urls \cap Adverse
    /\ Advance(s, [searches[s] EXCEPT !.urls = relevant])
    /\ UNCHANGED <<environ, filed, surfaced, last_ok, mediaRating, mediaTime>>

_finish_run(s) ==
    /\ At(s, "vault")
    /\ surfaced' = surfaced \cup searches[s].urls
    /\ Advance(s, searches[s])
    /\ UNCHANGED <<environ, filed, last_ok, mediaRating, mediaTime>>

\* One write transaction, opened by its first INSERT.
_persist_adverse_media(s) ==
    LET r == searches[s] IN
    /\ At(s, "file")
    /\ filed' = [u \in Urls |-> IF u \in r.urls /\ Unfiled(u) THEN filed[u] + 1 ELSE filed[u]]
    /\ last_ok' = IF Status(r) = "ok" THEN mediaTime ELSE last_ok
    /\ searches' = [searches EXCEPT ![s] = NoSearch]
    /\ UNCHANGED <<environ, surfaced, mediaRating, mediaTime>>

MediaDies(s) ==
    /\ searches[s].todo # <<>>
    /\ searches' = [searches EXCEPT ![s] = NoSearch]
    /\ UNCHANGED <<environ, filed, surfaced, last_ok, mediaRating, mediaTime>>

MediaTick ==
    /\ mediaTime < MaxMediaTime
    /\ mediaTime' = mediaTime + 1
    /\ UNCHANGED <<environ, searches, filed, surfaced, last_ok, mediaRating>>

\* A re-assessment (RiskRating).
Rerated ==
    /\ mediaRating' \in DOMAIN adverse_media_months \ {mediaRating}
    /\ UNCHANGED <<environ, searches, filed, surfaced, last_ok, mediaTime>>

MediaNext ==
    \/ MediaTick \/ Rerated
    \/ \E s \in Slots :
           \/ run_adverse_media(s) \/ run_due_adverse_media(s) \/ MediaUnavailable(s) \/ EnoughArticles(s)
           \/ \E articles \in SUBSET Urls : fetch(s, articles)
           \/ \E kept \in SUBSET searches[s].urls : _resolve_entities(s, kept) \/ _triage(s, kept)
           \/ _finish_run(s) \/ _persist_adverse_media(s) \/ MediaDies(s)

MediaSpec == MediaInit /\ [][MediaNext]_mediaVars

-------------------------------------------------------------------------------
\* Properties

\* Types of the rows and of the checks.
MediaTypeOK ==
    /\ environ \in [pipeline : BOOLEAN, arabic : BOOLEAN, vertex : BOOLEAN, nl : BOOLEAN,
                    triage : BOOLEAN]
    /\ \A s \in Slots : /\ searches[s].urls \subseteq Urls
                         /\ {searches[s].found, searches[s].answers, searches[s].errors} \subseteq Nat
    /\ filed \in [Urls -> Nat] /\ surfaced \subseteq Urls
    /\ last_ok \in 0..mediaTime \cup {None} /\ mediaRating \in DOMAIN adverse_media_months

\* However checks overlap and repeat, an article is put before an officer once: a
\* ruling on it is not asked for again.
OneFindingPerArticle == \A u \in Urls : filed[u] <= 1
===============================================================================
