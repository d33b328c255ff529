# amlkit in TLA+

amlkit is a compliance service for UAE firms that must screen their customers
against sanctions lists, decide what the matches mean, freeze and report, keep
records for the legal period and then destroy them.  It is a FastAPI application
over one SQLite database.  Almost all of what can go wrong in it is a matter of
*order*: what a request has read before it writes, what another request, a list
refresh, a webhook, a script or a crash did in between.  This project models
those orders.

## 1. How the program runs, and what that means for a model

* Routes are synchronous functions, served by a pool of threads, each on a
  database connection of its own (`api/deps.py`).  Cloud Scheduler and scripts
  call the same functions from other requests or processes.
* Python's `sqlite3` opens a write transaction at the first INSERT, UPDATE or
  DELETE.  Every SELECT before it is a statement of its own, in autocommit.  A
  handler that reads, checks and then writes is therefore a sequence of atomic
  steps: one per SELECT that feeds a decision, and one for each transaction.
  Anything may commit between two of them.
* There is one writer at a time.  A writer that waits longer than the busy
  timeout fails and rolls back (`db.retry_on_lock` repeats a few operations).
* A crash loses what is not committed, and nothing else.

In every module a request in flight is a record in a *slot* that holds what the
handler has read so far (`Requests` declares the slots and SQL NULL).  The first
action of a handler fills the slot, each later one models one further statement
or transaction, and an action named `Abort`, `Die` or `...Dies` is the death of
the worker or a write abandoned for a lock, possible between any two steps.
Refusals at the first check change nothing and are left out as steps that
stutter.  Operators marked *Mutation* in the modules are not part of the
specifications: each is a plausible mistake in the definition that follows it,
kept to show that a property notices it.

## 2. Inventory

| Component | State | Hard behaviour | Correct when |
|---|---|---|---|
| Alert review (`cases/review.py`) | alerts, alert_reviews, org_settings | check and write are separate; settings and lists change in between; proposals without operator id | a dismissal's review label is true; one decision per alert; a confirmed match is frozen |
| TFS freeze (`cases/manager.py`, `cases/freeze.py`, `sanctions_scope.py`) and reports (`cases/reports.py`) | freeze_obligations, reports | the same, with a mail that cannot be rolled back and a delisting that cuts the link to the alert | obligations move forward only; closed with grounds; the MLRO is told, once |
| Screening (`match/`) and list loads (`ingest/loader.py`) | entities, alerts, the token cache | cache against refresh, half a refresh, timestamps of one second | one open alert per match; a decision stands until something changes; no match is lost |
| UAE list (`ingest/eocn.py`) | the page, the workbook, the entries | layout changes, failures between the steps | only the Local Terrorist List is loaded, without those taken off it |
| Refresh job (`api/routers/system.py`, `cases/scheduler.py`) | datasets, marks of alerts sent | lists overdue by turns; a mail that fails or raises; a job that dies | an overdue list is announced |
| Customer (`cases/manager.py`) | customers, ubo_links, risk_assessments, documents | onboarding in many commits; check-then-delete; files beside rows | an answer "done" is complete; nothing is destroyed early or left behind; dates only move on |
| Risk and review (`risk/model.py`) | risk_assessments, periodic_reviews | re-assessments copy from the newest row | an overdue review ends with a review |
| Ownership | ubo_links | chains, nominees | a nominee never makes the picture clearer |
| Monitoring (`screening/kyt.py`) | transactions, transaction_alerts | entry out of order, thresholds changed | a split amount is found |
| Adverse media (`screening/`) | findings, checks | providers that fail at any call; two checks at once | one finding per article |
| Identity check (`uaepass.py`) | uaepass_verifications | claims missing, files with the same number | one person is not copied onto two files |
| Sign-in (`auth.py`) | operators, sessions, trusted devices | lost updates, a row that is corrected in a later commit | no MLRO skips the challenge; limit and lock-out; a changed password ends sessions |
| MFA, one-time links (`auth.py`) | mfa_secrets, tokens | two submissions of one code, overlapping re-sends | once means once |
| Billing (`billing/`) | organizations, billing_events | events repeated, reordered, retried | each is processed once; the newest decides |
| Organisations and operators (`cases/operators.py`) | organizations, operators, applications | five doors to an account | no two names read alike |
| Schema (`db.py`) | every table of an older version | several processes; an upgrade that dies half way | the passes that run once have done their work, but for two gaps that are delimited |

Interaction.  A disposition in alert review *creates* a freeze obligation in its
own transaction; the submission of a report *moves* the freeze and the retention
date; a list refresh *deletes* entities and by cascade alerts, review rows and
the freeze's link; settings and the registration of an organisation *change the
rule* a dismissal is judged by; screening, findings and transaction alerts
*re-rate* the customer; the plan *limits* onboarding and operators; retention is
*blocked* by open work.  Where one of these is what a property is about, both
ends are in one module; elsewhere the far end is an action of the environment,
listed as external in `PROJECT.json` ("Screening and AlertReview", "Billing").

## 3. Modules

| Module | Code | Actions correspond to |
|---|---|---|
| `AlertDisposition` | | abstract: what alert review promises an examiner |
| `AlertReview` | `cases/review.py` | each SELECT and transaction of propose, confirm, bulk dismiss; `ListChange`, `Delist` of the loader; settings |
| `AlertReviewProofs` | | its theorems |
| `FreezeLifecycle` | | abstract: the workflow promised to the regulator |
| `FreezeObligation` | `cases/manager.py`, `cases/freeze.py`, `cases/reports.py`, `api/routers/freeze.py`, `reports.py` | `...Check` and `...Commit` of execute, resolve, file, finalise, save; `Job...` of the hourly check |
| `Screening` | `match/`, `ingest/loader.py`, `cases/scheduler.py` | refresh (`StartRefresh`, `Load`, `LoadFailed`, `Invalidate`), screening (`Lookup`, `Fill`, `Score`, `Persist`), re-screening, onboarding, closing, decisions |
| `ScreeningProofs` | | its theorems |
| `Requests` | `api/deps.py` | slots and NULL, shared by the modules below |
| `Sessions` | `auth.py`, `api/routers/auth.py`, `mfa.py`, `account.py`, `admin.py`, `api/mobile.py` | login (read, clear a lapsed lock, answer, count, evict, insert, lock for MFA), challenge, password change and reset, deactivation |
| `Mfa` | `auth.py`, `api/routers/mfa.py` | enrolment, check, claim of a time step or backup code, miss and lock, confirmation, removal |
| `OneTimeTokens` | `auth.py`, `cases/operators.py`, `api/routers/auth.py` | issue, look up, claim of set-up, verification and unlock links and UAE PASS states; first linking of an identity |
| `Retention` | `cases/manager.py`, `api/mobile.py`, `storage.py` | onboard, close, reactivate, transactions, reports, upload, extension script, purge |
| `RiskRating` | `risk/model.py`, `cases/manager.py`, `api/mobile.py` | every re-assessment, correction and review; prior row, carried date and save are steps |
| `Kyt` | `screening/kyt.py` | a transaction with its evaluation; decisions; settings |
| `Ownership` | `cases/manager.py` | `AddUboCheck`, `AddUboInsert` |
| `AdverseMedia` | `screening/adverse_media.py`, `media_pipeline.py`, `cases/manager.py` | each stage of a check, its vault and its filing |
| `Onboarding` | `cases/manager.py`, `billing/limits.py` and the two routes | each commit of `onboard` |
| `IdentityCheck` | `cases/manager.py`, `uaepass.py`, `api/routers/customers.py` | start, consume, exchange, read, record |
| `LocalList` | `ingest/eocn.py`, `ingest/base.py` | page, candidates, download with retries, workbook, load |
| `Migrations` | `db.py` | each statement of `_initialise` that commits |
| `Organisations` | `cases/operators.py`, `cases/applications.py`, routes | check and write of each door; applications |
| `Staleness` | `cases/scheduler.py`, `mail.py`, `api/routers/system.py` | refresh, check, alert, mark, purge of applications |
| `Billing` | `billing/`, `api/billing.py` | webhook (`Deliver`, `HandleEvent`, `Fail`), checkout; Stripe |
| `BillingProofs` | | its theorems |
| `FreezeProofs` | | the theorems of `FreezeObligation` |
| `AccessProofs` | | the theorems of `Sessions`, `OneTimeTokens` and `Mfa` |
| `RecordsProofs` | | the theorems of the modules from `Retention` to `Staleness` in this table |
| `SequentialProofs` | | the parts of `MCSequential` together: its types, and what all parts keep |
| `SetLemmas` | | facts about minima, maxima, sums and functions computed row by row that these cite |
| `MC...` | | instances for TLC |

### Notes on single modules

**AlertReview.**  `reviews[a]` and `proposal[a]` are what `alert_reviews` holds of
an alert.  The confirmation row stores only the operator's name; the model keeps
the operator, so that the property can speak of two people.  In bulk dismissal
the audit row written after each alert opens the transaction in which the next
alert's check runs, so `BulkNext` is one step.  `plainSeen` and `soloSeen` are
history: was the entity ever unlisted, was the mode ever on.  Left out:
narratives, audit rows, `assign_alert`.

**FreezeObligation.**  `linked[f]` is whether the obligation still has its
confirmed alert; `Foreign` are obligations raised from OFAC/EU/UK alerts before
the scope rule.  `report[r].freeze` is the obligation a CNMR was drafted for.  An edit
(`SaveCheck`, `SaveCommit`, of any draft) replaces the payload, which no property tells apart.

**Screening.**  `Matches` says which subjects an entry with a given content
matches, in place of tokens, names and scores.  `cache[s]` are the cached entity
ids for the tokens of a subject's name in the one process.  The first INSERT of
`_persist` takes the write lock, so coverage is read and alerts are inserted in
one step.  A decision that commits after a new alert for its match was raised
writes to a row that coverage no longer asks, and has no effect here.  One subject
has one name here; what two spellings add is in `Onboarding`.  A load stamps what it
changes with a time taken before its transaction, any second since the load of the list
before (`Load`).  A re-screening reads the names with its list of customers
(`ListCustomers`); `outdated` is history, the listed subjects whose name was changed before their
turn, and a screening of one is not counted as current (`clean`).  The adoption of
rows older than the content hash is left out.

**Sessions, Mfa, OneTimeTokens** share the accounts of the code and are modelled
apart: whether a code is right is decided in `Mfa`, which token is redeemed in
`OneTimeTokens`, and `Sessions` takes either answer.  A TOTP code is told apart by
the secret and the time step it was made from, a set of ten backup codes by one.

**Retention** counts in years.  `report` and `transaction` are latest dates,
`work` is an open alert or freeze.  `LegacyClosed` is a customer closed under the
shorter period of an older release, which the extension script is for.  A closed row
always has its exit date, since `_backfill_exit_date` fills it in at start-up; rows of older
releases with a transaction or report after the end are left out.

**Kyt.**  Threshold and window of structuring are read from the settings at every
transaction, and both are changed at any time; the limits of velocity stay at their defaults.

**RiskRating** keeps the newest row of `risk_assessments`; factors are told apart
by their points, and all factors an officer enters are one.

**LocalList.**  A page is a sequence of markers, a workbook a sequence of sheets
with one row each: two sheets of a kind stand for two rows of one.

**Migrations** keeps, of each table, what the versions differ in.  `sqlite3`
opens no transaction at CREATE or ALTER, so a statement of the schema commits by
itself unless it follows a row that the connection wrote; `load_fatf_data`
commits in the middle.  The guards of `_initialise` look at the schema or at customers,
never at a pass as such, and two of them can be passed by work that is not there:

* a second process that missed `email` in time copies the rebuilt `operators` again without
  organisation, address and password, which no later pass gives back (`staffed`; `twice` is
  history, the table was rebuilt twice);
* the addresses of those who had a password are filled only by the start that added the
  column, and the ALTER commits by itself (`verified`; `died` is history, a process
  died while it owed them).

`UpgradedOnce` delimits both: work is missing under a marker only then.

**Billing.**  `Attributed` is `_find_org`: a checkout and a change of a subscription name the
organisation in their metadata, an invoice is found by its customer or subscription.  One
that finds nobody gets the row "stored", is answered with success and has no effect, ever.
Prices are the configured ones; for another the code takes the plan in the metadata that the
checkout left.  The table of statuses has every status of Stripe.

**Staleness.**  What a refresh does to entries and customers is in `Screening`; here
a list is only fresh or overdue.  `MailFields` and `ReportFields` are the keys the
mail reads and the report has.

## 4. Runs

| Run | Instance | Shows |
|---|---|---|
| `alert_overlap` | 1 alert, 2 operators, 2 slots, both modes | `FourEyes`, `ConfirmedIsFrozen` under any interleaving |
| `alert_sequential` | 2 alerts of a customer (one staged by an old release), 1 slot | refinement of `AlertDisposition` |
| `alert_double` | as overlap | violated: `NoDoubleDisposition` |
| `freeze_overlap` | 1 obligation, 2 CNMRs, 1 generic report, 2 slots | `EndedWithGrounds` |
| `freeze_sequential` | 2 obligations, one foreign, 1 check, 1 slot, fairness | refinement of `FreezeLifecycle`; `FreezeAgreesWithCNMR`, `MailedOnce`, `OverdueIsMailed` |
| `screening_overlap` | 1 customer, 1 entry with 2 contents, 2 slots | `OneOpenAlert`, `DecisionStands` |
| `screening_fair` | 1 customer, 1 entry, 1 slot, fairness | `EveryMatchIsHandled`, `ScreenedIsHandled` |
| `requests_overlap` | `MCRequests`: sessions, MFA, one-time links, rating, adverse media, 2 slots | `ChallengedFirst`, `CodeAcceptedOnce`, `SpentOnceByWork`, `OneLiveLink`, `AdmittedIsLinked`, `OverdueNeedsReview`, `OneFindingPerArticle` |
| `requests_sequential` | `MCSequential`: fifteen modules, 1 slot (2 processes for `Migrations`) | `SessionLimit`, `PasswordEndsSessions`, `LocksOut`, `ConfirmedIsProven`, `PurgedInTime`, `NoOrphanedFile`, `OnlyExtended`, `SplitIsRaised`, `NomineeNeverHelps`, `DoneIsComplete`, `OneFilePerIdentity`, `OnlyTheLocalList`, `UpgradedOnce`, `NoLookalikes`, and the types |
| `onboarding_hit` | `Onboarding` with 1 slot | violated: `HitIsHigh` |
| `billing` | 2 subscriptions, 4 events, 2 deliveries, fairness | `ProcessedOnce`, `NewestChangeWins`, `EveryEventIsProcessed` |
| `staleness_alert` | 1 list, mail configured, fairness | violated: `EveryBreachIsAnnounced` |

**One run for many modules.**  The modules of `MCRequests` and `MCSequential` share
a server and no row, so that a product of their states would say nothing that
their union does not.  Each behaviour of these two specifications exercises one
module, `part`, from every initial state of it, while the variables of the others
keep one value.  `Screening` joins them under its own names
(`Screenings == INSTANCE Screening`) with an owner and a second list, which the runs of
`MCScreening` have no room for; what they mean for `ScreenedIsHandled` is proved.

**Bounds.**  The hazards are pairs: two requests, or a request and a job, a crash or
the clock.  Two slots show each pair, a third adds no new one.  Rows of different
alerts, freezes or customers are independent but for bulk dismissal, the loops of
the jobs and scripts, the limits that count rows, and one identity on two
files; the runs about these have two rows.

* `MaxObligations = 2` tells none, one and too many apart.
* `MaxTime = 2` in `Screening` lets a decision come before, in and after the second
  of a change; `Contents` needs two members for a change that still matches.
* The limits of `Sessions` and `Mfa` are at their smallest in the overlapping run and at
  two failures in the sequential one, so that a count below the limit is seen.
  `MaxSessions = 2` is one session over the limit; `MaxLinks = 3` one link and its two
  re-sends.
* `RETENTION_YEARS = 2` and `MaxYear = 5` leave room for a life: opened, closed, reopened,
  closed again and purged.
* `Kyt`: two amounts below each threshold, a default and a configured value of threshold and
  window, dates within and across each window, and three transactions, the smallest number
  with a middle one entered last.
* `Ownership`: two persons and the customer's own name, three rows, two levels.
* `LocalList`: three markers (heading, other heading, file) and two sheets.
* `Migrations`: two processes, from each of the versions the code knows.
* `Billing`: four events are an opening and two changes, or two openings.

**Requests that do not overlap.**  The sequential runs matter beside the violated
ones.  They show what the code keeps over every sequence of legal calls, each of
which may die between two of its commits; the missing guard in an UPDATE is then the
only cause when a second slot breaks the property.  Seen with two slots:

* two overlapping `file_ffr_report` calls each draft a CNMR, and a reported freeze is
  then linked to a draft;
* an execution that passed its check puts a resolved obligation back to
  `executed_pending_report` (`cases/manager.py:2413`), and an edit that passed its check
  overwrites a submitted report;
* two overdue checks mail an obligation twice;
* overlapping logins exceed the session limit, and overlapping wrong passwords lose
  attempts; a login that verified the old password outlives its change;
* a purge deletes a customer reactivated since it was selected;
* two operators whose names read alike are added at once, and two callbacks copy one
  person onto two files (`OneFilePerIdentity` asks for both: one file is filled, and of any
  two files verified for a person one is flagged against a file of that person);
* an enrolment of a second factor that replaced another one is confirmed by the other's code;
* a token cache filled across an invalidation keeps the old list
  (`match/cache.py:58`), which `ScreenedIsHandled` notices;
* a decision made while a load waits for the write lock is newer than the time the load took
  before (`ingest/loader.py:56`), and hides the change from later screenings.

And with one slot: a list change in the very second of a decision is taken for one
before it, which is why `ScreenedIsHandled` excepts `SameSecond`.

**Deadlock** is not checked: every system here may come to rest (all alerts decided
or gone, all bounds reached, no process starting).

**Fairness.**

* `freeze_sequential`: the hourly schedule justifies weak fairness of starting and
  continuing a check, and strong fairness of a successful send says that mail tried
  again and again is delivered in the end.  Nothing is assumed of operators, of the
  clock, or of the MLRO's account: the property has the MLRO's lasting presence as
  its premise.
* `screening_fair`: the scheduler starts a refresh again and again, and each step of a
  refresh is strongly fair: of the refreshes that reach a step, not every one dies
  there.  Weak fairness would not do, since any of them may die.  Sources may be down
  for ever: only "loads or fails" is fair.
* `billing`: Stripe delivers again what was not answered with success, and of the
  attempts not every one fails.
* `staleness_alert`: Cloud Scheduler calls again and again, of the calls that get as far
  as a step not every one dies there, and a mail that raises is among the fair steps.
  The violation is not a matter of what is left unfair.

## 5. Where code and documentation disagree

Each of these has a violated run and an entry under "findings".

* `alert_double`: Issue #167's check does not stand in the UPDATE.
* `onboarding_hit`: of two screenings only the one with the higher top score is kept for
  the rating, and a sanctions hit of the other is lost.
* `staleness_alert`: with SMTP configured the alert about an overdue list raises
  `KeyError` before any mail server is spoken to, ends the request of Cloud Scheduler with
  an error and skips the mark and the purge of applications.  `tests/` calls the mail with
  rows made by hand that have the keys.

Met while modelling and followed by the models, without a run of their own:

* `staleness_notified_at` is cleared only by a check that finds no list overdue, and a
  mail the server refused is marked as sent: with lists overdue by turns a breach can
  pass in silence even without SMTP.
* After a delisting an obligation of a foreign list counts as raised by hand and is
  mailed about (`sanctions_scope.py:61`).
* The mobile deactivation of an operator lacks the guard of the web's against the last
  MLRO (`api/mobile.py:1661`).
* The mobile route re-assesses the risk after a disposition, the web route does not.
* `onboard` refuses an owner named like the customer after the customer is committed
  (`cases/manager.py:477`), and leaves it unrated.
* The version of a policy document is read before the transaction that inserts it opens
  (`cases/manager.py:2955`), though its comment says that both are in one.
* `run_adverse_media_async` has no caller.
* `_migrate_operators_table` is "guarded by the presence of the `email` column, so it runs
  exactly once" (`db.py:1508`): two processes that start together may both rebuild, and the
  second loses `org_id`, `email` and `password_hash`.  `_migrate_tenancy_data` is guarded by
  "any row anywhere" without an organisation and counts customers only (`db.py:1618`).
* `_backfill_email_verified`: the new column "should not retroactively lock any of them out"
  (`db.py:1453`).  A start that dies after the ALTER and before the commit of
  `load_fatf_data` leaves it there and nobody verified, and no later start repeats the pass.
* `create_checkout_session` names the organisation "so the webhook can attribute events even
  if they arrive out of order" (`billing/stripe_client.py:132`): an invoice that arrives before
  the checkout is stored, acknowledged and never applied.

## 6. Proofs

Each theorem holds for every value of the constants that the named assumptions of its
modules allow: any number of rows, requests in flight, identities, sessions and processes.
Those marked *one request* assume `OneRequest`, that no two requests overlap; *one check*
assumes `OneCheck`, the same of the overdue check; *one each* assumes
`[]OneRequestEach`, that no two requests about the same operator overlap, while those about
different operators do as they like.  Requests may still die between any two commits, and jobs, refreshes and settings run on beside them.  Section 4 lists how
two overlapping requests break these properties: the assumption is where the code's
promise ends, and no convenience of the proof.

| Module | Theorem | Property |
|---|---|---|
| `AlertReviewProofs` | `TypeCorrect` | `[]TypeOK` |
| | `FourEyesCorrect` | `[]FourEyes` |
| | `ConfirmedIsFrozenCorrect` | `[]ConfirmedIsFrozen` |
| | `NoDoubleDispositionCorrect` | `NoDoubleDisposition`, *one request* |
| | `DispositionImplemented` | refinement of `AlertDisposition`, *one request* |
| `FreezeProofs` | `TypeCorrect` | `[]TypeOK` |
| | `EndedWithGroundsCorrect` | `[]EndedWithGrounds` |
| | `MailedOnceCorrect` | `[]MailedOnce`, *one check* |
| | `FreezeAgreesWithCNMRCorrect` | `[]FreezeAgreesWithCNMR`, *one request* |
| | `LifecycleImplemented` | refinement of `FreezeLifecycle`, *one request* |
| `ScreeningProofs` | `TypeCorrect` | `[]TypeOK` |
| | `OneOpenAlertCorrect` | `[]OneOpenAlert` |
| | `DecisionStandsCorrect` | `DecisionStands` |
| | `ScreenedIsHandledCorrect` | `[]ScreenedIsHandled`, *one request* |
| `AccessProofs` | `SessionsTypeCorrect` | `[]SessionsTypeOK` |
| | `ChallengedFirstCorrect` | `[]ChallengedFirst` |
| | `SessionLimitCorrect` | `[]SessionLimit`, *one each* |
| | `PasswordEndsSessionsCorrect` | `[]PasswordEndsSessions`, *one each* |
| | `LocksOutCorrect` | `[]LocksOut`, *one each* |
| | `TokensTypeCorrect`, `MfaTypeCorrect` | `[]TokensTypeOK`, `[]MfaTypeOK` |
| | `SpentOnceByWorkCorrect` | `[]SpentOnceByWork` |
| | `OneLiveLinkCorrect` | `[]OneLiveLink` |
| | `AdmittedIsLinkedCorrect` | `[]AdmittedIsLinked` |
| | `CodeAcceptedOnceCorrect` | `[]CodeAcceptedOnce` |
| | `ConfirmedIsProvenCorrect` | `[]ConfirmedIsProven`, *one request* |
| `RecordsProofs` | `OneFindingPerArticleCorrect` | `[]OneFindingPerArticle` |
| | `OverdueNeedsReviewCorrect` | `OverdueNeedsReview` |
| | `DoneIsCompleteCorrect` | `[]DoneIsComplete` |
| | `UpgradedOnceCorrect` | `[]UpgradedOnce` |
| | `OneFilePerIdentityCorrect` | `[]OneFilePerIdentity`, *one request* |
| | `NoLookalikesCorrect` | `[]NoLookalikes`, *one request* |
| | `NoOrphanedFileCorrect`, `PurgedInTimeCorrect`, `OnlyExtendedCorrect` | `[]NoOrphanedFile`, `PurgedInTime`, `OnlyExtended`, *one request* |
| | `SplitIsRaisedCorrect` | `SplitIsRaised` |
| | `NomineeNeverHelpsCorrect` | `NomineeNeverHelps` |
| | `OnlyTheLocalListCorrect` | `[](LocalListTypeOK /\ OnlyTheLocalList)` |
| | `RatingTypeCorrect`, `OnboardingTypeCorrect`, `MigrationTypeCorrect`, `OwnershipTypeCorrect`, `KytTypeCorrect`, `StalenessTypeCorrect`, `MediaTypeCorrect`, `RetentionTypeCorrect`, `OrganisationTypeCorrect`, `IdentityTypeCorrect` | the type invariant of each module |
| `SequentialProofs` | `PartsImplemented` | a behaviour of `MCSequential` is one of each of its fifteen modules |
| | `SequentialTypeCorrect` | `[]TypeOK` of `MCSequential` |
| | `OverlappingCorrect`, `SequentialCorrect` | what the parts keep together, without and with *one request* |
| `BillingProofs` | `ProcessedOnceCorrect`, `NewestChangeCorrect` | `[]ProcessedOnce`, `[]NewestChangeWins` |

Almost none of the properties is inductive, and for one reason: a request carries what it
has read into a later transaction.  So every inductive invariant below has a part that
says why what is carried is still a good ground.  For the theorems about overlapping requests
the ground is something no other request can take away; for those about one request it is
that nobody else has written since.

**AlertReviewProofs.**  `FourEyes` needs `ReviewInv`:

* `HistoryInv`: what is so now has been seen (`~listed[a] => a \in plainSeen`, and the
  mode likewise);
* `EvidenceInv`: every latest proposal, and every copy of a proposal in a slot, has its
  row in `reviews` for as long as the alert exists;
* `GroundsInv`: a slot that decided not to stage has grounds: the alert was seen
  unlisted, or solo mode was seen on.

The history variables only grow, which is what makes stale reads harmless to this
property.  `ConfirmedIsFrozen` follows from `ReviewInv` step by step, because the obligation is
inserted in the transaction that confirms.  `DispositionImplemented` and
`NoDoubleDispositionCorrect` rest on `SequentialInv`: an alert that a request found undecided
is undecided or gone, and what is undecided has no obligation.  The assumptions are the
shapes of the constants, and that `None` is neither an operator nor a customer.

**FreezeProofs.**

* `GroundsInv` for `EndedWithGrounds`: the link between an obligation and its report is
  true in both directions, and what a request about to resolve has read is still so, since
  no step takes back an execution, a submission or a delisting (`Kept`).
* `MailInv` for `MailedOnce`: what the check still has to do is not marked, and a mail that
  went out is marked, is about to be, or its mark was lost.
* `AgreeInv` for `FreezeAgreesWithCNMR` and for the refinement of `FreezeLifecycle`:
  the status of an obligation determines that of its CNMR (`RowAgrees`), a report of a
  freeze is the one the freeze is linked to (`Owned`), and a checked status has not
  changed.  Both are proved by one lemma per handler that its commit is a step of
  the abstract workflow that keeps the tables in agreement (`Moves`).

**ScreeningProofs.**  `ScreenInv` is the type invariant and two parts:

* `OneOpenAlert`, inductive because coverage is read in the transaction that inserts:
  only a match without an open alert is raised;
* `StandInv`: a decided match with no open alert whose entry and subject have not changed
  since its decision (`moved`) is covered.  A decision takes its stamp before its
  transaction, and of two decisions of one alert the later commit wins, with the older
  stamp perhaps.  So the invariant also says that the stamp of a decision in flight is no
  older than the last change of its entry, unless a change is recorded against it
  (`clean`); and that no entry was changed in the future.

`HandledInv` for `ScreenedIsHandled` adds what a screening that is not overlapped knows:
while the cache has been cleared for the lists in force it misses no match (`CacheKnown`),
so neither does what was read from it (`Knows`); and a decision stamped after the last change
of an entry was on what the entry says (`AlertKnown`).  While lists are loaded nothing else
is decided, so no decision is later than the time a load can have taken.  `SameSecond` is where
that last part would fail with `<=`.  The assumptions are `ListAssumption` (owners are
subjects, each entry is on one list) and `ScreeningBounds` (time is bounded, `None` is no
content).

**AccessProofs.**  `ChallengedFirst` needs `CarriedInv`: an MLRO session is carried over a
change of password only with a proof.  The theorems marked *one each* add `RoomInv` (whoever is
about to insert has counted room, or knows whom to evict; the counting is about
`Cardinality` of the live rows, from `FiniteSetTheorems`), `KnowsInv` (a request holds the
password in force) and `MissesInv` (the counter, and a login's copy of it, are not behind the
failures there were).  That sign-ins of others leave all this alone rests on `OtherOperators`: a
login, an eviction and a change of password write only rows of the operator they are
about.  So what breaks these properties is two requests about one operator, as in the
behaviours of section 4, and never the load of the server.  The type invariant itself needs one fact of the program: a
counter at its limit has a lock beside it, otherwise it would be counted past the limit.

`SpentOnceByWork`, `AdmittedIsLinked` and `OneLiveLink` are inductive
beside the types, which is what the claims `UPDATE ... WHERE used_at IS NULL` and the
voiding in the inserting transaction are for; the free row that is taken is a minimum
(`SetLemmas`).  `CodeAcceptedOnce` needs `CodesInv`: draws are numbered, a backup code that is still
there was not accepted, and an accepted code of the secret in force is not newer than the
step kept.  `ConfirmedIsProven` needs `MfaGroundsInv`: the code about to be claimed is of the
secret in force.

**RecordsProofs.**

* `RatingInv`: unless a review came in between, the date a re-assessment carries is overdue
  just when that of the newest row is (`DatesAgree`); and nothing is saved before it was
  read (`StepsInOrder`).
* `OnboardingInv`: a customer belongs to one onboarding, whose list of unsearched names has
  every name of it (`Fits`).
* `OrganisationInv`: no twins so far, and a name that passed its check is still free (`Passed`).
* `RetentionInv`: the date kept covers what happened to a closed customer (`RowOK`), and
  whoever was selected for the purge is still due (`TaskOK`).  One lemma per operation states
  what it does to a row (`RowStep`), from which both action properties follow.
* `MigrationInv`: the property of what others see and of what the writer has written so far,
  and what each stage relies on has been done (`Prepared`).  No pass undoes what a later one
  relies on (`Grown`), which is why overlapping processes do no more harm than the second
  rebuild of operators: this theorem takes any number of them.
* `BackfillInv`, beside it, is about the column of verified addresses: whoever has got past
  its ALTER without having found it there owes the rows (`ColumnKnown`), and until it commits them
  it is the one writer (`FilledByWriter`).  Only its death leaves a column that nobody owes
  and nobody filled (`Pending`).
* `IdentityInv`: the file a callback has read is as it was read (`ReadIsCurrent`); nobody is
  copied onto two files (`OnOneFile`), and of two files verified for one person one is
  flagged against a file of that person (`Flagged`).
* `OwnershipInv`: a parent stands before its children (`Chained`), also the one an `add_ubo` in
  flight has checked.  It makes the shares of a chain defined at every depth, and rows are only
  appended, so that no share changes afterwards (`OldSharesStay`).  A nominee then changes
  who counts only by its parent standing aside (`NomineeStepsAside`), and of the rows of the
  same holder that it superseded at most one takes its place, none of them larger
  (`OneStandsAside`): the identified share never grows.
* `SplitIsRaised` needs no more than the types, and a lemma about the rule:
  the window that opens at the earliest part of a split holds the whole of it
  (`SplitIsStructuring`), and its sum is at least the sum of the parts (`SumMonotone`).
* `ListInv`: whatever is about to be parsed stands under the heading of the local list, on
  the page as it was read (`Feeds`); one lemma says what a scan of the page takes (`ScanTakesUnderHeading`),
  one what a workbook loads (`LoadedType`).  `LocalListAssumption` keeps files and the markers of
  the page apart.
* The types follow, where they are not part of an invariant above, from what each request
  carries being of the type of the row it saves (`RetentionRows`, `OrganisationRows`,
  `IdentityRows`, `MediaInv`).  None of them assumes that requests do not overlap.  Two say more
  than the shape of a row: alerts of `Kyt` refer to transactions that are there, and
  `IdentityCheck` consumes no more states than it issued.

**Data that is computed row by row.**  The shares of owners, the scan of a page and sums over
rows are recursive functions.  The prover has no induction, so `SetLemmas` derives what is
needed from the least counterexample: a set of natural numbers that is not empty has a least
member (`MinIsMember`).  `RowByRow` says that a function whose value at a row comes from the
value at an earlier row exists, is unique and has its type (`Computed`), and
`SumExists`, `SumUnique` say the same of the sum over a finite set, from which `SumTakeOut`,
`SumMonotone` and `SumAgrees` follow.  `LocalList`, `Kyt` and `Ownership` are written with such
functions and with `SumFunctionOnSet` of the community modules.

**SequentialProofs.**  `PartsImplemented` is about the composition itself: a step of
`MCSequential` is a step of one part and leaves every variable of the others, so each
behaviour of the whole maps to a behaviour of every module alone.  The specifications of the
parts have no fairness, so nothing is lost.  What the modules promise then holds of the
whole by citing their theorems; `Screening`, which joins under its own names, is
identified with the module of its theorems action by action (`Same_...`).  Of its constants
`ScreeningAssumption` asks that owners are subjects, the list is one of the lists, time is
bounded and `None` is no content.

**BillingProofs.**  `ProcessedOnce` needs only the type invariant.  For `NewestChangeWins`
`BillingInv` adds

* `SourceInv`: what is sent is about an opened subscription, what is processed was sent, and
  the organisation holds an opened subscription.  So with one subscription
  `apply_subscription` never meets a superseded one;
* `NewestInv`: `billing_last_event_created` is the second of the newest applied change, and
  once a change is applied the payment is pending no more.  So a stale event is one that is
  older than an applied change, and a checkout that comes after a change leaves it alone.

The proof of a step is by what it appends to `sent` (`Sends`, all steps of Stripe), whether
it applies anything (`Idles`), and what it applies (`ChangeApplied`, `OtherApplied`).  The
assumption is `BillingAssumption`: the bounds are numbers, subscriptions are finitely many
and `None` is none of them.

**Only model-checked:**

* `EveryMatchIsHandled`, `OverdueIsMailed`, `EveryEventIsProcessed`: liveness under fairness,
  which is beyond the prover, as is ENABLED.
* The three violations of section 5.

## 7. Plan

Proofs: a screening of any number of slots for the part of `ScreenedIsHandled` that
overlapping requests keep (a screening that nothing overlapped).

Models: what a policy document's version should be under overlapping uploads; the inbox of
notifications; several organisations in one run of `Screening`.

## 8. Not modelled, and why

* Name matching, transliteration, confusable characters (`names/`, `match/scorer.py`):
  pure string functions over data tables.  `Matches` stands for what they decide.
* The adapters of the other lists (`ingest/un.py`, `ofac.py`, `eu.py`, `uk.py`, `cia.py`,
  `interpol.py`, `opensanctions.py`, `wikidata_peps.py`): each parses one external format and
  only succeeds or fails.
* OCR, PDF, diagrams, goAML XML, BigQuery export: conversions without state.
* `queries.py`, `validation.py`, `money.py`, `pii.py`: selections and checks of one value.
* Templates, pages and the blog; rate limits, which live in memory outside the database.
* Policies, notes, signatures and notifications: rows that are appended and never read by a
  decision.
* `replication.py`: waits for an external replicator and changes no row.
* Language models and entity resolution services: external, they answer anything or fail.
