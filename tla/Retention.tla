------------------------------- MODULE Retention -------------------------------
(***************************************************************************)
(* How long a customer is kept (cases/manager.py): the latest-of date, the *)
(* end and the reactivation of a relationship, the extension script and    *)
(* the purge.                                                              *)
(*                                                                         *)
(* Dates are counted in years.  A handler reads in autocommit and then     *)
(* writes one transaction; the scripts loop over what they selected first, *)
(* one transaction per customer, and may die in the loop.  Screening and   *)
(* rating at onboarding are left to Screening and RiskRating.               *)
(***************************************************************************)
EXTENDS Requests, Integers, FiniteSets, FiniteSetsExt

CONSTANTS
    Customers,
    RETENTION_YEARS,
    MaxYear            \* bound: the last year

ASSUME RetentionAssumption ==
    /\ RETENTION_YEARS \in Nat \ {0} /\ MaxYear \in Nat \ {0}

VARIABLES
    customer,    \* customer[c]: the row of customers with what hangs on it
    rreq,        \* rreq[s]: the request or script in slot s
    year

retentionVars == <<customer, rreq, year>>

-------------------------------------------------------------------------------
\* Vocabulary

\* 0 is no date.  'transaction' and 'report' are the latest occurred_at and
\* submitted_at; 'draft', 'work' and 'files' say whether there is a report not yet
\* submitted, an alert or freeze still open, and a stored document.
Dates == 0..MaxYear + 1
Customer == [status : {"absent", "active", "closed", "purged"}, exit : Dates,
             until : 0..MaxYear + 1 + RETENTION_YEARS, transaction : Dates, report : Dates,
             draft : BOOLEAN, work : BOOLEAN, files : BOOLEAN]
Absent == [status |-> "absent", exit |-> 0, until |-> 0, transaction |-> 0, report |-> 0,
           draft |-> FALSE, work |-> FALSE, files |-> FALSE]

\* A customer closed by an older release, with a shorter retention.  A transaction or
\* report that release stored after the end, for which nothing recomputes the date, is
\* left out.
LegacyClosed == [Absent EXCEPT !.status = "closed", !.exit = 1, !.until = RETENTION_YEARS,
                               !.files = TRUE]

NoTask == [phase |-> "idle", customer |-> None, todo |-> {}]

Exists(c) == customer[c].status \in {"active", "closed"}

retention_from(date) == date + RETENTION_YEARS

\* recompute_retention: the latest date that counts; a stored later date stands.
Anchors(row) == {row.transaction, row.report, IF row.status = "closed" THEN row.exit ELSE 0} \ {0}
\* Mutation: the date follows the latest anchor down as well.
Followed(row) == IF Anchors(row) = {} THEN row
                 ELSE [row EXCEPT !.until = retention_from(Max(Anchors(row)))]
Recomputed(row) ==
    IF Anchors(row) = {} THEN row
    ELSE [row EXCEPT !.until = Max({@, retention_from(Max(Anchors(row)))})]

-------------------------------------------------------------------------------
RetentionInit ==
    /\ customer \in [Customers -> {Absent, LegacyClosed}]
    /\ rreq = [s \in Slots |-> NoTask]
    /\ year = 1

Begin(s, phase, c) ==
    /\ rreq[s].phase = "idle"
    /\ rreq' = [rreq EXCEPT ![s] = [phase |-> phase, customer |-> c, todo |-> {}]]
    /\ UNCHANGED <<customer, year>>

\* The transaction names the customer by id alone: no row, no effect.
Write(s, row) ==
    LET c == rreq[s].customer IN
    /\ customer' = IF Exists(c) THEN [customer EXCEPT ![c] = row] ELSE customer
    /\ rreq' = [rreq EXCEPT ![s] = NoTask]
    /\ UNCHANGED year

\* A handler of one transaction takes a slot too.
Free == \E s \in Slots : rreq[s].phase = "idle"

onboard(c) ==
    /\ Free /\ customer[c].status = "absent"
    /\ customer' = [customer EXCEPT ![c] =
           [Absent EXCEPT !.status = "active", !.until = retention_from(year)]]
    /\ UNCHANGED <<rreq, year>>

CloseRead(s, c) == customer[c].status = "active" /\ Begin(s, "close", c)

close_relationship(s) ==
    /\ rreq[s].phase = "close"
    /\ Write(s, Recomputed([customer[rreq[s].customer] EXCEPT
           !.status = "closed", !.exit = year, !.until = retention_from(year)]))

ReactivateRead(s, c) == customer[c].status = "closed" /\ Begin(s, "reactivate", c)

reactivate_customer(s) ==
    /\ rreq[s].phase = "reactivate"
    /\ Write(s, [customer[rreq[s].customer] EXCEPT
           !.status = "active", !.exit = 0, !.until = retention_from(year)])

\* Insert, recompute and the KYT rules in one transaction; the date is the
\* operator's, in the past or the future.  The customer may be closed.
record_transaction(c, date, alerted) ==
    /\ Free /\ Exists(c)
    /\ customer' = [customer EXCEPT ![c] = Recomputed([customer[c] EXCEPT
           !.transaction = Max({@, date}), !.work = @ \/ alerted])]
    /\ UNCHANGED <<rreq, year>>

save_report(c) ==
    /\ Free /\ Exists(c) /\ ~customer[c].draft
    /\ customer' = [customer EXCEPT ![c].draft = TRUE]
    /\ UNCHANGED <<rreq, year>>

SubmitRead(s, c) == Exists(c) /\ customer[c].draft /\ Begin(s, "submit", c)

report_submit(s) ==
    /\ rreq[s].phase = "submit"
    /\ Write(s, Recomputed([customer[rreq[s].customer] EXCEPT !.draft = FALSE, !.report = year]))

\* Alerts and freezes come and go (AlertReview, FreezeObligation).
Work(c) ==
    /\ Free /\ Exists(c)
    /\ \E open \in BOOLEAN : customer' = [customer EXCEPT ![c].work = open]
    /\ UNCHANGED <<rreq, year>>

UploadRead(s, c) == Exists(c) /\ Begin(s, "store", c)

\* The file is stored first, under a name of its own: a request that dies before the
\* row leaves a file that no row and no purge knows.
UploadStore(s) ==
    /\ rreq[s].phase = "store"
    /\ rreq' = [rreq EXCEPT ![s].phase = "row"]
    /\ UNCHANGED <<customer, year>>

UploadRow(s) ==
    /\ rreq[s].phase = "row"
    /\ Write(s, [customer[rreq[s].customer] EXCEPT !.files = TRUE])

\* extend_closed_retention: what the script selected is written customer by customer.
Extendable(c) ==
    /\ customer[c].status = "closed"
    /\ customer[c].until < retention_from(customer[c].exit)

ExtendSelect(s) ==
    /\ rreq[s].phase = "idle" /\ \E c \in Customers : Extendable(c)
    /\ rreq' = [rreq EXCEPT ![s] = [phase |-> "extend", customer |-> None,
                                    todo |-> {c \in Customers : Extendable(c)}]]
    /\ UNCHANGED <<customer, year>>

Rest(s, c) == IF rreq[s].todo = {c} THEN NoTask
              ELSE [rreq[s] EXCEPT !.todo = @ \ {c}, !.customer = None]

extend_closed_retention(s, c) ==
    /\ rreq[s].phase = "extend" /\ c \in rreq[s].todo
    /\ customer' = IF Exists(c) THEN [customer EXCEPT ![c].until = retention_from(customer[c].exit)]
                   ELSE customer
    /\ rreq' = [rreq EXCEPT ![s] = Rest(s, c)]
    /\ UNCHANGED year

\* Mutation: the stored date alone decides.
NeverInside(row) == FALSE
\* A closed row has its exit date: _backfill_exit_date fills in what older releases left NULL.
_inside_policy_window(row) == retention_from(row.exit) >= year

\* _purge_blockers
Blocked(row) == row.draft \/ row.work

Expired(c) ==
    /\ customer[c].status = "closed" /\ customer[c].until < year
    /\ ~_inside_policy_window(customer[c]) /\ ~Blocked(customer[c])

PurgeSelect(s) ==
    /\ rreq[s].phase = "idle" /\ \E c \in Customers : Expired(c)
    /\ rreq' = [rreq EXCEPT ![s] = [phase |-> "purge", customer |-> None,
                                    todo |-> {c \in Customers : Expired(c)}]]
    /\ UNCHANGED <<customer, year>>

PurgeFiles(s, c) ==
    /\ rreq[s].phase = "purge" /\ rreq[s].customer = None /\ c \in rreq[s].todo
    /\ customer' = [customer EXCEPT ![c].files = FALSE]
    /\ rreq' = [rreq EXCEPT ![s].customer = c]
    /\ UNCHANGED year

\* A file that cannot be deleted defers the customer to the next run.
\* Mutation: the loop goes on to the rows.
DeletedAnyway(s, c) == [rreq[s] EXCEPT !.customer = c]
Deferred(s, c) == Rest(s, c)

PurgeFilesFail(s, c) ==
    /\ rreq[s].phase = "purge" /\ rreq[s].customer = None /\ c \in rreq[s].todo
    /\ customer[c].files
    /\ rreq' = [rreq EXCEPT ![s] = Deferred(s, c)]
    /\ UNCHANGED <<customer, year>>

\* All rows of the customer go in one transaction; a file that is left is orphaned.
PurgeRows(s) ==
    LET c == rreq[s].customer IN
    /\ rreq[s].phase = "purge" /\ c # None
    /\ customer' = [customer EXCEPT ![c] = [Absent EXCEPT !.status = "purged",
                                                          !.files = customer[c].files]]
    /\ rreq' = [rreq EXCEPT ![s] = Rest(s, c)]
    /\ UNCHANGED year

TaskDies(s) ==
    /\ rreq[s].phase # "idle"
    /\ rreq' = [rreq EXCEPT ![s] = NoTask]
    /\ UNCHANGED <<customer, year>>

NewYear ==
    /\ year < MaxYear
    /\ year' = year + 1
    /\ UNCHANGED <<customer, rreq>>

RequestStep(s) ==
    \/ \E c \in Customers : CloseRead(s, c) \/ ReactivateRead(s, c) \/ SubmitRead(s, c) \/ UploadRead(s, c)
    \/ close_relationship(s) \/ reactivate_customer(s) \/ report_submit(s)
    \/ UploadStore(s) \/ UploadRow(s)

ScriptStep(s) ==
    \/ ExtendSelect(s) \/ PurgeSelect(s) \/ PurgeRows(s) \/ TaskDies(s)
    \/ \E c \in Customers :
           extend_closed_retention(s, c) \/ PurgeFiles(s, c) \/ PurgeFilesFail(s, c)

RetentionNext ==
    \/ NewYear
    \/ \E s \in Slots : RequestStep(s) \/ ScriptStep(s)
    \/ \E c \in Customers :
          \/ onboard(c) \/ save_report(c) \/ Work(c)
          \/ \E date \in {1, year, year + 1}, alerted \in BOOLEAN : record_transaction(c, date, alerted)

RetentionSpec == RetentionInit /\ [][RetentionNext]_retentionVars

-------------------------------------------------------------------------------
\* Properties

\* Types of the rows and of the requests.
RetentionTypeOK ==
    /\ customer \in [Customers -> Customer]
    /\ year \in 1..MaxYear
    /\ rreq \in [Slots -> [phase : {"idle", "close", "reactivate", "submit", "store", "row", "extend",
                                    "purge"},
                           customer : Customers \cup {None}, todo : SUBSET Customers]]

\* While requests and scripts do not overlap, the purge deletes only a customer whose
\* relationship has ended, without open work, and RETENTION_YEARS after the end, the
\* last transaction and the last submitted report, whatever was closed, reactivated
\* or recorded late before; of older releases, for closed customers without either.
PurgedInTime ==
    [][\A c \in Customers :
           LET row == customer[c] IN
           customer'[c].status = "purged" /\ row.status # "purged" =>
               /\ row.status = "closed" /\ ~Blocked(row)
               /\ \A date \in {row.exit, row.transaction, row.report} :
                      date # 0 => retention_from(date) < year]_retentionVars

\* While requests and scripts do not overlap, no document that has a row outlives
\* its customer's rows, although files and rows go in separate steps that fail and die.
NoOrphanedFile == \A c \in Customers : customer[c].status = "purged" => ~customer[c].files

\* While requests and scripts do not overlap, the date of a customer only moves on,
\* except that a reactivation forgets a transaction dated in the future.
OnlyExtended ==
    [][\A c \in Customers :
           Exists(c) /\ Exists(c)' /\ customer'[c].until < customer[c].until
               => customer'[c].status = "active" /\ customer[c].transaction > year]_retentionVars
===============================================================================
