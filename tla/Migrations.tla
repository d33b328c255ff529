------------------------------- MODULE Migrations -------------------------------
(***************************************************************************)
(* Opening a database of an older version: _initialise of db.py, which     *)
(* every process (the server, a script) runs on its first connection.      *)
(*                                                                         *)
(* sqlite3 opens a transaction at the first INSERT or UPDATE and not at a  *)
(* CREATE or ALTER: a statement of the schema commits by itself unless it  *)
(* follows a row that the same connection wrote.  load_fatf_data commits   *)
(* half way.  One connection writes at a time and a crash loses what it    *)
(* has not committed.                                                      *)
(***************************************************************************)
EXTENDS Naturals, FiniteSets

CONSTANT Starters   \* processes that open the database

VARIABLES
    store,    \* the database as committed
    draft,    \* the database as the connection in transaction sees it
    writer,   \* the connection in transaction: a set of at most one
    boot      \* boot[p]: where process p is, and what it has read of the schema

migrationVars == <<store, draft, writer, boot>>

-------------------------------------------------------------------------------
\* Vocabulary

\* What the versions differ in.  'email' and 'org_id' are the rebuilt tables, 'rebuild'
\* the table operators_new; 'kept' is the retention of the customers of before: none, under an
\* older rule, or as the rule of today demands; 'orgs' counts the organisations with
\* the slug of the migration, 'links' its setup tokens; 'unfiled' says that a reported
\* freeze has a CNMR draft.  'owned' is about the customers and their records, 'staffed'
\* about the operators: they have the organisation, and with it the address and password,
\* that tenancy brought them.  'verified' says that nobody who has a password lacks a
\* verified address.  'twice' is history: operators was rebuilt after it had been before.
Store == [email : BOOLEAN, rebuild : BOOLEAN, org_id : BOOLEAN,
          email_verified_at : BOOLEAN, exit_date : BOOLEAN, verified : BOOLEAN,
          closed : BOOLEAN, exited : BOOLEAN, kept : {"none", "shorter", "ruled"},
          orgs : 0..2, owned : BOOLEAN, staffed : BOOLEAN, twice : BOOLEAN, links : 0..2,
          unfiled : BOOLEAN, extended_marker : BOOLEAN, cnmr_marker : BOOLEAN]

\* What a database of a version can hold.
Aged(v) ==
    {[v EXCEPT !.closed = past.closed, !.kept = past.kept, !.unfiled = past.unfiled] :
        past \in [closed : BOOLEAN, kept : {"none", "shorter"}, unfiled : {FALSE, v.owned}]}

\* Before tenancy; before the verification of e-mail addresses; with that.
Versions ==
    LET old == [email |-> FALSE, rebuild |-> FALSE, org_id |-> FALSE,
                email_verified_at |-> FALSE, exit_date |-> FALSE, verified |-> FALSE,
                closed |-> FALSE, exited |-> FALSE, kept |-> "none", orgs |-> 0,
                owned |-> FALSE, staffed |-> FALSE, twice |-> FALSE, links |-> 0,
                unfiled |-> FALSE, extended_marker |-> FALSE, cnmr_marker |-> FALSE]
        tenants == [old EXCEPT !.email = TRUE, !.org_id = TRUE, !.owned = TRUE,
                               !.staffed = TRUE, !.orgs = 1]
    IN  UNION {Aged(old), Aged(tenants),
               Aged([tenants EXCEPT !.email_verified_at = TRUE, !.verified = TRUE])}

BootStages == {"down", "operators", "create", "copy", "customers", "before", "verify column",
           "alter verify", "exit column", "alter exit", "email", "fill", "fatf",
           "tenancy", "assign", "extend", "finalise", "commit", "up"}

\* Mutation: the dates are extended before the dates of exit are filled.
EarlyNext == [s \in {"email", "fill", "fatf", "tenancy", "extend", "finalise"} |->
    CASE s = "email" -> "extend" [] s = "extend" -> "fill" [] s = "fill" -> "fatf"
      [] s = "fatf" -> "tenancy" [] s = "tenancy" -> "finalise" [] OTHER -> "commit"]
\* The order of the passes over the rows.
_initialise == [s \in {"email", "fill", "fatf", "tenancy", "extend", "finalise"} |->
    CASE s = "email" -> "fill" [] s = "fill" -> "fatf" [] s = "fatf" -> "tenancy"
      [] s = "tenancy" -> "extend" [] s = "extend" -> "finalise" [] OTHER -> "commit"]

\* Between the new column and the commit of what fills it; died is history: a process
\* that died there.
BootRow == [at : BootStages, unverified : BOOLEAN, died : BOOLEAN]
Down == [at |-> "down", unverified |-> FALSE, died |-> FALSE]
Owes(row) == row.unverified /\ row.at \in {"exit column", "alter exit", "email", "fill", "fatf"}

View(p) == IF p \in writer THEN draft ELSE store
GoOn(p, stage) == boot' = [boot EXCEPT ![p].at = stage]
Stays == UNCHANGED <<store, draft, writer>>

\* A statement of the schema: it waits for a transaction of another connection.
WriteSchema(p, new) ==
    IF p \in writer THEN draft' = new /\ UNCHANGED <<store, writer>>
    ELSE writer = {} /\ store' = new /\ UNCHANGED <<draft, writer>>

\* A statement on rows begins the transaction.
WriteRows(p, new) ==
    /\ writer \subseteq {p}
    /\ draft' = new /\ writer' = {p}
    /\ UNCHANGED store

Commit(p) == /\ store' = View(p)
             /\ writer' = writer \ {p}
             /\ UNCHANGED draft

\* The process dies, a statement fails, or a lock is waited for too long.
Dies(p) ==
    /\ boot[p].at # "down"
    /\ boot' = [boot EXCEPT ![p] = [Down EXCEPT !.died = boot[p].died \/ Owes(boot[p])]]
    /\ writer' = writer \ {p}
    /\ UNCHANGED <<store, draft>>

-------------------------------------------------------------------------------
MigrationInit ==
    /\ store \in Versions
    /\ draft = store
    /\ writer = {}
    /\ boot = [p \in Starters |-> Down]

\* The first connection of a process creates the tables that are missing; a running
\* process starts over when another one has changed the schema.
connect(p) ==
    /\ boot[p].at \in {"down", "up"} /\ writer = {}
    /\ GoOn(p, "operators")
    /\ Stays

\* _migrate_operators_table
ReadOperators(p) ==
    /\ boot[p].at = "operators"
    /\ GoOn(p, IF View(p).email THEN "customers" ELSE "create")
    /\ Stays

\* Fails for good where an interrupted start has left the new table behind.
CreateOperatorsNew(p) ==
    /\ boot[p].at = "create" /\ ~View(p).rebuild
    /\ WriteSchema(p, [View(p) EXCEPT !.rebuild = TRUE])
    /\ GoOn(p, "copy")

\* The copy takes five columns that every version has.  A second process that missed
\* 'email' in time copies the table that the first one has rebuilt, and operators lose
\* organisation, address and password.
CopyOperators(p) ==
    /\ boot[p].at = "copy" /\ View(p).rebuild
    /\ WriteRows(p, [View(p) EXCEPT !.rebuild = FALSE, !.email = TRUE,
                            !.twice = @ \/ View(p).email,
                            !.staffed = FALSE, !.email_verified_at = FALSE, !.verified = FALSE])
    /\ GoOn(p, "customers")

\* One version brought both rebuilds: here the transaction is open.
_migrate_customers_table(p) ==
    /\ boot[p].at = "customers"
    /\ IF View(p).org_id THEN Stays
       ELSE WriteRows(p, [View(p) EXCEPT !.org_id = TRUE, !.exit_date = FALSE])
    /\ GoOn(p, "before")

\* What _initialise remembers of the columns of operators.
RememberColumns(p) ==
    /\ boot[p].at = "before"
    /\ boot' = [boot EXCEPT ![p].at = "verify column", ![p].unverified = ~View(p).email_verified_at]
    /\ Stays

\* _migrate looks for a column and adds it.  The second of two processes that miss it
\* fails.
ReadColumn(p) ==
    \/ /\ boot[p].at = "verify column"
       /\ GoOn(p, IF View(p).email_verified_at THEN "exit column" ELSE "alter verify")
       /\ Stays
    \/ /\ boot[p].at = "exit column"
       /\ GoOn(p, IF View(p).exit_date THEN "email" ELSE "alter exit")
       /\ Stays

_migrate(p) ==
    \/ /\ boot[p].at = "alter verify" /\ ~View(p).email_verified_at
       /\ WriteSchema(p, [View(p) EXCEPT !.email_verified_at = TRUE])
       /\ GoOn(p, "exit column")
    \/ /\ boot[p].at = "alter exit" /\ ~View(p).exit_date
       /\ WriteSchema(p, [View(p) EXCEPT !.exit_date = TRUE])
       /\ GoOn(p, "email")

\* Only in the run that has added the column.
_backfill_email_verified(p) ==
    /\ boot[p].at = "email"
    /\ IF boot[p].unverified THEN WriteRows(p, [View(p) EXCEPT !.verified = TRUE]) ELSE Stays
    /\ GoOn(p, _initialise["email"])

\* Retention where there is none, and the date of the exit; nationalities and amounts
\* change no column that a later pass reads.
_backfill_retention_until(p) ==
    /\ boot[p].at = "fill"
    /\ WriteRows(p, [View(p) EXCEPT !.kept = IF @ = "none" THEN "ruled" ELSE @,
                                !.exited = View(p).closed])
    /\ GoOn(p, _initialise["fill"])

load_fatf_data(p) ==
    /\ boot[p].at = "fatf" /\ writer \subseteq {p}
    /\ Commit(p)
    /\ GoOn(p, _initialise["fatf"])

\* _migrate_tenancy_data looks for customers without an organisation, and at nothing else.
FindUnowned(p) ==
    /\ boot[p].at = "tenancy"
    /\ GoOn(p, IF View(p).owned THEN _initialise["tenancy"] ELSE "assign")
    /\ Stays

\* The slug is unique: a second organisation fails.
AssignOrganisation(p) ==
    /\ boot[p].at = "assign" /\ View(p).orgs = 0
    /\ WriteRows(p, [View(p) EXCEPT !.orgs = @ + 1, !.owned = TRUE, !.staffed = TRUE,
                            !.links = @ + 1])
    /\ GoOn(p, _initialise["tenancy"])

\* A row without organisation, or closed without a date of exit, is passed over.
Extended(row) ==
    IF row.owned /\ (row.closed => row.exited) THEN [row EXCEPT !.kept = "ruled"] ELSE row

\* The marker decides who extends, and commits with the work.
_run_retention_extension_once(p) ==
    /\ boot[p].at = "extend"
    /\ IF View(p).extended_marker THEN Stays
       ELSE WriteRows(p, [Extended(View(p)) EXCEPT !.extended_marker = TRUE])
    /\ GoOn(p, _initialise["extend"])

_run_finalise_legacy_cnmr_drafts_once(p) ==
    /\ boot[p].at = "finalise"
    /\ IF View(p).cnmr_marker THEN Stays
       ELSE WriteRows(p, [View(p) EXCEPT !.cnmr_marker = TRUE, !.unfiled = FALSE])
    /\ GoOn(p, _initialise["finalise"])

CommitAll(p) ==
    /\ boot[p].at = "commit"
    /\ Commit(p)
    /\ GoOn(p, "up")

MigrationStep(p) ==
    \/ connect(p) \/ ReadOperators(p) \/ CreateOperatorsNew(p) \/ CopyOperators(p)
    \/ _migrate_customers_table(p) \/ RememberColumns(p) \/ ReadColumn(p) \/ _migrate(p)
    \/ _backfill_email_verified(p) \/ _backfill_retention_until(p) \/ load_fatf_data(p)
    \/ FindUnowned(p) \/ AssignOrganisation(p) \/ _run_retention_extension_once(p)
    \/ _run_finalise_legacy_cnmr_drafts_once(p) \/ CommitAll(p) \/ Dies(p)

MigrationNext == \E p \in Starters : MigrationStep(p)

MigrationSpec == MigrationInit /\ [][MigrationNext]_migrationVars

-------------------------------------------------------------------------------
\* Properties

\* Types of the database and of the processes.
MigrationTypeOK ==
    /\ store \in Store /\ draft \in Store
    /\ writer \subseteq Starters /\ Cardinality(writer) <= 1
    /\ boot \in [Starters -> BootRow]

\* However many processes start, fail and start again in the middle, what is done once
\* is not lost, but for two gaps of the code that this delimits.  The passes with a
\* marker have done their work when it is there to be seen: every customer has its
\* organisation, no date is under the older rule, no reported freeze has a draft; and so
\* have the operators, unless two processes rebuilt their table one after the other.
\* The column of verified addresses has no marker beside it: it is filled, is being
\* filled, or a process died in between, which locks those out who had a password.  The rows
\* of before tenancy get one organisation with one setup link.
UpgradedOnce ==
    /\ store.extended_marker =>
           store.owned /\ store.kept = "ruled" /\ (store.staffed \/ store.twice)
    /\ store.cnmr_marker => ~store.unfiled
    /\ store.email_verified_at =>
           store.verified \/ \E p \in Starters : Owes(boot[p]) \/ boot[p].died
    /\ store.orgs <= 1 /\ store.links <= store.orgs
===============================================================================
