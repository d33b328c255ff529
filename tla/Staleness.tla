------------------------------- MODULE Staleness -------------------------------
(***************************************************************************)
(* The daily refresh job (api/routers/system.py) and its last steps: the   *)
(* alert about mandatory lists that are older than the law allows          *)
(* (cases/scheduler.py) and the clean-up of applications that follows.     *)
(*                                                                         *)
(* What a refresh does to entries and customers is in Screening; here a    *)
(* list is only fresh or overdue.  One job runs at a time and may die      *)
(* between any two of its steps.                                           *)
(***************************************************************************)
EXTENDS FiniteSets

CONSTANTS
    Lists,       \* the rows of datasets with is_mandatory
    SmtpSettings \* possible answers to: is SMTP configured?

ASSUME StalenessAssumption == Lists # {} /\ SmtpSettings \subseteq BOOLEAN

VARIABLES
    overdue,     \* lists whose last refresh is older than max_age_hours
    notified,    \* lists with staleness_notified_at
    announced,   \* history: lists an alert went out about since they fell overdue
    smtp,        \* AMLKIT_SMTP_HOST is set
    mlros,       \* some active organisation has an active MLRO with an address
    expired,     \* an application is past its retention
    job          \* the refresh in progress

stalenessVars == <<overdue, notified, announced, smtp, mlros, expired, job>>

-------------------------------------------------------------------------------
\* Vocabulary

NoJob == [phase |-> "idle", lists |-> {}]

\* What the report says of a list, and what the mail says of it.
ReportFields == {"key", "title", "mandatory", "entities", "hours_since_refresh",
                 "max_age_hours", "breach"}
MailFields == {"title", "last_refresh", "hours_ago"}

\* A field that is missing raises KeyError, before the try of the mail server.
AlertRaises == smtp /\ ~(MailFields \subseteq ReportFields)

\* In breach and not announced yet.
needs_notification == overdue \ notified

-------------------------------------------------------------------------------
StalenessInit ==
    /\ overdue = {} /\ notified = {} /\ announced = {}
    /\ smtp \in SmtpSettings
    /\ mlros = TRUE
    /\ expired = FALSE
    /\ job = NoJob

system_refresh ==
    /\ job = NoJob
    /\ job' = [phase |-> "refresh", lists |-> Lists]
    /\ UNCHANGED <<overdue, notified, announced, smtp, mlros, expired>>

\* A list that loads is fresh; its mark stays.
ListLoaded(d) ==
    /\ job.phase = "refresh" /\ d \in job.lists
    /\ job' = [job EXCEPT !.lists = @ \ {d}]
    /\ overdue' = overdue \ {d}
    /\ UNCHANGED <<notified, announced, smtp, mlros, expired>>

ListFailed(d) ==
    /\ job.phase = "refresh" /\ d \in job.lists
    /\ job' = [job EXCEPT !.lists = @ \ {d}]
    /\ UNCHANGED <<overdue, notified, announced, smtp, mlros, expired>>

\* check_and_notify_staleness reads the report.  Marks go only when nothing is overdue.
Checked(phase, lists) ==
    /\ job.phase = "refresh" /\ job.lists = {}
    /\ job' = [phase |-> phase, lists |-> lists]
    /\ UNCHANGED <<overdue, announced, smtp, mlros, expired>>

NoBreach == overdue = {} /\ Checked("purge", {}) /\ notified' = {}

NothingToSay ==
    /\ overdue # {} /\ (needs_notification = {} \/ ~mlros)
    /\ Checked("purge", {}) /\ UNCHANGED notified

NewBreach ==
    /\ needs_notification # {} /\ mlros
    /\ Checked("mail", needs_notification) /\ UNCHANGED notified

\* Printed to the console without SMTP; a mail the server refuses counts as sent.
send_staleness_alert ==
    /\ job.phase = "mail" /\ ~AlertRaises
    /\ \E sent \in IF smtp THEN BOOLEAN ELSE {TRUE} :
          announced' = IF sent THEN announced \cup job.lists ELSE announced
    /\ job' = [job EXCEPT !.phase = "mark"]
    /\ UNCHANGED <<overdue, notified, smtp, mlros, expired>>

\* Nothing between the alert and the request catches the error: status 500.
AlertFails ==
    /\ job.phase = "mail" /\ AlertRaises
    /\ job' = NoJob
    /\ UNCHANGED <<overdue, notified, announced, smtp, mlros, expired>>

MarkNotified ==
    /\ job.phase = "mark"
    /\ notified' = notified \cup job.lists
    /\ job' = [phase |-> "purge", lists |-> {}]
    /\ UNCHANGED <<overdue, announced, smtp, mlros, expired>>

purge_applications ==
    /\ job.phase = "purge"
    /\ expired' = FALSE
    /\ job' = NoJob
    /\ UNCHANGED <<overdue, notified, announced, smtp, mlros>>

\* Its failure is logged and swallowed.
PurgeFails ==
    /\ job.phase = "purge"
    /\ job' = NoJob
    /\ UNCHANGED <<overdue, notified, announced, smtp, mlros, expired>>

JobDies ==
    /\ job # NoJob
    /\ job' = NoJob
    /\ UNCHANGED <<overdue, notified, announced, smtp, mlros, expired>>

\* The clock passes max_age_hours of a list.
FallsOverdue(d) ==
    /\ d \notin overdue
    /\ overdue' = overdue \cup {d}
    /\ announced' = announced \ {d}
    /\ UNCHANGED <<notified, smtp, mlros, expired, job>>

ApplicationExpires ==
    /\ ~expired /\ expired' = TRUE
    /\ UNCHANGED <<overdue, notified, announced, smtp, mlros, job>>

MlroChanges ==
    /\ mlros' = ~mlros
    /\ UNCHANGED <<overdue, notified, announced, smtp, expired, job>>

CheckStep == NoBreach \/ NothingToSay \/ NewBreach

JobStep ==
    \/ \E d \in Lists : ListLoaded(d) \/ ListFailed(d)
    \/ CheckStep \/ send_staleness_alert \/ AlertFails \/ MarkNotified
    \/ purge_applications \/ PurgeFails \/ JobDies

StalenessNext ==
    \/ system_refresh \/ JobStep
    \/ \E d \in Lists : FallsOverdue(d)
    \/ ApplicationExpires \/ MlroChanges

StalenessSpec == StalenessInit /\ [][StalenessNext]_stalenessVars

\* Cloud Scheduler calls again and again, and of the calls that get as far as a step
\* not every one dies there.
StalenessFair ==
    /\ StalenessSpec
    /\ SF_stalenessVars(system_refresh)
    /\ \A d \in Lists : SF_stalenessVars(ListLoaded(d) \/ ListFailed(d))
    /\ SF_stalenessVars(CheckStep) /\ SF_stalenessVars(NewBreach)
    /\ SF_stalenessVars(send_staleness_alert) /\ SF_stalenessVars(AlertFails)
    /\ SF_stalenessVars(MarkNotified)
    /\ SF_stalenessVars(purge_applications \/ PurgeFails)

-------------------------------------------------------------------------------
\* Properties

\* Types of the rows and of the job.
StalenessTypeOK ==
    /\ overdue \subseteq Lists /\ notified \subseteq Lists /\ announced \subseteq Lists
    /\ smtp \in BOOLEAN /\ mlros \in BOOLEAN /\ expired \in BOOLEAN
    /\ job.phase \in {"idle", "refresh", "mail", "mark", "purge"} /\ job.lists \subseteq Lists

\* While there is an MLRO to write to, a mandatory list that stays overdue is in the end
\* announced (cases/scheduler.py: "send email alerts if needed").
EveryBreachIsAnnounced ==
    \A d \in Lists : d \in overdue ~> (d \in announced \/ d \notin overdue \/ ~mlros)
===============================================================================
