--------------------------- MODULE FreezeObligation ---------------------------
(***************************************************************************)
(* The freeze obligation of a confirmed UN / UAE-list match, its report to *)
(* the regulator (CNMR) and the hourly overdue check: cases/manager.py,    *)
(* cases/freeze.py, cases/reports.py and the report submit routes.         *)
(*                                                                         *)
(* As in AlertReview, a request reads in autocommit, statement by          *)
(* statement, and writes in one transaction at its end.                    *)
(***************************************************************************)
EXTENDS Integers, FiniteSets

CONSTANTS
    Freezes,     \* obligation rows
    Foreign,     \* obligations a former release raised from an OFAC/EU/UK alert
    Reports,     \* report rows
    Generic,     \* reports made with the generic form (STR/SAR), not CNMRs
    Slots,       \* requests in flight
    Jobs,        \* overdue checks that may run at the same time
    None         \* SQL NULL

ASSUME FreezeAssumption == Foreign \subseteq Freezes /\ Generic \subseteq Reports
ASSUME NullAssumption == None \notin Freezes /\ None \notin Reports

VARIABLES
    freeze,      \* freeze[f]: the row of freeze_obligations
    linked,      \* linked[f]: alert_id is set; the alert is a confirmed true positive
    report,      \* report[r]: the row of reports
    aged,        \* obligations identified more than 24 hours ago
    mlro,        \* the organisation has an active MLRO
    req,         \* req[s]: the request in slot s
    job,         \* job[j]: the overdue check j
    emails,      \* history: alerts mailed for each obligation, 2 stands for "more"
    lostMark     \* history: obligations whose mail went out unrecorded

rows == <<freeze, linked, report>>
vars == <<rows, aged, mlro, req, job, emails, lostMark>>

-------------------------------------------------------------------------------
\* Vocabulary

Reasons == {"delisted", "false_positive", "authority_clearance"}

FreezeRow == [status : {"none", "pending_execution", "executed_pending_report",
                        "reported", "resolved"},
              executed : BOOLEAN,                \* executed_at is set
              report : Reports \cup {None},      \* report_id
              notified : BOOLEAN,                \* overdue_notified_at is set
              reason : Reasons \cup {None}]      \* resolution_reason

\* 'freeze' is the obligation that a CNMR was drafted for; the link itself is report_id.
\* No property tells payloads apart.
ReportRow == [status : {"none", "draft", "submitted"}, freeze : Freezes \cup {None}]

Request == [phase : {"idle", "execute", "resolve", "resolveReport", "file", "finalise", "save"},
            freeze : Freezes \cup {None}, report : Reports \cup {None},
            reason : Reasons \cup {None}]
NoRequest == [phase |-> "idle", freeze |-> None, report |-> None, reason |-> None]

Job == [phase : {"idle", "run", "sent"}, todo : SUBSET Freezes, current : Freezes \cup {None}]
NoJob == [phase |-> "idle", todo |-> {}, current |-> None]

-------------------------------------------------------------------------------
\* What the handlers check

\* sanctions_scope: an obligation with no linked alert counts as in scope.
freeze_obligation_in_scope(f) == linked[f] => f \notin Foreign

MayExecute(f) == ~freeze[f].executed /\ freeze[f].status \notin {"none", "resolved"}

\* Mutation: any reason may close an obligation that was never executed.
MayResolveUnexecuted(f, reason) ==
    /\ freeze[f].status \notin {"none", "resolved"}
    /\ reason = "false_positive" => ~linked[f]
MayResolve(f, reason) ==
    /\ freeze[f].status \notin {"none", "resolved"}
    /\ reason # "false_positive" => freeze[f].executed
    /\ reason = "false_positive" => ~linked[f]

\* Mutation: a draft CNMR does not stand in the way of closing.
NeverDraftLinked(f) == FALSE
DraftLinked(f) == freeze[f].report # None /\ report[freeze[f].report].status = "draft"

\* report_finalize_error and the edit check of save_report.
IsDraft(r) == report[r].status = "draft"

-------------------------------------------------------------------------------
Init ==
    /\ freeze = [f \in Freezes |->
           [status |-> IF f \in Foreign THEN "pending_execution" ELSE "none",
            executed |-> FALSE, report |-> None, notified |-> FALSE, reason |-> None]]
    /\ linked = [f \in Freezes |-> f \in Foreign]
    /\ report = [r \in Reports |->
           [status |-> IF r \in Generic THEN "draft" ELSE "none", freeze |-> None]]
    /\ aged = {}
    /\ mlro \in BOOLEAN
    /\ req = [s \in Slots |-> NoRequest]
    /\ job = [j \in Jobs |-> NoJob]
    /\ emails = [f \in Freezes |-> 0]
    /\ lostMark = {}

Begin(s, phase, f, r, reason) ==
    /\ req[s].phase = "idle"
    /\ req' = [req EXCEPT ![s] =
           [phase |-> phase, freeze |-> f, report |-> r, reason |-> reason]]
    /\ UNCHANGED <<rows, aged, mlro, job, emails, lostMark>>

Finish(s) == req' = [req EXCEPT ![s] = NoRequest]

\* create_freeze_obligation, in the transaction that confirms the alert.
Identify(f) ==
    /\ freeze[f].status = "none"
    /\ freeze' = [freeze EXCEPT ![f].status = "pending_execution"]
    /\ linked' = [linked EXCEPT ![f] = TRUE]
    /\ UNCHANGED <<report, aged, mlro, req, job, emails, lostMark>>

\* The list refresh deletes the entity; the cascade sets alert_id to NULL.
Delist(f) ==
    /\ linked[f]
    /\ linked' = [linked EXCEPT ![f] = FALSE]
    /\ UNCHANGED <<freeze, report, aged, mlro, req, job, emails, lostMark>>

\* execute_freeze: SELECT status, executed_at; then an UPDATE by id alone.
ExecuteCheck(s, f) == MayExecute(f) /\ Begin(s, "execute", f, None, None)

ExecuteCommit(s) ==
    LET f == req[s].freeze
    IN  /\ req[s].phase = "execute"
        /\ freeze' = [freeze EXCEPT ![f].status = "executed_pending_report", ![f].executed = TRUE]
        /\ Finish(s)
        /\ UNCHANGED <<linked, report, aged, mlro, job, emails, lostMark>>

\* resolve_freeze_obligation: SELECT the obligation and its alert, SELECT the
\* linked report, then an UPDATE guarded by status != 'resolved'.
ResolveCheck(s, f, reason) == MayResolve(f, reason) /\ Begin(s, "resolve", f, None, reason)

ResolveReadReport(s) ==
    /\ req[s].phase = "resolve"
    /\ IF DraftLinked(req[s].freeze) THEN Finish(s)
       ELSE req' = [req EXCEPT ![s].phase = "resolveReport"]
    /\ UNCHANGED <<rows, aged, mlro, job, emails, lostMark>>

ResolveCommit(s) ==
    LET f == req[s].freeze
    IN  /\ req[s].phase = "resolveReport"
        /\ freeze' = IF freeze[f].status = "resolved" THEN freeze ELSE
               [freeze EXCEPT ![f].status = "resolved", ![f].reason = req[s].reason]
        /\ Finish(s)
        /\ UNCHANGED <<linked, report, aged, mlro, job, emails, lostMark>>

\* file_ffr_report: hands back the linked report, else drafts one and links it.
FileCheck(s, f) ==
    /\ freeze_obligation_in_scope(f)
    /\ freeze[f].status = "executed_pending_report"
    /\ freeze[f].report = None
    /\ Begin(s, "file", f, None, None)

\* Mutation: drafting the report marks the freeze reported, as before #385.
FileCommitReported(s) ==
    LET f == req[s].freeze
    IN  /\ req[s].phase = "file"
        /\ \E r \in Reports :
              /\ report[r].status = "none"
              /\ report' = [report EXCEPT ![r] =
                     [status |-> "draft", freeze |-> f]]
              /\ freeze' = [freeze EXCEPT ![f].report = r, ![f].status = "reported"]
        /\ Finish(s)
        /\ UNCHANGED <<linked, aged, mlro, job, emails, lostMark>>
FileCommit(s) ==
    LET f == req[s].freeze
    IN  /\ req[s].phase = "file"
        /\ \E r \in Reports :
              /\ report[r].status = "none"
              /\ report' = [report EXCEPT ![r] =
                     [status |-> "draft", freeze |-> f]]
              /\ freeze' = [freeze EXCEPT ![f].report = r]
        /\ Finish(s)
        /\ UNCHANGED <<linked, aged, mlro, job, emails, lostMark>>

\* mark_freeze_reported, in the transaction that finalises the report.
\* Mutation: the freeze is given the status of the report.
MarkAsReport(r) ==
    [f \in Freezes |->
        IF freeze[f].report = r /\ freeze[f].status = "executed_pending_report"
        THEN [freeze[f] EXCEPT !.status = "submitted"] ELSE freeze[f]]
mark_freeze_reported(r) ==
    [f \in Freezes |->
        IF freeze[f].report = r /\ freeze[f].status = "executed_pending_report"
        THEN [freeze[f] EXCEPT !.status = "reported"] ELSE freeze[f]]

\* report_submit
FinaliseCheck(s, r) == IsDraft(r) /\ Begin(s, "finalise", None, r, None)

FinaliseCommit(s) ==
    LET r == req[s].report
    IN  /\ req[s].phase = "finalise"
        /\ report' = [report EXCEPT ![r].status = "submitted"]
        /\ freeze' = mark_freeze_reported(r)
        /\ Finish(s)
        /\ UNCHANGED <<linked, aged, mlro, job, emails, lostMark>>

\* save_report on an existing report, be it of the generic form or a CNMR: status check,
\* then an UPDATE by id alone, which replaces the payload and touches neither status nor link.
SaveCheck(s, r) == IsDraft(r) /\ Begin(s, "save", None, r, None)

SaveCommit(s) ==
    /\ req[s].phase = "save"
    /\ Finish(s)
    /\ UNCHANGED <<rows, aged, mlro, job, emails, lostMark>>

\* The worker dies, or the write is abandoned after the busy timeout.
Abort(s) ==
    /\ req[s].phase # "idle"
    /\ Finish(s)
    /\ UNCHANGED <<rows, aged, mlro, job, emails, lostMark>>

-------------------------------------------------------------------------------
\* check_unexecuted_freeze_obligations

Overdue(f) ==
    freeze[f].status = "pending_execution" /\ f \in aged /\ freeze_obligation_in_scope(f)

Tick(f) ==
    /\ freeze[f].status # "none" /\ f \notin aged
    /\ aged' = aged \cup {f}
    /\ UNCHANGED <<rows, mlro, req, job, emails, lostMark>>

\* An administrator deactivates the last MLRO, or activates one.
ChangeMlro ==
    /\ mlro' = ~mlro
    /\ UNCHANGED <<rows, aged, req, job, emails, lostMark>>

\* SELECT the overdue obligations not yet alerted, and the MLRO to mail to.
\* Mutation: obligations already alerted are mailed again by every run.
ToNotifyAll == {f \in Freezes : Overdue(f)}
ToNotify == {f \in ToNotifyAll : ~freeze[f].notified}

JobSelect(j) ==
    /\ job[j].phase = "idle" /\ mlro /\ ToNotify # {}
    /\ job' = [job EXCEPT ![j] = [phase |-> "run", todo |-> ToNotify, current |-> None]]
    /\ UNCHANGED <<rows, aged, mlro, req, emails, lostMark>>

\* Back to the loop over what is left, or the end of the run.
JobNext(j, left) ==
    job' = [job EXCEPT ![j] = IF left = {} THEN NoJob ELSE
               [phase |-> "run", todo |-> left, current |-> None]]

\* The write lock was free a moment ago; the mail is sent.
JobSend(j, f) ==
    /\ job[j].phase = "run" /\ f \in job[j].todo
    /\ emails' = [emails EXCEPT ![f] = IF @ < 2 THEN @ + 1 ELSE @]
    /\ job' = [job EXCEPT ![j] = [phase |-> "sent", todo |-> @.todo \ {f}, current |-> f]]
    /\ UNCHANGED <<rows, aged, mlro, req, lostMark>>

\* The mail server refuses, or is not configured: nothing is recorded.
\* Mutation: the obligation is marked whatever became of the mail.
JobSendFailedMarked(j, f) ==
    /\ job[j].phase = "run" /\ f \in job[j].todo
    /\ freeze' = [freeze EXCEPT ![f].notified = TRUE]
    /\ JobNext(j, job[j].todo \ {f})
    /\ UNCHANGED <<linked, report, aged, mlro, req, emails, lostMark>>
JobSendFailed(j, f) ==
    /\ job[j].phase = "run" /\ f \in job[j].todo
    /\ JobNext(j, job[j].todo \ {f})
    /\ UNCHANGED <<rows, aged, mlro, req, emails, lostMark>>

\* UPDATE overdue_notified_at, by id alone.
JobMark(j) ==
    /\ job[j].phase = "sent"
    /\ freeze' = [freeze EXCEPT ![job[j].current].notified = TRUE]
    /\ JobNext(j, job[j].todo)
    /\ UNCHANGED <<linked, report, aged, mlro, req, emails, lostMark>>

\* The database is locked when the mail has already gone.
JobMarkFailed(j) ==
    /\ job[j].phase = "sent"
    /\ lostMark' = lostMark \cup {job[j].current}
    /\ JobNext(j, job[j].todo)
    /\ UNCHANGED <<rows, aged, mlro, req, emails>>

\* The lock probe fails and ends the run, or the process dies.
JobStop(j) ==
    /\ job[j].phase # "idle"
    /\ lostMark' = IF job[j].phase = "sent" THEN lostMark \cup {job[j].current} ELSE lostMark
    /\ job' = [job EXCEPT ![j] = NoJob]
    /\ UNCHANGED <<rows, aged, mlro, req, emails>>

-------------------------------------------------------------------------------
\* The routes of api/routers/freeze.py; a generic report is edited and submitted
\* beside them.
freeze_obligation_execute(s) == (\E f \in Freezes : ExecuteCheck(s, f)) \/ ExecuteCommit(s)

freeze_obligation_file_ffr(s) == (\E f \in Freezes : FileCheck(s, f)) \/ FileCommit(s)

freeze_obligation_resolve(s) ==
    \/ \E f \in Freezes, reason \in Reasons : ResolveCheck(s, f, reason)
    \/ ResolveReadReport(s) \/ ResolveCommit(s)

RequestNext ==
    \E s \in Slots :
       \/ freeze_obligation_execute(s) \/ freeze_obligation_file_ffr(s)
       \/ freeze_obligation_resolve(s)
       \/ \E r \in Reports : FinaliseCheck(s, r) \/ SaveCheck(s, r)
       \/ FinaliseCommit(s) \/ SaveCommit(s) \/ Abort(s)

JobStep(j) ==
    \/ JobMark(j) \/ JobMarkFailed(j) \/ JobStop(j)
    \/ \E f \in Freezes : JobSend(j, f) \/ JobSendFailed(j, f)

run_freeze_obligation_check(j) == JobSelect(j) \/ JobStep(j)

Next ==
    \/ RequestNext
    \/ \E f \in Freezes : Identify(f) \/ Delist(f) \/ Tick(f)
    \/ ChangeMlro
    \/ \E j \in Jobs : run_freeze_obligation_check(j)

Spec == Init /\ [][Next]_vars

\* Cloud Scheduler calls the check every hour and a run that has begun goes on;
\* a mail tried again and again is delivered in the end.  Nothing is assumed of
\* operators, of the MLRO's account or of the clock.
FairSpec ==
    /\ Spec
    /\ \A j \in Jobs : WF_vars(JobSelect(j)) /\ WF_vars(JobStep(j))
    /\ \A f \in Freezes : SF_vars(\E j \in Jobs : JobSend(j, f))

-------------------------------------------------------------------------------
\* Properties

\* Every variable has its type.
TypeOK ==
    /\ freeze \in [Freezes -> FreezeRow]
    /\ linked \in [Freezes -> BOOLEAN]
    /\ report \in [Reports -> ReportRow]
    /\ aged \subseteq Freezes
    /\ mlro \in BOOLEAN
    /\ req \in [Slots -> Request]
    /\ job \in [Jobs -> Job]
    /\ emails \in [Freezes -> 0..2]
    /\ lostMark \subseteq Freezes

\* However the requests interleave, the end of an obligation has its grounds: one
\* closed as anything but a false positive had been executed, one closed as a false
\* positive is not the obligation of an alert still confirmed, and one is 'reported'
\* only when a report of this very freeze was submitted, whichever is linked now.
EndedWithGrounds ==
    \A f \in Freezes :
        /\ freeze[f].reason # None =>
              IF freeze[f].reason = "false_positive" THEN ~linked[f] ELSE freeze[f].executed
        /\ freeze[f].status = "reported" =>
              \E r \in Reports : report[r].freeze = f /\ report[r].status = "submitted"

\* A freeze and its CNMR never disagree (cases/freeze.py): there is one CNMR per
\* freeze, a freeze is 'reported' only with its linked report submitted, and one that
\* waits for its report is not linked to a submitted one.  Holds when requests do not
\* overlap.
FreezeAgreesWithCNMR ==
    /\ \A f \in Freezes :
          LET filed == freeze[f].report # None /\ report[freeze[f].report].status = "submitted"
          IN  /\ freeze[f].status = "reported" => filed
              /\ freeze[f].status = "executed_pending_report" => ~filed
    /\ \A p, q \in Reports :
          report[p].freeze # None /\ report[p].freeze = report[q].freeze => p = q

\* The obligations move through the workflow promised in FreezeLifecycle, for
\* requests that do not overlap.
Lifecycle == INSTANCE FreezeLifecycle WITH
    stage <- [f \in Freezes |-> freeze[f].status],
    cnmr <- [f \in Freezes |->
        IF freeze[f].report = None THEN "none" ELSE report[freeze[f].report].status]
LifecycleSpec == Lifecycle!Spec

\* The MLRO is mailed once per obligation, unless a mail went out that could not be
\* recorded; nothing is marked as mailed that was not; and an obligation of an
\* OFAC/EU/UK alert is not mailed about while that alert is there.
MailedOnce ==
    \A f \in Freezes :
        /\ emails[f] > 1 => f \in lostMark
        /\ freeze[f].notified => emails[f] > 0
        /\ f \in Foreign /\ emails[f] > 0 => ~linked[f]

\* If from some time on there is an MLRO, every overdue obligation is mailed
\* about, unless it is executed or closed first.
OverdueIsMailed ==
    <>[]mlro => \A f \in Freezes : Overdue(f) ~> (emails[f] > 0 \/ ~Overdue(f))
===============================================================================
