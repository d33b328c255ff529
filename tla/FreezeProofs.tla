------------------------------ MODULE FreezeProofs ------------------------------
(***************************************************************************)
(* Proofs about FreezeObligation for every set of obligations, reports,    *)
(* requests and overdue checks: type correctness, the grounds on which an  *)
(* obligation ends, the mails of the overdue check and, for requests that  *)
(* do not overlap, the agreement of a freeze with its CNMR and the         *)
(* workflow promised in FreezeLifecycle.                                   *)
(***************************************************************************)
EXTENDS FreezeObligation, TLAPS

\* NULL is no row.
USE FreezeAssumption, NullAssumption

-------------------------------------------------------------------------------
\* The actions by what they touch.

\* A request reads, is refused or dies: only what it holds changes.
Reads(s) ==
    \/ \E f \in Freezes :
          ExecuteCheck(s, f) \/ FileCheck(s, f) \/ \E reason \in Reasons : ResolveCheck(s, f, reason)
    \/ \E r \in Reports : FinaliseCheck(s, r) \/ SaveCheck(s, r)
    \/ ResolveReadReport(s) \/ Abort(s)

\* A request commits its transaction and ends.
Commits(s) ==
    ExecuteCommit(s) \/ ResolveCommit(s) \/ FileCommit(s) \/ FinaliseCommit(s) \/ SaveCommit(s)

\* The surroundings, and the overdue check.
Surroundings == (\E f \in Freezes : Identify(f) \/ Delist(f) \/ Tick(f)) \/ ChangeMlro

LEMMA NextSplit ==
    ASSUME Next
    PROVE  \/ \E s \in Slots : Reads(s) \/ Commits(s)
           \/ Surroundings
           \/ \E j \in Jobs : run_freeze_obligation_check(j)
BY Zenon DEF Next, RequestNext, freeze_obligation_execute, freeze_obligation_file_ffr,
             freeze_obligation_resolve, Reads, Commits, Surroundings

-------------------------------------------------------------------------------
\* Type correctness

RowsOK ==
    /\ freeze \in [Freezes -> FreezeRow]
    /\ linked \in [Freezes -> BOOLEAN]
    /\ report \in [Reports -> ReportRow]

\* What a request knows in each of its phases.
Informed(q) ==
    /\ q.phase \in {"execute", "resolve", "resolveReport", "file"} => q.freeze \in Freezes
    /\ q.phase \in {"resolve", "resolveReport"} => q.reason \in Reasons
    /\ q.phase \in {"finalise", "save"} => q.report \in Reports

RequestsOK == req \in [Slots -> Request] /\ \A s \in Slots : Informed(req[s])

Addressed(k) == k.phase = "sent" => k.current \in Freezes

JobsOK == job \in [Jobs -> Job] /\ \A j \in Jobs : Addressed(job[j])

MailOK ==
    /\ aged \subseteq Freezes /\ mlro \in BOOLEAN
    /\ emails \in [Freezes -> 0..2] /\ lostMark \subseteq Freezes

TypeInv == RowsOK /\ RequestsOK /\ JobsOK /\ MailOK

LEMMA NoRequestOK == NoRequest \in Request /\ Informed(NoRequest)
BY DEF NoRequest, Request, Informed

LEMMA NoJobOK == NoJob \in Job /\ Addressed(NoJob)
BY DEF NoJob, Job, Addressed

\* A request moves to a well-formed state of its own and leaves the others alone.
LEMMA StepOK ==
    ASSUME RequestsOK, NEW s \in Slots, NEW q \in Request, Informed(q),
           req' = [req EXCEPT ![s] = q]
    PROVE  RequestsOK'
BY DEF RequestsOK

LEMMA FinishOK ==
    ASSUME RequestsOK, NEW s \in Slots, Finish(s)
    PROVE  RequestsOK'
BY NoRequestOK, StepOK DEF Finish

LEMMA JobStepOK ==
    ASSUME JobsOK, NEW j \in Jobs, NEW k \in Job, Addressed(k), job' = [job EXCEPT ![j] = k]
    PROVE  JobsOK'
BY DEF JobsOK

LEMMA JobNextOK ==
    ASSUME JobsOK, NEW j \in Jobs, NEW left \in SUBSET Freezes, JobNext(j, left)
    PROVE  JobsOK'
<1> DEFINE k == [phase |-> "run", todo |-> left, current |-> None]
<1>1. k \in Job /\ Addressed(k)
  BY DEF Job, Addressed
<1>2. CASE left = {}
  BY <1>2, NoJobOK, JobStepOK DEF JobNext
<1>3. CASE left # {}
  BY <1>1, <1>3, JobStepOK DEF JobNext
<1>4. QED
  BY <1>2, <1>3

LEMMA ReadsStep ==
    ASSUME TypeInv, NEW s \in Slots, Reads(s)
    PROVE  /\ RequestsOK'
           /\ UNCHANGED <<rows, aged, mlro, job, emails, lostMark>>
<1> DEFINE Goal == RequestsOK' /\ UNCHANGED <<rows, aged, mlro, job, emails, lostMark>>
<1>0. req[s] \in Request /\ Informed(req[s]) /\ RequestsOK
  BY DEF TypeInv, RequestsOK
<1>1. ASSUME NEW phase, NEW f, NEW r, NEW reason, Begin(s, phase, f, r, reason),
             [phase |-> phase, freeze |-> f, report |-> r, reason |-> reason] \in Request,
             Informed([phase |-> phase, freeze |-> f, report |-> r, reason |-> reason])
      PROVE  Goal
  BY <1>0, <1>1, StepOK DEF Begin
<1>2. ASSUME NEW f \in Freezes, ExecuteCheck(s, f) \/ FileCheck(s, f)
      PROVE  Goal
  <2>1. CASE ExecuteCheck(s, f)
    BY <1>1, <2>1 DEF ExecuteCheck, Request, Informed
  <2>2. CASE FileCheck(s, f)
    BY <1>1, <2>2 DEF FileCheck, Request, Informed
  <2>3. QED
    BY <1>2, <2>1, <2>2
<1>3. ASSUME NEW f \in Freezes, NEW reason \in Reasons, ResolveCheck(s, f, reason)
      PROVE  Goal
  BY <1>1, <1>3 DEF ResolveCheck, Request, Informed
<1>4. ASSUME NEW r \in Reports, FinaliseCheck(s, r) \/ SaveCheck(s, r)
      PROVE  Goal
  <2>1. CASE FinaliseCheck(s, r)
    BY <1>1, <2>1 DEF FinaliseCheck, Request, Informed
  <2>2. CASE SaveCheck(s, r)
    BY <1>1, <2>2 DEF SaveCheck, Request, Informed
  <2>3. QED
    BY <1>4, <2>1, <2>2
<1>5. CASE ResolveReadReport(s)
  <2> DEFINE q == [req[s] EXCEPT !.phase = "resolveReport"]
  <2>1. req[s].phase = "resolve"
    BY <1>5 DEF ResolveReadReport
  <2>2. q \in Request /\ Informed(q)
    BY <1>0, <2>1 DEF Request, Informed
  <2>3. [req EXCEPT ![s].phase = "resolveReport"] = [req EXCEPT ![s] = q]
    BY <1>0 DEF RequestsOK
  <2>4. QED
    BY <1>0, <1>5, <2>2, <2>3, StepOK, FinishOK DEF ResolveReadReport
<1>6. CASE Abort(s)
  BY <1>0, <1>6, FinishOK DEF Abort
<1>7. QED
  BY <1>2, <1>3, <1>4, <1>5, <1>6 DEF Reads

\* The transactions, as updates of the two tables.
LEMMA CommitsStep ==
    ASSUME TypeInv, NEW s \in Slots, Commits(s)
    PROVE  /\ RowsOK' /\ RequestsOK' /\ Finish(s)
           /\ UNCHANGED <<linked, aged, mlro, job, emails, lostMark>>
<1> DEFINE q == req[s]
<1>0. q \in Request /\ Informed(q) /\ RequestsOK /\ RowsOK
  BY DEF TypeInv, RequestsOK
<1>1. Finish(s) /\ UNCHANGED <<linked, aged, mlro, job, emails, lostMark>>
  BY DEF Commits, ExecuteCommit, ResolveCommit, FileCommit, FinaliseCommit, SaveCommit, rows
<1>2. RequestsOK'
  BY <1>0, <1>1, FinishOK
<1>3. freeze' \in [Freezes -> FreezeRow] /\ report' \in [Reports -> ReportRow]
  <2>1. CASE ExecuteCommit(s)
    BY <1>0, <2>1 DEF ExecuteCommit, Informed, RowsOK, FreezeRow
  <2>2. CASE ResolveCommit(s)
    BY <1>0, <2>2 DEF ResolveCommit, Informed, RowsOK, FreezeRow
  <2>3. CASE FileCommit(s)
    <3>1. q.freeze \in Freezes
      BY <1>0, <2>3 DEF FileCommit, Informed
    <3>2. PICK r \in Reports :
              /\ report' = [report EXCEPT ![r] =
                     [status |-> "draft", freeze |-> q.freeze]]
              /\ freeze' = [freeze EXCEPT ![q.freeze].report = r]
      BY <2>3 DEF FileCommit
    <3>3. [status |-> "draft", freeze |-> q.freeze] \in ReportRow
      BY <3>1 DEF ReportRow
    <3>4. QED
      BY <1>0, <3>1, <3>2, <3>3 DEF RowsOK, FreezeRow
  <2>4. CASE FinaliseCommit(s)
    <3>1. q.report \in Reports
      BY <1>0, <2>4 DEF FinaliseCommit, Informed
    <3>2. mark_freeze_reported(q.report) \in [Freezes -> FreezeRow]
      BY <1>0 DEF mark_freeze_reported, RowsOK, FreezeRow
    <3>3. QED
      BY <1>0, <2>4, <3>1, <3>2 DEF FinaliseCommit, RowsOK, ReportRow
  <2>5. CASE SaveCommit(s)
    BY <1>0, <2>5 DEF SaveCommit, RowsOK, rows
  <2>6. QED
    BY <2>1, <2>2, <2>3, <2>4, <2>5 DEF Commits
<1>4. QED
  BY <1>0, <1>1, <1>2, <1>3 DEF RowsOK

LEMMA SurroundingsOK ==
    ASSUME TypeInv, Surroundings
    PROVE  TypeInv'
<1>1. ASSUME NEW f \in Freezes, Identify(f)
      PROVE  TypeInv'
  <2>1. RowsOK'
    BY <1>1 DEF Identify, TypeInv, RowsOK, FreezeRow
  <2>2. QED
    BY <1>1, <2>1 DEF Identify, TypeInv, RequestsOK, JobsOK, MailOK
<1>2. ASSUME NEW f \in Freezes, Delist(f) \/ Tick(f)
      PROVE  TypeInv'
  BY <1>2 DEF Delist, Tick, rows, TypeInv, RowsOK, RequestsOK, JobsOK, MailOK
<1>3. CASE ChangeMlro
  BY <1>3 DEF ChangeMlro, rows, TypeInv, RowsOK, RequestsOK, JobsOK, MailOK
<1>4. QED
  BY <1>1, <1>2, <1>3 DEF Surroundings

LEMMA JobOK ==
    ASSUME TypeInv, NEW j \in Jobs, run_freeze_obligation_check(j)
    PROVE  TypeInv'
<1>0. /\ job[j] \in Job /\ Addressed(job[j]) /\ JobsOK /\ RowsOK /\ MailOK /\ RequestsOK
      /\ job[j].todo \subseteq Freezes
  BY DEF TypeInv, JobsOK, Job
<1>1. CASE JobSelect(j)
  <2> DEFINE k == [phase |-> "run", todo |-> ToNotify, current |-> None]
  <2>1. k \in Job /\ Addressed(k)
    BY DEF Job, Addressed, ToNotify, ToNotifyAll
  <2>2. JobsOK'
    BY <1>0, <1>1, <2>1, JobStepOK DEF JobSelect
  <2>3. QED
    BY <1>1, <2>2 DEF JobSelect, rows, TypeInv, RowsOK, RequestsOK, MailOK
<1>2. ASSUME NEW f \in Freezes, JobSend(j, f)
      PROVE  TypeInv'
  <2> DEFINE k == [phase |-> "sent", todo |-> job[j].todo \ {f}, current |-> f]
  <2>1. k \in Job /\ Addressed(k)
    BY <1>0 DEF Job, Addressed
  <2>2. job' = [job EXCEPT ![j] = k]
    BY <1>0, <1>2 DEF JobSend, JobsOK
  <2>3. JobsOK'
    BY <1>0, <2>1, <2>2, JobStepOK
  <2>4. MailOK'
    BY <1>0, <1>2 DEF JobSend, MailOK
  <2>5. QED
    BY <1>2, <2>3, <2>4 DEF JobSend, rows, TypeInv, RowsOK, RequestsOK
<1>3. ASSUME NEW f \in Freezes, JobSendFailed(j, f)
      PROVE  TypeInv'
  <2>1. JobsOK'
    BY <1>0, <1>3, JobNextOK DEF JobSendFailed
  <2>2. QED
    BY <1>3, <2>1 DEF JobSendFailed, rows, TypeInv, RowsOK, RequestsOK, MailOK
<1>4. CASE JobMark(j) \/ JobMarkFailed(j)
  <2>1. JobsOK'
    BY <1>0, <1>4, JobNextOK DEF JobMark, JobMarkFailed
  <2>2. job[j].current \in Freezes
    BY <1>0, <1>4 DEF JobMark, JobMarkFailed, Addressed
  <2>3. CASE JobMark(j)
    <3>1. RowsOK'
      BY <1>0, <2>2, <2>3 DEF JobMark, RowsOK, FreezeRow
    <3>2. QED
      BY <2>1, <2>3, <3>1 DEF JobMark, TypeInv, RequestsOK, MailOK
  <2>4. CASE JobMarkFailed(j)
    <3>1. MailOK'
      BY <1>0, <2>2, <2>4 DEF JobMarkFailed, MailOK
    <3>2. QED
      BY <2>1, <2>4, <3>1 DEF JobMarkFailed, rows, TypeInv, RowsOK, RequestsOK
  <2>5. QED
    BY <1>4, <2>3, <2>4
<1>5. CASE JobStop(j)
  <2>1. JobsOK'
    BY <1>0, <1>5, NoJobOK, JobStepOK DEF JobStop
  <2>2. MailOK'
    BY <1>0, <1>5 DEF JobStop, MailOK, Addressed
  <2>3. QED
    BY <1>5, <2>1, <2>2 DEF JobStop, rows, TypeInv, RowsOK, RequestsOK
<1>6. QED
  BY <1>1, <1>2, <1>3, <1>4, <1>5 DEF run_freeze_obligation_check, JobStep

LEMMA TypeInit == Init => TypeInv
<1> SUFFICES ASSUME Init PROVE TypeInv
  OBVIOUS
<1>1. RowsOK
  BY DEF Init, RowsOK, FreezeRow, ReportRow
<1>2. RequestsOK /\ JobsOK
  BY NoRequestOK, NoJobOK DEF Init, RequestsOK, JobsOK
<1>3. MailOK
  BY DEF Init, MailOK
<1>4. QED
  BY <1>1, <1>2, <1>3 DEF TypeInv

LEMMA TypeStep == TypeInv /\ [Next]_vars => TypeInv'
<1> SUFFICES ASSUME TypeInv, [Next]_vars PROVE TypeInv'
  OBVIOUS
<1>1. ASSUME NEW s \in Slots, Reads(s)
      PROVE  TypeInv'
  BY <1>1, ReadsStep DEF rows, TypeInv, RowsOK, JobsOK, MailOK
<1>2. ASSUME NEW s \in Slots, Commits(s)
      PROVE  TypeInv'
  BY <1>2, CommitsStep DEF TypeInv, JobsOK, MailOK
<1>3. CASE UNCHANGED vars
  BY <1>3 DEF vars, rows, TypeInv, RowsOK, RequestsOK, JobsOK, MailOK
<1>4. QED
  BY <1>1, <1>2, <1>3, NextSplit, SurroundingsOK, JobOK

\* Every reachable state is well typed, for all values of the constants.
THEOREM TypeCorrect == Spec => []TypeOK
<1>1. TypeInv => TypeOK
  BY DEF TypeInv, RowsOK, RequestsOK, JobsOK, MailOK, TypeOK
<1>2. QED
  BY <1>1, TypeInit, TypeStep, PTL DEF Spec

-------------------------------------------------------------------------------
\* The end of an obligation has its grounds.  EndedWithGrounds is not inductive:
\* the grounds were read before the write, and the report that makes a freeze
\* 'reported' is found through the link between the two rows.

RowGrounds(f) ==
    /\ freeze[f].reason # None =>
          /\ freeze[f].status # "none"
          /\ IF freeze[f].reason = "false_positive" THEN ~linked[f] ELSE freeze[f].executed
    /\ freeze[f].status = "reported" =>
          \E r \in Reports : report[r].freeze = f /\ report[r].status = "submitted"
    /\ freeze[f].report # None =>
          report[freeze[f].report].status # "none" /\ report[freeze[f].report].freeze = f

\* What a request about to resolve has read is still so.
RequestGrounds(q, fr, li) ==
    q.phase \in {"resolve", "resolveReport"} =>
        /\ fr[q.freeze].status # "none"
        /\ IF q.reason = "false_positive" THEN ~li[q.freeze] ELSE fr[q.freeze].executed

GroundsInv ==
    /\ \A f \in Freezes : RowGrounds(f)
    /\ \A s \in Slots : RequestGrounds(req[s], freeze, linked)

\* What no step of the system ever undoes.
Kept ==
    /\ \A f \in Freezes :
          /\ freeze[f].status # "none" => freeze'[f].status # "none"
          /\ freeze[f].executed => freeze'[f].executed
          /\ freeze[f].status # "none" /\ ~linked[f] => ~linked'[f]
    /\ \A r \in Reports : report[r].status # "none" =>
          /\ report'[r].status # "none" /\ report'[r].freeze = report[r].freeze
          /\ report[r].status = "submitted" => report'[r].status = "submitted"

\* Grounds once read are never lost.
LEMMA GroundsKept ==
    ASSUME Kept, NEW q, Informed(q), RequestGrounds(q, freeze, linked)
    PROVE  RequestGrounds(q, freeze', linked')
BY DEF Kept, Informed, RequestGrounds

\* An obligation whose own row did not change keeps its grounds.
LEMMA RowKept ==
    ASSUME TypeInv, Kept, NEW f \in Freezes, RowGrounds(f),
           \/ freeze'[f] = freeze[f]
           \/ freeze'[f] = [freeze[f] EXCEPT !.notified = TRUE]
    PROVE  RowGrounds(f)'
<1>0. freeze[f] \in FreezeRow
  BY DEF TypeInv, RowsOK
<1>1. /\ freeze'[f].status = freeze[f].status /\ freeze'[f].executed = freeze[f].executed
      /\ freeze'[f].report = freeze[f].report /\ freeze'[f].reason = freeze[f].reason
  BY <1>0 DEF FreezeRow
<1>2. freeze[f].report \in Reports \cup {None}
  BY <1>0 DEF FreezeRow
<1>3. QED
  BY <1>1, <1>2 DEF RowGrounds, Kept

LEMMA CommitGrounds ==
    ASSUME TypeInv, GroundsInv, NEW s \in Slots, Commits(s)
    PROVE  Kept /\ \A f \in Freezes : RowGrounds(f)'
<1> DEFINE q == req[s]
           Goal == Kept /\ \A f \in Freezes : RowGrounds(f)'
<1>0. /\ Informed(q) /\ RequestGrounds(q, freeze, linked) /\ RowsOK
      /\ \A f \in Freezes : RowGrounds(f)
      /\ freeze \in [Freezes -> FreezeRow] /\ report \in [Reports -> ReportRow]
  BY DEF TypeInv, RequestsOK, GroundsInv, RowsOK
<1>1. linked' = linked
  BY CommitsStep
<1>2. CASE ExecuteCommit(s)
  <2>1. q.freeze \in Freezes
    BY <1>0, <1>2 DEF ExecuteCommit, Informed
  <2>0. PICK h \in Freezes : h = q.freeze
    BY <2>1
  <2>2. /\ freeze' = [freeze EXCEPT ![q.freeze].status = "executed_pending_report",
                                    ![q.freeze].executed = TRUE]
        /\ report' = report
    BY <1>2 DEF ExecuteCommit
  <2>3. /\ freeze'[q.freeze] = [freeze[q.freeze] EXCEPT !.status = "executed_pending_report",
                                                        !.executed = TRUE]
        /\ \A f \in Freezes \ {q.freeze} : freeze'[f] = freeze[f]
    BY <1>0, <2>1, <2>2
  <2>4. Kept
    BY <1>0, <1>1, <2>2, <2>3 DEF Kept, FreezeRow
  <2>5. RowGrounds(h)'
    <3>1. /\ freeze'[q.freeze].status = "executed_pending_report"
          /\ freeze'[q.freeze].executed
          /\ freeze'[q.freeze].report = freeze[q.freeze].report
          /\ freeze'[q.freeze].reason = freeze[q.freeze].reason
      BY <1>0, <2>1, <2>3 DEF FreezeRow
    <3>2. QED
      BY <1>0, <1>1, <2>0, <2>2, <3>1 DEF RowGrounds
  <2>6. QED
    BY <1>0, <2>0, <2>3, <2>4, <2>5, RowKept
<1>3. CASE ResolveCommit(s)
  <2>1. q.freeze \in Freezes /\ q.reason \in Reasons /\ report' = report
        /\ q.phase = "resolveReport"
    BY <1>0, <1>3 DEF ResolveCommit, Informed
  <2>2. CASE freeze[q.freeze].status = "resolved"
    <3>1. freeze' = freeze
      BY <1>3, <2>2 DEF ResolveCommit
    <3>2. Kept
      BY <1>0, <1>1, <2>1, <3>1 DEF Kept
    <3>3. QED
      BY <1>0, <3>1, <3>2, RowKept
  <2>3. CASE freeze[q.freeze].status # "resolved"
    <3>0. PICK h \in Freezes : h = q.freeze
      BY <2>1
    <3>1. freeze' = [freeze EXCEPT ![q.freeze].status = "resolved",
                                   ![q.freeze].reason = q.reason]
      BY <1>3, <2>3 DEF ResolveCommit
    <3>2. /\ freeze'[q.freeze] = [freeze[q.freeze] EXCEPT !.status = "resolved",
                                                          !.reason = q.reason]
          /\ \A f \in Freezes \ {q.freeze} : freeze'[f] = freeze[f]
      BY <1>0, <2>1, <3>1
    <3>3. /\ freeze'[q.freeze].status = "resolved" /\ freeze'[q.freeze].reason = q.reason
          /\ freeze'[q.freeze].executed = freeze[q.freeze].executed
          /\ freeze'[q.freeze].report = freeze[q.freeze].report
      BY <1>0, <2>1, <3>2 DEF FreezeRow
    <3>4. Kept
      BY <1>0, <1>1, <2>1, <3>2, <3>3 DEF Kept
    <3>5. RowGrounds(h)'
      BY <1>0, <1>1, <2>1, <3>0, <3>3 DEF RowGrounds, RequestGrounds
    <3>6. QED
      BY <1>0, <3>0, <3>2, <3>4, <3>5, RowKept
  <2>4. QED
    BY <2>2, <2>3
<1>4. CASE FileCommit(s)
  <2>1. q.freeze \in Freezes
    BY <1>0, <1>4 DEF FileCommit, Informed
  <2>0. PICK h \in Freezes : h = q.freeze
    BY <2>1
  <2>2. PICK r \in Reports :
            /\ report[r].status = "none"
            /\ report' = [report EXCEPT ![r] =
                   [status |-> "draft", freeze |-> q.freeze]]
            /\ freeze' = [freeze EXCEPT ![q.freeze].report = r]
    BY <1>4 DEF FileCommit
  <2>3. /\ report'[r].status = "draft" /\ report'[r].freeze = q.freeze
        /\ \A p \in Reports \ {r} : report'[p] = report[p]
    BY <1>0, <2>2
  <2>4. /\ freeze'[q.freeze] = [freeze[q.freeze] EXCEPT !.report = r]
        /\ \A f \in Freezes \ {q.freeze} : freeze'[f] = freeze[f]
    BY <1>0, <2>1, <2>2
  <2>5. /\ freeze'[q.freeze].status = freeze[q.freeze].status
        /\ freeze'[q.freeze].reason = freeze[q.freeze].reason
        /\ freeze'[q.freeze].executed = freeze[q.freeze].executed
        /\ freeze'[q.freeze].report = r
    BY <1>0, <2>1, <2>4 DEF FreezeRow
  <2>6. Kept
    <3>1. \A p \in Reports : report[p].status # "none" => report'[p] = report[p]
      BY <2>2, <2>3
    <3>2. QED
      BY <1>0, <1>1, <2>1, <2>4, <2>5, <3>1 DEF Kept
  <2>7. RowGrounds(h)'
    <3>1. freeze[q.freeze].status = "reported" =>
              \E p \in Reports : report'[p].freeze = q.freeze /\ report'[p].status = "submitted"
      BY <1>0, <2>1, <2>6 DEF RowGrounds, Kept
    <3>2. QED
      BY <1>0, <1>1, <2>0, <2>3, <2>5, <3>1 DEF RowGrounds
  <2>8. QED
    BY <1>0, <2>0, <2>4, <2>6, <2>7, RowKept
<1>5. CASE FinaliseCommit(s)
  <2>1. q.report \in Reports
    BY <1>0, <1>5 DEF FinaliseCommit, Informed
  <2>2. /\ report' = [report EXCEPT ![q.report].status = "submitted"]
        /\ freeze' = mark_freeze_reported(q.report)
    BY <1>5 DEF FinaliseCommit
  <2>3. /\ report'[q.report].status = "submitted"
        /\ \A r \in Reports : report'[r].freeze = report[r].freeze
        /\ \A r \in Reports : report'[r].status = report[r].status \/ r = q.report
    BY <1>0, <2>1, <2>2 DEF ReportRow
  <2>4. ASSUME NEW f \in Freezes
        PROVE  \/ freeze'[f] = freeze[f]
               \/ /\ freeze[f].report = q.report
                  /\ freeze[f].status = "executed_pending_report"
                  /\ freeze'[f] = [freeze[f] EXCEPT !.status = "reported"]
    BY <2>2 DEF mark_freeze_reported
  <2>5. Kept
    <3>1. \A f \in Freezes : /\ freeze[f].status # "none" => freeze'[f].status # "none"
                             /\ freeze[f].executed => freeze'[f].executed
      BY <1>0, <2>4 DEF FreezeRow
    <3>2. QED
      BY <1>1, <2>3, <3>1 DEF Kept
  <2>6. ASSUME NEW f \in Freezes, freeze[f].report = q.report,
               freeze'[f] = [freeze[f] EXCEPT !.status = "reported"]
        PROVE  RowGrounds(f)'
    <3>1. /\ freeze'[f].status = "reported" /\ freeze'[f].report = q.report
          /\ freeze'[f].executed = freeze[f].executed /\ freeze'[f].reason = freeze[f].reason
      BY <1>0, <2>6 DEF FreezeRow
    <3>2. report[q.report].freeze = f
      BY <1>0, <2>1, <2>6 DEF RowGrounds
    <3>3. report'[q.report].freeze = f /\ report'[q.report].status = "submitted"
      BY <2>1, <2>3, <3>2
    <3>4. QED
      BY <1>0, <1>1, <2>1, <3>1, <3>3 DEF RowGrounds
  <2>7. QED
    BY <1>0, <2>4, <2>5, <2>6, RowKept
<1>6. CASE SaveCommit(s)
  <2>1. freeze' = freeze
    BY <1>6 DEF SaveCommit, rows
  <2>2. \A r \in Reports :
            report'[r].status = report[r].status /\ report'[r].freeze = report[r].freeze
    BY <1>6 DEF SaveCommit, rows
  <2>3. Kept
    BY <1>1, <2>1, <2>2 DEF Kept
  <2>4. QED
    BY <1>0, <2>1, <2>3, RowKept
<1>7. QED
  BY <1>2, <1>3, <1>4, <1>5, <1>6 DEF Commits

\* A request that only reads decides on what it sees.
LEMMA ReadGrounds ==
    ASSUME TypeInv, GroundsInv, NEW s \in Slots, Reads(s)
    PROVE  \A t \in Slots : RequestGrounds(req'[t], freeze, linked)
<1>0. /\ req \in [Slots -> Request] /\ \A t \in Slots : RequestGrounds(req[t], freeze, linked)
      /\ RequestGrounds(NoRequest, freeze, linked)
  BY DEF TypeInv, RequestsOK, GroundsInv, RequestGrounds, NoRequest
<1>1. ASSUME NEW q, req' = [req EXCEPT ![s] = q], RequestGrounds(q, freeze, linked)
      PROVE  \A t \in Slots : RequestGrounds(req'[t], freeze, linked)
  BY <1>0, <1>1
<1>2. ASSUME NEW f \in Freezes, ExecuteCheck(s, f) \/ FileCheck(s, f)
      PROVE  \A t \in Slots : RequestGrounds(req'[t], freeze, linked)
  BY <1>1, <1>2 DEF ExecuteCheck, FileCheck, Begin, RequestGrounds
<1>3. ASSUME NEW f \in Freezes, NEW reason \in Reasons, ResolveCheck(s, f, reason)
      PROVE  \A t \in Slots : RequestGrounds(req'[t], freeze, linked)
  BY <1>1, <1>3 DEF ResolveCheck, MayResolve, Begin, RequestGrounds
<1>4. ASSUME NEW r \in Reports, FinaliseCheck(s, r) \/ SaveCheck(s, r)
      PROVE  \A t \in Slots : RequestGrounds(req'[t], freeze, linked)
  BY <1>1, <1>4 DEF FinaliseCheck, SaveCheck, Begin, RequestGrounds
<1>5. CASE ResolveReadReport(s)
  <2> DEFINE q == [req[s] EXCEPT !.phase = "resolveReport"]
  <2>1. q.freeze = req[s].freeze /\ q.reason = req[s].reason /\ req[s].phase = "resolve"
    BY <1>0, <1>5 DEF Request, ResolveReadReport
  <2>2. RequestGrounds(q, freeze, linked)
    BY <1>0, <2>1 DEF RequestGrounds
  <2>3. [req EXCEPT ![s].phase = "resolveReport"] = [req EXCEPT ![s] = q]
    BY <1>0
  <2>4. QED
    BY <1>0, <1>1, <1>5, <2>2, <2>3 DEF ResolveReadReport, Finish
<1>6. CASE Abort(s)
  BY <1>0, <1>1, <1>6 DEF Abort, Finish
<1>7. QED
  BY <1>2, <1>3, <1>4, <1>5, <1>6 DEF Reads

\* The overdue check changes no more of an obligation than its mark.
LEMMA JobKeeps ==
    ASSUME TypeInv, NEW j \in Jobs, run_freeze_obligation_check(j)
    PROVE  /\ UNCHANGED <<linked, report, aged, mlro, req>>
           /\ \A f \in Freezes : \/ freeze'[f] = freeze[f]
                                 \/ freeze'[f] = [freeze[f] EXCEPT !.notified = TRUE]
<1>1. CASE JobMark(j)
  BY <1>1 DEF JobMark, TypeInv, RowsOK
<1>2. CASE JobSelect(j) \/ JobMarkFailed(j) \/ JobStop(j)
            \/ \E f \in Freezes : JobSend(j, f) \/ JobSendFailed(j, f)
  BY <1>2 DEF JobSelect, JobMarkFailed, JobStop, JobSend, JobSendFailed, rows
<1>3. QED
  BY <1>1, <1>2 DEF run_freeze_obligation_check, JobStep

\* Neither do the surroundings take a ground away, nor touch what the check records.
LEMMA SurroundingsGrounds ==
    ASSUME TypeInv, GroundsInv, Surroundings
    PROVE  /\ Kept /\ UNCHANGED <<req, job, emails, lostMark>>
           /\ \A f \in Freezes : RowGrounds(f)' /\ freeze'[f].notified = freeze[f].notified
<1> DEFINE Goal == /\ Kept /\ UNCHANGED <<req, job, emails, lostMark>>
                   /\ \A f \in Freezes :
                         RowGrounds(f)' /\ freeze'[f].notified = freeze[f].notified
<1>0. freeze \in [Freezes -> FreezeRow] /\ \A f \in Freezes : RowGrounds(f)
  BY DEF TypeInv, RowsOK, GroundsInv
<1>1. ASSUME NEW f \in Freezes, Identify(f)
      PROVE  Goal
  <2>1. /\ freeze' = [freeze EXCEPT ![f].status = "pending_execution"]
        /\ linked' = [linked EXCEPT ![f] = TRUE] /\ freeze[f].status = "none"
        /\ UNCHANGED <<report, req, job, emails, lostMark>>
    BY <1>1 DEF Identify
  <2>2. /\ freeze'[f] = [freeze[f] EXCEPT !.status = "pending_execution"]
        /\ \A g \in Freezes \ {f} : freeze'[g] = freeze[g] /\ linked'[g] = linked[g]
    BY <1>0, <2>1 DEF TypeInv, RowsOK
  <2>3. /\ freeze'[f].status = "pending_execution" /\ freeze'[f].reason = freeze[f].reason
        /\ freeze'[f].executed = freeze[f].executed /\ freeze'[f].report = freeze[f].report
        /\ freeze'[f].notified = freeze[f].notified
    BY <1>0, <2>2 DEF FreezeRow
  <2>4. Kept
    BY <1>0, <2>1, <2>2, <2>3 DEF Kept
  <2>5. RowGrounds(f)'
    BY <1>0, <2>1, <2>3 DEF RowGrounds
  <2>6. \A g \in Freezes : RowGrounds(g)'
    BY <1>0, <2>2, <2>4, <2>5, RowKept
  <2>7. QED
    BY <2>1, <2>2, <2>3, <2>4, <2>6
<1>2. ASSUME NEW f \in Freezes, Delist(f)
      PROVE  Goal
  <2>1. /\ UNCHANGED <<freeze, report, req, job, emails, lostMark>>
        /\ \A g \in Freezes : linked'[g] => linked[g]
    BY <1>2 DEF Delist, TypeInv, RowsOK
  <2>2. Kept
    BY <2>1 DEF Kept
  <2>3. QED
    BY <1>0, <2>1, <2>2, RowKept
<1>3. CASE ChangeMlro \/ \E f \in Freezes : Tick(f)
  <2>1. UNCHANGED <<freeze, linked, report, req, job, emails, lostMark>>
    BY <1>3 DEF ChangeMlro, Tick, rows
  <2>2. Kept
    BY <2>1 DEF Kept
  <2>3. QED
    BY <1>0, <2>1, <2>2, RowKept
<1>4. QED
  BY <1>1, <1>2, <1>3 DEF Surroundings

LEMMA GroundsStep ==
    ASSUME TypeInv, GroundsInv, [Next]_vars
    PROVE  GroundsInv'
<1>0. /\ freeze \in [Freezes -> FreezeRow] /\ req \in [Slots -> Request]
      /\ \A s \in Slots : Informed(req[s]) /\ RequestGrounds(req[s], freeze, linked)
      /\ \A f \in Freezes : RowGrounds(f)
  BY DEF TypeInv, RowsOK, RequestsOK, GroundsInv
<1>1. ASSUME Kept, UNCHANGED req, \A f \in Freezes : RowGrounds(f)'
      PROVE  GroundsInv'
  BY <1>0, <1>1, GroundsKept DEF GroundsInv
<1>2. ASSUME UNCHANGED rows
      PROVE  Kept /\ \A f \in Freezes : RowGrounds(f)'
  BY <1>0, <1>2 DEF rows, Kept, RowGrounds
<1>3. ASSUME NEW s \in Slots, Reads(s)
      PROVE  GroundsInv'
  BY <1>2, <1>3, ReadsStep, ReadGrounds DEF GroundsInv, rows
<1>4. ASSUME NEW s \in Slots, Commits(s)
      PROVE  GroundsInv'
  <2>1. Kept /\ \A f \in Freezes : RowGrounds(f)'
    BY <1>4, CommitGrounds DEF GroundsInv
  <2>2. req' = [req EXCEPT ![s] = NoRequest]
    BY <1>4, CommitsStep DEF Finish
  <2>3. ASSUME NEW t \in Slots
        PROVE  RequestGrounds(req'[t], freeze', linked')
    <3>1. CASE t = s
      BY <1>0, <2>2, <3>1 DEF RequestGrounds, NoRequest
    <3>2. CASE t # s
      BY <1>0, <2>1, <2>2, <3>2, GroundsKept
    <3>3. QED
      BY <3>1, <3>2
  <2>4. QED
    BY <2>1, <2>3 DEF GroundsInv
<1>5. CASE Surroundings
  BY <1>1, <1>5, SurroundingsGrounds
<1>6. CASE UNCHANGED vars
  BY <1>1, <1>2, <1>6 DEF vars
<1>7. ASSUME NEW j \in Jobs, run_freeze_obligation_check(j)
      PROVE  GroundsInv'
  <2>1. /\ UNCHANGED <<linked, report, req>>
        /\ \A f \in Freezes : \/ freeze'[f] = freeze[f]
                              \/ freeze'[f] = [freeze[f] EXCEPT !.notified = TRUE]
    BY <1>7, JobKeeps
  <2>2. Kept
    <3>1. \A f \in Freezes : freeze'[f].status = freeze[f].status
                             /\ freeze'[f].executed = freeze[f].executed
      BY <1>0, <2>1 DEF FreezeRow
    <3>2. QED
      BY <2>1, <3>1 DEF Kept
  <2>3. QED
    BY <1>0, <1>1, <2>1, <2>2, RowKept
<1>8. QED
  BY <1>3, <1>4, <1>5, <1>6, <1>7, NextSplit

LEMMA GroundsInit == Init => GroundsInv
BY DEF Init, GroundsInv, RowGrounds, RequestGrounds, NoRequest

\* However many requests execute, file, submit and resolve at once, an obligation is
\* closed as a false positive only without a confirmed alert, otherwise only when
\* it had been executed, and it is 'reported' only with a report of its own
\* submitted.
THEOREM EndedWithGroundsCorrect == Spec => []EndedWithGrounds
<1>1. GroundsInv => EndedWithGrounds
  BY DEF GroundsInv, RowGrounds, EndedWithGrounds
<1>2. QED
  BY <1>1, TypeInit, TypeStep, GroundsInit, GroundsStep, PTL DEF Spec

-------------------------------------------------------------------------------
\* The mails of the overdue check, when one check runs at a time.  What has been
\* mailed is recorded, is about to be recorded, or is known to be lost.

OneCheck == \A i, j \in Jobs : i = j

Recorded(f) ==
    f \in lostMark \/ freeze[f].notified
        \/ \E j \in Jobs : job[j].phase = "sent" /\ job[j].current = f

\* Why a check may mail about what it still has to do.
MailGrounds(k, fr, li, em) ==
    /\ \A f \in k.todo : ~fr[f].notified /\ fr[f].status # "none" /\ (f \in Foreign => ~li[f])
    /\ k.phase = "sent" => k.current \notin k.todo /\ em[k.current] > 0

MailInv ==
    /\ \A f \in Foreign : freeze[f].status # "none"
    /\ \A f \in Freezes : emails[f] > 0 => Recorded(f)
    /\ \A j \in Jobs : MailGrounds(job[j], freeze, linked, emails)
    /\ MailedOnce

LEMMA CommitMarks ==
    ASSUME TypeInv, NEW s \in Slots, Commits(s), NEW f \in Freezes
    PROVE  freeze'[f].notified = freeze[f].notified
<1>0. freeze \in [Freezes -> FreezeRow] /\ Informed(req[s])
  BY DEF TypeInv, RowsOK, RequestsOK
<1>1. CASE ExecuteCommit(s)
  BY <1>0, <1>1 DEF ExecuteCommit, Informed, FreezeRow
<1>2. CASE ResolveCommit(s)
  BY <1>0, <1>2 DEF ResolveCommit, Informed, FreezeRow
<1>3. CASE FileCommit(s)
  BY <1>0, <1>3 DEF FileCommit, Informed, FreezeRow
<1>4. CASE FinaliseCommit(s)
  BY <1>0, <1>4 DEF FinaliseCommit, mark_freeze_reported, FreezeRow
<1>5. CASE SaveCommit(s)
  BY <1>5 DEF SaveCommit, rows
<1>6. QED
  BY <1>1, <1>2, <1>3, <1>4, <1>5 DEF Commits

\* A step that is not the check's leaves its books as they are.
LEMMA MailKept ==
    ASSUME TypeInv, MailInv, Kept, UNCHANGED <<job, emails, lostMark>>,
           \A f \in Freezes : freeze'[f].notified = freeze[f].notified
    PROVE  MailInv'
<1>0. /\ job \in [Jobs -> Job] /\ \A j \in Jobs : job[j].todo \subseteq Freezes
      /\ Foreign \subseteq Freezes
  BY DEF TypeInv, JobsOK, Job
<1>1. \A f \in Foreign : freeze'[f].status # "none"
  BY <1>0 DEF MailInv, Kept
<1>2. \A f \in Freezes : emails'[f] > 0 => Recorded(f)'
  BY DEF MailInv, Recorded
<1>3. \A j \in Jobs : MailGrounds(job'[j], freeze', linked', emails')
  BY <1>0 DEF MailInv, MailGrounds, Kept
<1>4. MailedOnce'
  BY <1>0 DEF MailInv, MailedOnce, Kept
<1>5. QED
  BY <1>1, <1>2, <1>3, <1>4 DEF MailInv

LEMMA JobMails ==
    ASSUME OneCheck, TypeInv, MailInv, NEW j \in Jobs, run_freeze_obligation_check(j)
    PROVE  MailInv'
<1> DEFINE k == job[j]
<1>0. /\ job \in [Jobs -> Job] /\ \A i \in Jobs : i = j
      /\ k.todo \subseteq Freezes /\ Addressed(k) /\ MailGrounds(k, freeze, linked, emails)
      /\ freeze \in [Freezes -> FreezeRow] /\ emails \in [Freezes -> 0..2]
      /\ Foreign \subseteq Freezes /\ lostMark \subseteq Freezes
      /\ MailedOnce /\ \A f \in Freezes : emails[f] > 0 => Recorded(f)
      /\ \A f \in Foreign : freeze[f].status # "none"
  BY DEF OneCheck, TypeInv, RowsOK, JobsOK, MailOK, MailInv, Job
\* The rest of a run that goes on with what is left keeps its grounds.
<1>a. ASSUME NEW left \in SUBSET k.todo, JobNext(j, left), UNCHANGED linked,
             \A f \in left : freeze'[f] = freeze[f]
      PROVE  /\ \A i \in Jobs : MailGrounds(job'[i], freeze', linked', emails')
             /\ job'[j].phase # "sent"
  BY <1>0, <1>a DEF JobNext, NoJob, MailGrounds
<1>1. CASE JobSelect(j)
  <2>1. /\ job'[j] = [phase |-> "run", todo |-> ToNotify, current |-> None]
        /\ UNCHANGED <<freeze, linked, emails, lostMark>> /\ k.phase = "idle"
    BY <1>0, <1>1 DEF JobSelect, rows
  <2>2. MailGrounds(job'[j], freeze', linked', emails')
    BY <2>1 DEF MailGrounds, ToNotify, ToNotifyAll, Overdue, freeze_obligation_in_scope
  <2>3. \A f \in Freezes : emails'[f] > 0 => Recorded(f)'
    BY <1>0, <2>1 DEF Recorded
  <2>4. QED
    BY <1>0, <2>1, <2>2, <2>3 DEF MailInv, MailedOnce
<1>2. ASSUME NEW f \in Freezes, JobSend(j, f)
      PROVE  MailInv'
  <2>1. /\ job'[j] = [phase |-> "sent", todo |-> k.todo \ {f}, current |-> f]
        /\ emails' = [emails EXCEPT ![f] = IF @ < 2 THEN @ + 1 ELSE @]
        /\ UNCHANGED <<freeze, linked, lostMark>> /\ k.phase = "run" /\ f \in k.todo
    BY <1>0, <1>2 DEF JobSend, rows
  <2>2. emails'[f] > 0 /\ \A g \in Freezes \ {f} : emails'[g] = emails[g]
    BY <1>0, <2>1
  <2>3. MailGrounds(job'[j], freeze', linked', emails')
    BY <1>0, <2>1, <2>2 DEF MailGrounds
  <2>4. Recorded(f)'
    BY <2>1 DEF Recorded
  <2>5. \A g \in Freezes \ {f} : Recorded(g) => Recorded(g)'
    BY <1>0, <2>1 DEF Recorded
  <2>6. emails'[f] > 1 => f \in lostMark
    <3>1. emails'[f] > 1 => emails[f] > 0
      BY <1>0, <2>1
    <3>2. emails[f] > 0 => f \in lostMark
      BY <1>0, <2>1 DEF MailGrounds, Recorded
    <3>3. QED
      BY <3>1, <3>2
  <2>7. f \in Foreign => ~linked[f]
    BY <1>0, <2>1 DEF MailGrounds
  <2>8. MailedOnce'
    BY <1>0, <2>1, <2>2, <2>6, <2>7 DEF MailedOnce
  <2>9. QED
    BY <1>0, <2>1, <2>2, <2>3, <2>4, <2>5, <2>8 DEF MailInv
<1>3. ASSUME NEW f \in Freezes, JobSendFailed(j, f)
      PROVE  MailInv'
  <2>1. /\ JobNext(j, k.todo \ {f}) /\ k.phase = "run"
        /\ UNCHANGED <<freeze, linked, emails, lostMark>>
    BY <1>3 DEF JobSendFailed, rows
  <2>2. \A g \in Freezes : emails'[g] > 0 => Recorded(g)'
    BY <1>0, <2>1 DEF Recorded
  <2>3. QED
    BY <1>0, <1>a, <2>1, <2>2 DEF MailInv, MailedOnce
<1>4. CASE JobMark(j)
  <2> DEFINE f == k.current
  <2>1. /\ f \in Freezes /\ f \notin k.todo /\ emails[f] > 0
    BY <1>0, <1>4 DEF JobMark, Addressed, MailGrounds
  <2>2. /\ freeze' = [freeze EXCEPT ![f].notified = TRUE] /\ JobNext(j, k.todo)
        /\ UNCHANGED <<linked, emails, lostMark>>
    BY <1>4 DEF JobMark
  <2>3. /\ freeze'[f].notified /\ freeze'[f].status = freeze[f].status
        /\ \A g \in Freezes \ {f} : freeze'[g] = freeze[g]
    BY <1>0, <2>1, <2>2 DEF FreezeRow
  <2>4. \A i \in Jobs : MailGrounds(job'[i], freeze', linked', emails')
    <3>1. k.todo \in SUBSET k.todo /\ \A g \in k.todo : freeze'[g] = freeze[g]
      BY <1>0, <2>1, <2>3
    <3>2. QED
      BY <1>a, <2>2, <3>1
  <2>5. \A g \in Freezes : emails'[g] > 0 => Recorded(g)'
    BY <1>0, <2>1, <2>2, <2>3 DEF Recorded
  <2>6. \A g \in Foreign : freeze'[g].status # "none"
    BY <1>0, <2>1, <2>3
  <2>7. MailedOnce'
    BY <1>0, <2>1, <2>2, <2>3 DEF MailedOnce
  <2>8. QED
    BY <2>4, <2>5, <2>6, <2>7 DEF MailInv
<1>5. CASE JobMarkFailed(j)
  <2>1. /\ JobNext(j, k.todo) /\ lostMark' = lostMark \cup {k.current} /\ k.phase = "sent"
        /\ UNCHANGED <<freeze, linked, emails>>
    BY <1>5 DEF JobMarkFailed, rows
  <2>2. \A g \in Freezes : emails'[g] > 0 => Recorded(g)'
    BY <1>0, <2>1 DEF Recorded
  <2>3. QED
    BY <1>0, <1>a, <2>1, <2>2 DEF MailInv, MailedOnce
<1>6. CASE JobStop(j)
  <2>1. /\ job'[j] = NoJob /\ lostMark \subseteq lostMark'
        /\ k.phase = "sent" => k.current \in lostMark'
        /\ UNCHANGED <<freeze, linked, emails>>
    BY <1>0, <1>6 DEF JobStop, rows
  <2>2. \A g \in Freezes : emails'[g] > 0 => Recorded(g)'
    BY <1>0, <2>1 DEF Recorded
  <2>3. MailGrounds(job'[j], freeze', linked', emails')
    BY <2>1 DEF NoJob, MailGrounds
  <2>4. QED
    BY <1>0, <2>1, <2>2, <2>3 DEF MailInv, MailedOnce
<1>7. QED
  BY <1>1, <1>2, <1>3, <1>4, <1>5, <1>6 DEF run_freeze_obligation_check, JobStep

LEMMA MailStep ==
    ASSUME OneCheck, TypeInv, GroundsInv, MailInv, [Next]_vars
    PROVE  MailInv'
<1>1. ASSUME UNCHANGED <<rows, job, emails, lostMark>>
      PROVE  MailInv'
  BY <1>1, MailKept DEF rows, Kept
<1>2. ASSUME NEW s \in Slots, Reads(s)
      PROVE  MailInv'
  BY <1>1, <1>2, ReadsStep
<1>3. ASSUME NEW s \in Slots, Commits(s)
      PROVE  MailInv'
  BY <1>3, CommitsStep, CommitGrounds, CommitMarks, MailKept
<1>4. CASE Surroundings
  BY <1>4, SurroundingsGrounds, MailKept
<1>5. CASE UNCHANGED vars
  BY <1>1, <1>5 DEF vars
<1>6. QED
  BY <1>2, <1>3, <1>4, <1>5, JobMails, NextSplit

LEMMA MailInit == Init => MailInv
<1> SUFFICES ASSUME Init PROVE MailInv
  OBVIOUS
<1>1. \A f \in Freezes : emails[f] = 0 /\ ~freeze[f].notified
  BY DEF Init
<1>2. \A j \in Jobs : MailGrounds(job[j], freeze, linked, emails)
  BY DEF Init, NoJob, MailGrounds
<1>3. \A f \in Foreign : freeze[f].status # "none"
  BY DEF Init
<1>4. QED
  BY <1>1, <1>2, <1>3 DEF MailInv, MailedOnce

\* One overdue check at a time mails the MLRO once per obligation, whatever requests
\* do to the obligations while it runs, unless a mail went out that could not be
\* recorded.
THEOREM MailedOnceCorrect ==
    ASSUME OneCheck
    PROVE  Spec => []MailedOnce
<1>1. MailInv => MailedOnce
  BY DEF MailInv
<1>2. TypeInv /\ GroundsInv /\ MailInv /\ [Next]_vars => TypeInv' /\ GroundsInv' /\ MailInv'
  BY TypeStep, GroundsStep, MailStep
<1>3. QED
  BY <1>1, <1>2, TypeInit, GroundsInit, MailInit, PTL DEF Spec

-------------------------------------------------------------------------------
\* Requests that do not overlap: a freeze agrees with its CNMR, and the obligations
\* move through the promised workflow.

OneRequest == \A s, t \in Slots : s = t

CnmrIn(row, rp) == IF row.report = None THEN "none" ELSE rp[row.report].status

\* Where an obligation stands tells what became of its CNMR.
RowAgrees(row, rp) ==
    /\ row.status \in {"none", "pending_execution"} => row.report = None
    /\ row.status = "executed_pending_report" => CnmrIn(row, rp) \in {"none", "draft"}
    /\ row.status = "reported" => CnmrIn(row, rp) = "submitted"
    /\ row.status = "resolved" => CnmrIn(row, rp) # "draft"
    /\ row.status \in {"executed_pending_report", "reported"} => row.executed

\* A report of a freeze is the one the freeze is linked to.
Owned(r, fr, rp) == rp[r].freeze # None => fr[rp[r].freeze].report = r

\* What the request in flight has checked is still so when it commits.
RequestAgrees(q, fr, rp) ==
    /\ q.phase = "execute" => fr[q.freeze].status = "pending_execution"
    /\ q.phase \in {"resolve", "resolveReport"} => fr[q.freeze].status \notin {"none", "resolved"}
    /\ q.phase = "resolveReport" => CnmrIn(fr[q.freeze], rp) # "draft"
    /\ q.phase = "file" =>
           fr[q.freeze].status = "executed_pending_report" /\ fr[q.freeze].report = None
    /\ q.phase = "finalise" => rp[q.report].status = "draft"

AgreeInv ==
    /\ \A f \in Freezes : RowAgrees(freeze[f], report)
    /\ \A r \in Reports : Owned(r, freeze, report)
    /\ \A s \in Slots : RequestAgrees(req[s], freeze, report)

\* A step of the workflow that leaves the tables in agreement.
Moves ==
    /\ [Lifecycle!Next]_(Lifecycle!vars)
    /\ \A f \in Freezes : RowAgrees(freeze'[f], report')
    /\ \A r \in Reports : Owned(r, freeze', report')

\* The columns the workflow is about.
SameColumns ==
    /\ \A f \in Freezes : /\ freeze'[f].status = freeze[f].status
                          /\ freeze'[f].report = freeze[f].report
                          /\ freeze'[f].executed = freeze[f].executed
    /\ \A r \in Reports : report'[r].status = report[r].status
                         /\ report'[r].freeze = report[r].freeze

LEMMA SameMoves ==
    ASSUME TypeInv, AgreeInv, SameColumns
    PROVE  /\ Moves
           /\ \A s \in Slots : RequestAgrees(req[s], freeze', report')
<1>0. /\ \A f \in Freezes : freeze[f].report \in Reports \cup {None}
      /\ \A r \in Reports : report[r].freeze \in Freezes \cup {None}
      /\ \A s \in Slots : Informed(req[s])
  BY DEF TypeInv, RowsOK, FreezeRow, ReportRow, RequestsOK
<1>1. \A f \in Freezes : CnmrIn(freeze'[f], report') = CnmrIn(freeze[f], report)
  BY <1>0 DEF SameColumns, CnmrIn
<1>2. \A f \in Freezes : RowAgrees(freeze'[f], report')
  BY <1>1 DEF AgreeInv, RowAgrees, SameColumns
<1>3. \A r \in Reports : Owned(r, freeze', report')
  BY <1>0 DEF AgreeInv, Owned, SameColumns
<1>4. \A s \in Slots : RequestAgrees(req[s], freeze', report')
  BY <1>0, <1>1 DEF AgreeInv, RequestAgrees, SameColumns, Informed
<1>5. UNCHANGED Lifecycle!vars
  <2>1. [f \in Freezes |-> freeze[f].status]' = [f \in Freezes |-> freeze[f].status]
    BY DEF SameColumns
  <2>2. [f \in Freezes |-> CnmrIn(freeze[f], report)]'
            = [f \in Freezes |-> CnmrIn(freeze[f], report)]
    BY <1>1
  <2>3. QED
    BY <2>1, <2>2 DEF Lifecycle!vars, CnmrIn
<1>6. QED
  BY <1>2, <1>3, <1>4, <1>5 DEF Moves

\* One obligation moves on, no report changes, and no link.
LEMMA RowMoves ==
    ASSUME TypeInv, AgreeInv, report' = report, NEW f \in Freezes, NEW row,
           freeze' = [freeze EXCEPT ![f] = row], row.report = freeze[f].report,
           RowAgrees(row, report),
           \/ freeze[f].status = "none" /\ row.status = "pending_execution"
           \/ freeze[f].status = "pending_execution" /\ row.status = "executed_pending_report"
           \/ /\ freeze[f].status \in {"pending_execution", "executed_pending_report", "reported"}
              /\ CnmrIn(freeze[f], report) # "draft" /\ row.status = "resolved"
    PROVE  Moves
<1> DEFINE stage == [g \in Freezes |-> freeze[g].status]
           cnmr == [g \in Freezes |-> CnmrIn(freeze[g], report)]
<1>0. freeze \in [Freezes -> FreezeRow]
      /\ \A r \in Reports : report[r].freeze \in Freezes \cup {None}
  BY DEF TypeInv, RowsOK, ReportRow
<1>1. \A g \in Freezes : RowAgrees(freeze'[g], report')
  BY <1>0 DEF AgreeInv
<1>2. \A g \in Freezes : freeze'[g].report = freeze[g].report
  BY <1>0
<1>3. \A r \in Reports : Owned(r, freeze', report')
  BY <1>0, <1>2 DEF AgreeInv, Owned
<1>4. cnmr' = cnmr
  BY <1>2 DEF CnmrIn
<1>5. stage' = [stage EXCEPT ![f] = row.status]
  BY <1>0
<1>6. Lifecycle!Identify(f) \/ Lifecycle!Execute(f) \/ Lifecycle!Resolve(f)
  <2>1. stage[f] = freeze[f].status /\ cnmr[f] = CnmrIn(freeze[f], report)
    OBVIOUS
  <2>2. CASE stage[f] = "none" /\ row.status = "pending_execution"
    BY <1>4, <1>5, <2>2 DEF Lifecycle!Identify, Lifecycle!Move, CnmrIn
  <2>3. CASE stage[f] = "pending_execution" /\ row.status = "executed_pending_report"
    BY <1>4, <1>5, <2>3 DEF Lifecycle!Execute, Lifecycle!Move, CnmrIn
  <2>4. CASE /\ stage[f] \in {"pending_execution", "executed_pending_report", "reported"}
             /\ cnmr[f] # "draft" /\ row.status = "resolved"
    BY <1>4, <1>5, <2>4 DEF Lifecycle!Resolve, Lifecycle!Move, CnmrIn
  <2>5. QED
    BY <2>1, <2>2, <2>3, <2>4
<1>7. QED
  BY <1>1, <1>3, <1>6 DEF Moves, Lifecycle!Next

LEMMA ReportedRow ==
    ASSUME NEW row \in FreezeRow
    PROVE  LET new == [row EXCEPT !.status = "reported"]
           IN  new.status = "reported" /\ new.report = row.report /\ new.executed = row.executed
BY DEF FreezeRow

LEMMA NotifiedRow ==
    ASSUME NEW row \in FreezeRow
    PROVE  LET new == [row EXCEPT !.notified = TRUE]
           IN  /\ new.status = row.status /\ new.report = row.report
               /\ new.executed = row.executed
BY DEF FreezeRow

LEMMA CommitMoves ==
    ASSUME TypeInv, GroundsInv, AgreeInv, NEW s \in Slots, Commits(s)
    PROVE  Moves
<1> DEFINE q == req[s]
           stage == [g \in Freezes |-> freeze[g].status]
           cnmr == [g \in Freezes |-> CnmrIn(freeze[g], report)]
<1>0. /\ Informed(q) /\ RequestAgrees(q, freeze, report)
      /\ freeze \in [Freezes -> FreezeRow] /\ report \in [Reports -> ReportRow]
      /\ \A f \in Freezes : RowAgrees(freeze[f], report)
      /\ \A r \in Reports : Owned(r, freeze, report)
      /\ \A f \in Freezes : freeze[f].report # None =>
             /\ freeze[f].report \in Reports /\ report[freeze[f].report].status # "none"
             /\ report[freeze[f].report].freeze = f
  BY DEF TypeInv, RequestsOK, RowsOK, AgreeInv, GroundsInv, RowGrounds, FreezeRow
<1>1. CASE ExecuteCommit(s)
  <2> DEFINE row == [freeze[q.freeze] EXCEPT !.status = "executed_pending_report",
                                             !.executed = TRUE]
  <2>1. q.freeze \in Freezes /\ freeze[q.freeze].status = "pending_execution"
    BY <1>0, <1>1 DEF ExecuteCommit, Informed, RequestAgrees
  <2>2. report' = report /\ freeze' = [freeze EXCEPT ![q.freeze] = row]
    BY <1>0, <1>1 DEF ExecuteCommit
  <2>3. /\ row.status = "executed_pending_report" /\ row.executed
        /\ row.report = freeze[q.freeze].report /\ freeze[q.freeze].report = None
    BY <1>0, <2>1 DEF FreezeRow, RowAgrees
  <2>4. RowAgrees(row, report)
    BY <2>3 DEF RowAgrees, CnmrIn
  <2> HIDE DEF row
  <2>5. QED
    BY <2>1, <2>2, <2>3, <2>4, RowMoves
<1>2. CASE ResolveCommit(s)
  <2> DEFINE row == [freeze[q.freeze] EXCEPT !.status = "resolved", !.reason = q.reason]
  <2>1. /\ q.freeze \in Freezes /\ freeze[q.freeze].status \notin {"none", "resolved"}
        /\ CnmrIn(freeze[q.freeze], report) # "draft"
    BY <1>0, <1>2 DEF ResolveCommit, Informed, RequestAgrees
  <2>2. report' = report /\ freeze' = [freeze EXCEPT ![q.freeze] = row]
    BY <1>0, <1>2, <2>1 DEF ResolveCommit
  <2>3. /\ row.status = "resolved" /\ row.report = freeze[q.freeze].report
        /\ freeze[q.freeze].status \in {"pending_execution", "executed_pending_report", "reported"}
    BY <1>0, <2>1 DEF FreezeRow
  <2>4. RowAgrees(row, report)
    BY <2>1, <2>3 DEF RowAgrees, CnmrIn
  <2> HIDE DEF row
  <2>5. QED
    BY <2>1, <2>2, <2>3, <2>4, RowMoves
<1>3. CASE FileCommit(s)
  <2>1. /\ q.freeze \in Freezes /\ freeze[q.freeze].report = None
        /\ freeze[q.freeze].status = "executed_pending_report"
    BY <1>0, <1>3 DEF FileCommit, Informed, RequestAgrees
  <2>2. PICK f \in Freezes : f = q.freeze
    BY <2>1
  <2>3. PICK r \in Reports :
            /\ report[r].status = "none"
            /\ report' = [report EXCEPT ![r] =
                   [status |-> "draft", freeze |-> f]]
            /\ freeze' = [freeze EXCEPT ![f].report = r]
    BY <1>3, <2>2 DEF FileCommit
  <2>4. /\ report'[r].status = "draft" /\ report'[r].freeze = f
        /\ \A p \in Reports \ {r} : report'[p] = report[p]
    BY <1>0, <2>3
  <2>5. /\ freeze'[f].status = "executed_pending_report" /\ freeze'[f].report = r
        /\ freeze'[f].executed = freeze[f].executed
        /\ \A g \in Freezes \ {f} : freeze'[g] = freeze[g]
    BY <1>0, <2>1, <2>2, <2>3 DEF FreezeRow
  <2>6. CnmrIn(freeze'[f], report') = "draft" /\ CnmrIn(freeze[f], report) = "none"
    BY <2>1, <2>2, <2>4, <2>5 DEF CnmrIn
  <2>7. \A g \in Freezes \ {f} : CnmrIn(freeze'[g], report') = CnmrIn(freeze[g], report)
    BY <1>0, <2>3, <2>4, <2>5 DEF CnmrIn
  <2>8. \A g \in Freezes : RowAgrees(freeze'[g], report')
    <3>1. RowAgrees(freeze'[f], report')
      BY <1>0, <2>1, <2>2, <2>5, <2>6 DEF RowAgrees
    <3>2. ASSUME NEW g \in Freezes \ {f}
          PROVE  RowAgrees(freeze'[g], report')
      <4>1. freeze'[g] = freeze[g] /\ CnmrIn(freeze[g], report') = CnmrIn(freeze[g], report)
        BY <2>5, <2>7
      <4>2. RowAgrees(freeze[g], report)
        BY <1>0
      <4>3. QED
        BY <4>1, <4>2 DEF RowAgrees
    <3>3. QED
      BY <3>1, <3>2
  <2>9. \A p \in Reports : Owned(p, freeze', report')
    <3>1. \A p \in Reports : report[p].freeze \in Freezes \cup {None}
      BY <1>0 DEF ReportRow
    <3>2. QED
      BY <1>0, <2>1, <2>2, <2>4, <2>5, <3>1 DEF Owned
  <2>10. stage' = stage
    BY <2>1, <2>2, <2>5
  <2>11. cnmr' = [cnmr EXCEPT ![f] = "draft"]
    BY <2>6, <2>7
  <2>12. stage[f] = "executed_pending_report" /\ cnmr[f] = "none"
    BY <2>1, <2>2, <2>6
  <2>13. Lifecycle!Draft(f)
    BY <2>10, <2>11, <2>12 DEF Lifecycle!Draft, CnmrIn
  <2>14. QED
    BY <2>8, <2>9, <2>13 DEF Moves, Lifecycle!Next
<1>4. CASE FinaliseCommit(s)
  <2>1. q.report \in Reports /\ report[q.report].status = "draft"
    BY <1>0, <1>4 DEF FinaliseCommit, Informed, RequestAgrees
  <2>2. PICK r \in Reports : r = q.report
    BY <2>1
  <2>3. /\ report' = [report EXCEPT ![r].status = "submitted"]
        /\ freeze' = mark_freeze_reported(r)
    BY <1>4, <2>2 DEF FinaliseCommit
  <2>4. /\ report'[r].status = "submitted"
        /\ \A p \in Reports : report'[p].freeze = report[p].freeze
        /\ \A p \in Reports \ {r} : report'[p] = report[p]
    BY <1>0, <2>3 DEF ReportRow
  <2>5. \A f \in Freezes : freeze[f].report # r => freeze'[f] = freeze[f]
    BY <2>3 DEF mark_freeze_reported
  <2>6. \A f \in Freezes : freeze[f].report # r =>
            CnmrIn(freeze'[f], report') = CnmrIn(freeze[f], report)
    BY <1>0, <2>4, <2>5 DEF CnmrIn
  <2>7. \A f \in Freezes : freeze[f].report # r => RowAgrees(freeze'[f], report')
    BY <1>0, <2>5, <2>6 DEF RowAgrees
  <2>8. ASSUME NEW f \in Freezes, freeze[f].report = r
        PROVE  /\ freeze[f].status = "executed_pending_report" /\ freeze[f].executed
               /\ freeze'[f] = [freeze[f] EXCEPT !.status = "reported"]
               /\ report[r].freeze = f /\ CnmrIn(freeze[f], report) = "draft"
    <3>1. report[r].freeze = f /\ CnmrIn(freeze[f], report) = "draft"
      BY <1>0, <2>1, <2>2, <2>8 DEF CnmrIn
    <3>2. freeze[f].status \in {"none", "pending_execution", "executed_pending_report",
                               "reported", "resolved"}
      BY <1>0 DEF FreezeRow
    <3>3. freeze[f].status = "executed_pending_report" /\ freeze[f].executed
      BY <1>0, <2>8, <3>1, <3>2 DEF RowAgrees
    <3>4. QED
      BY <2>3, <2>8, <3>1, <3>3 DEF mark_freeze_reported
  <2>9. \A f \in Freezes : freeze'[f].report = freeze[f].report
    BY <1>0, <2>5, <2>8, ReportedRow
  <2>10. \A p \in Reports : Owned(p, freeze', report')
    <3>1. \A p \in Reports : report[p].freeze \in Freezes \cup {None}
      BY <1>0 DEF ReportRow
    <3>2. QED
      BY <1>0, <2>4, <2>9, <3>1 DEF Owned
  <2>11. CASE \A f \in Freezes : freeze[f].report # r
    <3>1. UNCHANGED Lifecycle!vars
      <4>1. stage' = stage /\ cnmr' = cnmr
        BY <2>5, <2>6, <2>11
      <4>2. QED
        BY <4>1 DEF Lifecycle!vars, CnmrIn
    <3>2. QED
      BY <2>7, <2>10, <2>11, <3>1 DEF Moves
  <2>12. ASSUME NEW f \in Freezes, freeze[f].report = r
         PROVE  Moves
    <3>1. \A g \in Freezes \ {f} : freeze[g].report # r
      BY <2>8, <2>12
    <3>2. freeze'[f].status = "reported" /\ freeze'[f].report = r /\ freeze'[f].executed
      <4>1. freeze[f] \in FreezeRow /\ freeze'[f] = [freeze[f] EXCEPT !.status = "reported"]
            /\ freeze[f].executed
        BY <1>0, <2>8, <2>12
      <4>2. QED
        BY <2>12, <4>1, ReportedRow
    <3>3. CnmrIn(freeze'[f], report') = "submitted"
      BY <2>4, <3>2 DEF CnmrIn
    <3>4. \A g \in Freezes : RowAgrees(freeze'[g], report')
      BY <2>7, <3>1, <3>2, <3>3 DEF RowAgrees
    <3>5. stage' = [stage EXCEPT ![f] = "reported"]
      BY <2>5, <3>1, <3>2
    <3>6. cnmr' = [cnmr EXCEPT ![f] = "submitted"]
      BY <2>6, <3>1, <3>3
    <3>7. stage[f] = "executed_pending_report" /\ cnmr[f] = "draft"
      BY <2>8, <2>12
    <3>8. Lifecycle!Report(f)
      BY <3>5, <3>6, <3>7 DEF Lifecycle!Report, Lifecycle!Move, CnmrIn
    <3>9. QED
      BY <2>10, <3>4, <3>8 DEF Moves, Lifecycle!Next
  <2>13. QED
    BY <2>11, <2>12
<1>5. CASE SaveCommit(s)
  <2>1. SameColumns
    BY <1>5 DEF SaveCommit, SameColumns, rows
  <2>2. QED
    BY <2>1, SameMoves
<1>6. QED
  BY <1>1, <1>2, <1>3, <1>4, <1>5 DEF Commits

\* What a request reads agrees with what it sees.
LEMMA ReadAgrees ==
    ASSUME TypeInv, AgreeInv, NEW s \in Slots, Reads(s)
    PROVE  \A t \in Slots : RequestAgrees(req'[t], freeze, report)
<1>0. /\ req \in [Slots -> Request] /\ \A t \in Slots : RequestAgrees(req[t], freeze, report)
      /\ RequestAgrees(NoRequest, freeze, report)
      /\ \A f \in Freezes : RowAgrees(freeze[f], report) /\ freeze[f] \in FreezeRow
  BY DEF TypeInv, RowsOK, RequestsOK, AgreeInv, RequestAgrees, NoRequest
<1>1. ASSUME NEW q, req' = [req EXCEPT ![s] = q], RequestAgrees(q, freeze, report)
      PROVE  \A t \in Slots : RequestAgrees(req'[t], freeze, report)
  BY <1>0, <1>1
<1>2. ASSUME NEW f \in Freezes, ExecuteCheck(s, f)
      PROVE  \A t \in Slots : RequestAgrees(req'[t], freeze, report)
  <2>1. freeze[f].status = "pending_execution"
    BY <1>0, <1>2 DEF ExecuteCheck, MayExecute, RowAgrees, FreezeRow
  <2>2. QED
    BY <1>1, <1>2, <2>1 DEF ExecuteCheck, Begin, RequestAgrees
<1>3. ASSUME NEW f \in Freezes, FileCheck(s, f)
      PROVE  \A t \in Slots : RequestAgrees(req'[t], freeze, report)
  BY <1>1, <1>3 DEF FileCheck, Begin, RequestAgrees
<1>4. ASSUME NEW f \in Freezes, NEW reason \in Reasons, ResolveCheck(s, f, reason)
      PROVE  \A t \in Slots : RequestAgrees(req'[t], freeze, report)
  BY <1>1, <1>4 DEF ResolveCheck, MayResolve, Begin, RequestAgrees
<1>5. ASSUME NEW r \in Reports, FinaliseCheck(s, r) \/ SaveCheck(s, r)
      PROVE  \A t \in Slots : RequestAgrees(req'[t], freeze, report)
  BY <1>1, <1>5 DEF FinaliseCheck, SaveCheck, IsDraft, Begin, RequestAgrees
<1>6. CASE ResolveReadReport(s)
  <2> DEFINE q == [req[s] EXCEPT !.phase = "resolveReport"]
  <2>1. q.freeze = req[s].freeze /\ q.phase = "resolveReport" /\ req[s].phase = "resolve"
    BY <1>0, <1>6 DEF Request, ResolveReadReport
  <2>2. CASE DraftLinked(req[s].freeze)
    BY <1>0, <1>1, <1>6, <2>2 DEF ResolveReadReport, Finish
  <2>3. CASE ~DraftLinked(req[s].freeze)
    <3>1. RequestAgrees(q, freeze, report)
      BY <1>0, <2>1, <2>3 DEF RequestAgrees, DraftLinked, CnmrIn
    <3>2. [req EXCEPT ![s].phase = "resolveReport"] = [req EXCEPT ![s] = q]
      BY <1>0
    <3>3. QED
      BY <1>1, <1>6, <2>3, <3>1, <3>2 DEF ResolveReadReport
  <2>4. QED
    BY <2>2, <2>3
<1>7. CASE Abort(s)
  BY <1>0, <1>1, <1>7 DEF Abort, Finish
<1>8. QED
  BY <1>2, <1>3, <1>4, <1>5, <1>6, <1>7 DEF Reads

LEMMA AgreeStep ==
    ASSUME OneRequest, TypeInv, GroundsInv, AgreeInv, [Next]_vars
    PROVE  AgreeInv' /\ [Lifecycle!Next]_(Lifecycle!vars)
<1> DEFINE Goal == AgreeInv' /\ [Lifecycle!Next]_(Lifecycle!vars)
<1>0. freeze \in [Freezes -> FreezeRow] /\ \A s \in Slots : Informed(req[s])
      /\ req \in [Slots -> Request]
  BY DEF TypeInv, RowsOK, RequestsOK
<1>1. ASSUME SameColumns, UNCHANGED req
      PROVE  Goal
  BY <1>1, SameMoves DEF Moves, AgreeInv
<1>2. UNCHANGED rows => SameColumns
  BY DEF rows, SameColumns
<1>3. ASSUME NEW s \in Slots, Reads(s)
      PROVE  Goal
  BY <1>2, <1>3, ReadsStep, ReadAgrees, SameMoves DEF rows, Moves, AgreeInv
<1>4. ASSUME NEW s \in Slots, Commits(s)
      PROVE  Goal
  <2>1. Moves /\ req' = [req EXCEPT ![s] = NoRequest]
    BY <1>4, CommitMoves, CommitsStep DEF Finish
  <2>2. \A t \in Slots : req'[t] = NoRequest
    BY <1>0, <2>1 DEF OneRequest
  <2>3. \A t \in Slots : RequestAgrees(req'[t], freeze', report')
    BY <2>2 DEF NoRequest, RequestAgrees
  <2>4. QED
    BY <2>1, <2>3 DEF Moves, AgreeInv
<1>5. ASSUME NEW f \in Freezes, Identify(f)
      PROVE  Goal
  <2> DEFINE row == [freeze[f] EXCEPT !.status = "pending_execution"]
  <2>1. /\ freeze[f].status = "none" /\ UNCHANGED <<report, req>>
        /\ freeze' = [freeze EXCEPT ![f] = row]
    BY <1>0, <1>5 DEF Identify
  <2>2. row.status = "pending_execution" /\ row.report = freeze[f].report
        /\ freeze[f].report = None
    BY <1>0, <2>1 DEF FreezeRow, AgreeInv, RowAgrees
  <2>3. RowAgrees(row, report)
    BY <2>2 DEF RowAgrees
  <2>4. \A t \in Slots : RequestAgrees(req'[t], freeze', report')
    <3>1. \A g \in Freezes \ {f} : freeze'[g] = freeze[g]
      BY <1>0, <2>1
    <3>2. \A t \in Slots : req[t].phase \in {"execute", "resolve", "resolveReport", "file"} =>
              req[t].freeze \in Freezes \ {f}
      BY <1>0, <2>1 DEF AgreeInv, RequestAgrees, Informed
    <3> HIDE DEF row
    <3>3. QED
      BY <2>1, <3>1, <3>2 DEF AgreeInv, RequestAgrees
  <2> HIDE DEF row
  <2>5. Moves
    BY <2>1, <2>2, <2>3, RowMoves
  <2>6. QED
    BY <2>4, <2>5 DEF Moves, AgreeInv
<1>6. CASE (\E f \in Freezes : Delist(f) \/ Tick(f)) \/ ChangeMlro \/ UNCHANGED vars
  BY <1>1, <1>2, <1>6 DEF Delist, Tick, ChangeMlro, vars, rows, SameColumns
<1>7. ASSUME NEW j \in Jobs, run_freeze_obligation_check(j)
      PROVE  Goal
  <2>1. /\ UNCHANGED <<report, req>>
        /\ \A f \in Freezes : \/ freeze'[f] = freeze[f]
                              \/ freeze'[f] = [freeze[f] EXCEPT !.notified = TRUE]
    BY <1>7, JobKeeps
  <2>2. SameColumns
    BY <1>0, <2>1, NotifiedRow DEF SameColumns
  <2>3. QED
    BY <1>1, <2>1, <2>2
<1>8. QED
  BY <1>3, <1>4, <1>5, <1>6, <1>7, NextSplit DEF Surroundings

LEMMA AgreeInit == Init => AgreeInv
<1> SUFFICES ASSUME Init PROVE AgreeInv
  OBVIOUS
<1>1. \A f \in Freezes : freeze[f].status \in {"none", "pending_execution"}
                         /\ freeze[f].report = None
  BY DEF Init
<1>2. \A f \in Freezes : RowAgrees(freeze[f], report)
  BY <1>1 DEF RowAgrees
<1>3. \A r \in Reports : Owned(r, freeze, report)
  BY DEF Init, Owned
<1>4. \A s \in Slots : RequestAgrees(req[s], freeze, report)
  BY DEF Init, NoRequest, RequestAgrees
<1>5. QED
  BY <1>2, <1>3, <1>4 DEF AgreeInv

\* While requests do not overlap there is one CNMR per freeze, and the two tables
\* agree on whether it was filed, whatever the overdue check and list refreshes do.
THEOREM FreezeAgreesWithCNMRCorrect ==
    ASSUME OneRequest
    PROVE  Spec => []FreezeAgreesWithCNMR
<1>1. TypeInv /\ AgreeInv => FreezeAgreesWithCNMR
  <2> SUFFICES ASSUME TypeInv, AgreeInv PROVE FreezeAgreesWithCNMR
    OBVIOUS
  <2>1. \A r \in Reports : report[r].freeze \in Freezes \cup {None}
    BY DEF TypeInv, RowsOK, ReportRow
  <2>2. \A f \in Freezes : RowAgrees(freeze[f], report)
    BY DEF AgreeInv
  <2>3. \A p, r \in Reports :
            report[p].freeze # None /\ report[p].freeze = report[r].freeze => p = r
    BY <2>1 DEF AgreeInv, Owned
  <2>4. QED
    BY <2>2, <2>3 DEF FreezeAgreesWithCNMR, RowAgrees, CnmrIn
<1>2. TypeInv /\ GroundsInv /\ AgreeInv /\ [Next]_vars => TypeInv' /\ GroundsInv' /\ AgreeInv'
  BY TypeStep, GroundsStep, AgreeStep
<1>3. QED
  BY <1>1, <1>2, TypeInit, GroundsInit, AgreeInit, PTL DEF Spec

\* The workflow of cases/freeze.py and of the report routes, with its checks before
\* its transactions, implements FreezeLifecycle while requests do not overlap.
THEOREM LifecycleImplemented ==
    ASSUME OneRequest
    PROVE  Spec => LifecycleSpec
<1>1. Init => Lifecycle!Init
  BY DEF Init, Lifecycle!Init
<1>2. TypeInv /\ GroundsInv /\ AgreeInv /\ [Next]_vars => TypeInv' /\ GroundsInv' /\ AgreeInv'
  BY TypeStep, GroundsStep, AgreeStep
<1>3. TypeInv /\ GroundsInv /\ AgreeInv /\ [Next]_vars => [Lifecycle!Next]_(Lifecycle!vars)
  BY AgreeStep
<1>4. QED
  BY <1>1, <1>2, <1>3, TypeInit, GroundsInit, AgreeInit, PTL
  DEF Spec, LifecycleSpec, Lifecycle!Spec

===============================================================================
