---------------------------------- MODULE Mfa ----------------------------------
(***************************************************************************)
(* The second factor of one operator: enrolment, TOTP and backup codes,    *)
(* its lock-out and its removal (auth.py, api/routers/mfa.py, the mobile   *)
(* /auth/mfa/verify).  Rows are keyed by operator, so one is enough.       *)
(***************************************************************************)
EXTENDS Requests, Integers

CONSTANTS
    MFA_MAX_FAILURES,
    MaxStep,         \* bound: TOTP time steps
    MaxDrawn         \* bound: secrets and sets of backup codes ever drawn

\* The clock starts at step 2, so that a window of one step lies before it.
ASSUME MfaAssumption ==
    MFA_MAX_FAILURES \in Nat \ {0} /\ MaxStep \in Nat /\ MaxStep >= 2 /\ MaxDrawn \in Nat

VARIABLES
    factor,      \* the row of mfa_secrets; secret 0 stands for no row
    backups,     \* unused rows of mfa_backup_codes
    drawn,       \* how many secrets and sets of backup codes were drawn at random
    step,        \* the clock, in TOTP time steps
    mreq,        \* mreq[s]: the request in slot s
    proven,      \* history: secrets a code of which was accepted
    accepted,    \* history: codes accepted
    replayed     \* history: codes accepted a second time

mfaVars == <<factor, backups, drawn, step, mreq, proven, accepted, replayed>>

-------------------------------------------------------------------------------
\* Vocabulary

\* failed_attempts; locked_until lies in the future; last_step, 0 for NULL.
Factor == [secret : 0..MaxDrawn, confirmed : BOOLEAN, failures : 0..MFA_MAX_FAILURES - 1,
           locked : BOOLEAN, last : 0..MaxStep]
NoFactor == [secret |-> 0, confirmed |-> FALSE, failures |-> 0, locked |-> FALSE, last |-> 0]

\* A code is told apart by the draw and the time step it was made from; a set of
\* ten backup codes is represented by one, which has no time step.
BackupOf(draw) == <<draw, 0>>
Codes == (0..MaxDrawn) \X (0..MaxStep)
WrongCode == <<0, 0>>

\* Where the request came from: the sign-in challenge, /mfa/setup or /mfa/disable.
Stages == {"verify", "setup", "disable"}
MfaRequest == [phase : {"idle", "enroll", "totp", "claim", "backup", "claimBackup", "miss",
                        "ok", "confirm", "delete"},
               stage : Stages, code : Codes, failures : 0..MFA_MAX_FAILURES - 1]
NoMfaRequest == [phase |-> "idle", stage |-> "verify", code |-> WrongCode, failures |-> 0]

\* What may be typed in: a code that was drawn, old or new, or a wrong one.
Typed == {WrongCode} \cup {code \in (1..drawn) \X (0..MaxStep) : code[2] <= step + 1}

mfa_is_enrolled == factor.secret # 0 /\ factor.confirmed

-------------------------------------------------------------------------------
MfaInit ==
    /\ factor = NoFactor
    /\ backups = {}
    /\ drawn = 0
    /\ step = 2
    /\ mreq = [s \in Slots |-> NoMfaRequest]
    /\ proven = {} /\ accepted = {} /\ replayed = {}

MfaStart(s, r) == mreq[s].phase = "idle" /\ mreq' = [mreq EXCEPT ![s] = r]
MfaGoto(s, phase) == mreq' = [mreq EXCEPT ![s].phase = phase]
MfaEnd(s) == mreq' = [mreq EXCEPT ![s] = NoMfaRequest]

Accept(code) ==
    /\ accepted' = accepted \cup {code}
    /\ replayed' = IF code \in accepted THEN replayed \cup {code} ELSE replayed
    /\ proven' = proven \cup {code[1]}

\* mfa_setup_form, mfa_enroll: a pending secret is shown again, none is drawn.
EnrollRead(s) ==
    /\ factor.secret = 0
    /\ MfaStart(s, [NoMfaRequest EXCEPT !.phase = "enroll"])
    /\ UNCHANGED <<factor, backups, drawn, step, proven, accepted, replayed>>

\* INSERT OR REPLACE, whatever has become of the row since.
EnrollWrite(s) ==
    /\ mreq[s].phase = "enroll" /\ drawn < MaxDrawn
    /\ drawn' = drawn + 1
    /\ factor' = [NoFactor EXCEPT !.secret = drawn + 1]
    /\ MfaEnd(s)
    /\ UNCHANGED <<backups, step, proven, accepted, replayed>>

\* mfa_check_code reads the counter and the lock; only the routes of the challenge
\* and of /mfa/disable ask for a confirmed enrolment, /mfa/setup does not.
CheckRead(s, stage, code) ==
    /\ factor.secret # 0 /\ ~factor.locked
    /\ stage = "verify" => mfa_is_enrolled
    /\ MfaStart(s, [phase |-> "totp", stage |-> stage, code |-> code,
                    failures |-> factor.failures])
    /\ UNCHANGED <<factor, backups, drawn, step, proven, accepted, replayed>>

\* A code of the row's secret, of a time step within the window and newer than the
\* last one accepted; outside the setup only a confirmed enrolment counts.
Verifies(code) ==
    /\ code[1] = factor.secret
    /\ code[2] \in (step - 1)..(step + 1)
    /\ code[2] > factor.last

\* mfa_verify reads the row ...
MfaVerify(s) ==
    /\ mreq[s].phase = "totp"
    /\ MfaGoto(s, IF /\ factor.secret # 0 /\ Verifies(mreq[s].code)
                     /\ mreq[s].stage = "setup" \/ factor.confirmed
                  THEN "claim"
                  ELSE IF mreq[s].stage = "setup" THEN "miss" ELSE "backup")
    /\ UNCHANGED <<factor, backups, drawn, step, proven, accepted, replayed>>

\* ... and its UPDATE claims the time step again.
\* Mutation: the UPDATE trusts what was read.
StepFreeAlways(at) == factor.secret # 0
StepFree(at) == factor.secret # 0 /\ factor.last < at

ClaimStep(s) ==
    LET code == mreq[s].code IN
    /\ mreq[s].phase = "claim"
    /\ IF StepFree(code[2])
       THEN /\ factor' = [factor EXCEPT !.last = code[2]]
            /\ Accept(code)
            /\ MfaGoto(s, "ok")
       ELSE /\ MfaGoto(s, IF mreq[s].stage = "setup" THEN "miss" ELSE "backup")
            /\ UNCHANGED <<factor, proven, accepted, replayed>>
    /\ UNCHANGED <<backups, drawn, step>>

\* mfa_verify_backup_code: SELECT the unused codes, then claim the one that fits.
BackupRead(s) ==
    /\ mreq[s].phase = "backup"
    /\ MfaGoto(s, IF mreq[s].code \in backups THEN "claimBackup" ELSE "miss")
    /\ UNCHANGED <<factor, backups, drawn, step, proven, accepted, replayed>>

ClaimBackup(s) ==
    LET code == mreq[s].code IN
    /\ mreq[s].phase = "claimBackup"
    /\ IF code \in backups
       THEN backups' = backups \ {code} /\ Accept(code) /\ MfaGoto(s, "ok")
       ELSE MfaGoto(s, "miss") /\ UNCHANGED <<backups, proven, accepted, replayed>>
    /\ UNCHANGED <<factor, drawn, step>>

\* The UPDATEs by operator id find no row once the factor is disabled.
Present(row) == IF factor.secret = 0 THEN factor ELSE row

LockedAt(failures) == failures >= MFA_MAX_FAILURES

Miss(s) ==
    LET failures == mreq[s].failures + 1
        locked == LockedAt(failures)
    IN  /\ mreq[s].phase = "miss"
        /\ factor' = Present([factor EXCEPT !.failures = IF locked THEN 0 ELSE failures,
                                            !.locked = locked])
        /\ MfaEnd(s)
        /\ UNCHANGED <<backups, drawn, step, proven, accepted, replayed>>

\* The challenge ends here: the session module marks the session as verified.
CodeOk(s) ==
    /\ mreq[s].phase = "ok"
    /\ factor' = Present([factor EXCEPT !.failures = 0, !.locked = FALSE])
    /\ CASE mreq[s].stage = "verify" -> MfaEnd(s)
         [] mreq[s].stage = "setup" -> MfaGoto(s, "confirm")
         [] mreq[s].stage = "disable" -> MfaGoto(s, "delete")
    /\ UNCHANGED <<backups, drawn, step, proven, accepted, replayed>>

\* mfa_confirm: promote a pending secret, and issue ten new backup codes whether or
\* not there was one to promote.
Confirm(s) ==
    /\ mreq[s].phase = "confirm" /\ drawn < MaxDrawn
    /\ factor' = Present(IF factor.confirmed THEN factor
                         ELSE [factor EXCEPT !.confirmed = TRUE, !.failures = 0, !.locked = FALSE])
    /\ drawn' = drawn + 1
    /\ backups' = {BackupOf(drawn + 1)}
    /\ MfaEnd(s)
    /\ UNCHANGED <<step, proven, accepted, replayed>>

\* mfa_disable_submit deletes the secret and the codes in one transaction.
\* Mutation: the backup codes survive.
CodesKept == backups
CodesLeft == {}

Disable(s) ==
    /\ mreq[s].phase = "delete"
    /\ factor' = NoFactor
    /\ backups' = CodesLeft
    /\ MfaEnd(s)
    /\ UNCHANGED <<drawn, step, proven, accepted, replayed>>

\* admin_unlock_operator, or MFA_LOCKOUT goes by.
MfaUnlock ==
    /\ factor.locked \/ factor.failures > 0
    /\ factor' = [factor EXCEPT !.failures = 0, !.locked = FALSE]
    /\ UNCHANGED <<backups, drawn, step, mreq, proven, accepted, replayed>>

TotpTick ==
    /\ step < MaxStep
    /\ step' = step + 1
    /\ UNCHANGED <<factor, backups, drawn, mreq, proven, accepted, replayed>>

MfaDie(s) ==
    /\ mreq[s].phase # "idle"
    /\ MfaEnd(s)
    /\ UNCHANGED <<factor, backups, drawn, step, proven, accepted, replayed>>

MfaStep(s) ==
    \/ EnrollRead(s) \/ EnrollWrite(s)
    \/ \E stage \in Stages, code \in Typed : CheckRead(s, stage, code)
    \/ MfaVerify(s) \/ ClaimStep(s) \/ BackupRead(s) \/ ClaimBackup(s)
    \/ Miss(s) \/ CodeOk(s) \/ Confirm(s) \/ Disable(s) \/ MfaDie(s)

MfaNext == (\E s \in Slots : MfaStep(s)) \/ MfaUnlock \/ TotpTick

MfaSpec == MfaInit /\ [][MfaNext]_mfaVars

-------------------------------------------------------------------------------
\* Properties

\* Types of the rows, the requests and the histories.
MfaTypeOK ==
    /\ factor \in Factor
    /\ backups \subseteq Codes
    /\ drawn \in 0..MaxDrawn /\ step \in 2..MaxStep
    /\ mreq \in [Slots -> MfaRequest]
    /\ proven \subseteq 0..MaxDrawn /\ accepted \subseteq Codes /\ replayed \subseteq Codes

\* However submissions overlap, no backup code and no TOTP code of the enrolment in
\* force is accepted twice.  (A code of an enrolment that was disabled and replaced
\* while a submission of it waited can be: the claim of its step then meets a new row.)
CodeAcceptedOnce == \A code \in replayed : code[2] # 0 /\ code[1] # factor.secret

\* While requests do not overlap, an enrolment is confirmed only by a code of its own
\* secret, and backup codes exist only beside a confirmed enrolment, whatever dies or
\* is disabled half way.
ConfirmedIsProven ==
    /\ factor.confirmed => factor.secret \in proven
    /\ backups # {} => mfa_is_enrolled
===============================================================================
