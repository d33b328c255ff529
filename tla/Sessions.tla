-------------------------------- MODULE Sessions --------------------------------
(***************************************************************************)
(* Signing in and out: auth.py (login, sessions, trusted devices,          *)
(* passwords), api/routers/auth.py, mfa.py, account.py, admin.py and their *)
(* mobile counterparts, for the operators of one organisation.             *)
(*                                                                         *)
(* A request reads in autocommit and writes in short transactions, most of *)
(* them one statement long; every commit is a step here, and the process   *)
(* may die between two.  A handler that reads nothing but its own session  *)
(* before its only commit is one step.  Whether a second-factor code is    *)
(* right is decided in Mfa, which token is redeemed in OneTimeTokens.      *)
(***************************************************************************)
EXTENDS Requests, Integers, FiniteSets, FiniteSetsExt

CONSTANTS
    Operators,                \* accounts of the organisation
    Mlros,                    \* those with the role 'mlro'
    MAX_FAILED_LOGINS,
    MAX_CONCURRENT_SESSIONS,
    MaxSessions,              \* bound: sessions ever created
    MaxPassword               \* bound: passwords ever set

ASSUME MlrosAssumption == Mlros \subseteq Operators
ASSUME LimitAssumption ==
    /\ MAX_FAILED_LOGINS \in Nat \ {0} /\ MAX_CONCURRENT_SESSIONS \in Nat \ {0}
    /\ MaxSessions \in Nat /\ MaxPassword \in Nat
ASSUME NoneAssumption == None \notin Operators /\ None \notin Nat

VARIABLES
    account,     \* account[o]: the row of operators
    session,     \* session[t]: the row of sessions, numbered in order of creation
    trusted,     \* operators with a live 'remember this device' token
    sreq,        \* sreq[s]: the request in slot s
    misses,      \* history: wrong passwords since the count was last cleared
    torn         \* history: operators whose password change died half way

sessionVars == <<account, session, trusted, sreq, misses, torn>>

-------------------------------------------------------------------------------
\* Vocabulary

Tokens == 1..MaxSessions

Account == [password : 0..MaxPassword, active : BOOLEAN, verified : BOOLEAN,
            failed : 0..MAX_FAILED_LOGINS, lock : {"none", "future", "past"}]

\* 'mfa' is the column mfa_verified; 'proof' records what the holder has shown for
\* it, or for the session this one was carried over from; 'handed' that the token
\* has left the server; 'password' the one in force when the request that opened
\* the session read it.
Proofs == {"none", "code", "device"}
Session == [status : {"unused", "live", "idle", "expired", "revoked"},
            operator : Operators \cup {None}, mfa : BOOLEAN, handed : BOOLEAN,
            proof : Proofs, password : 0..MaxPassword]
NoSession == [status |-> "unused", operator |-> None, mfa |-> FALSE, handed |-> FALSE,
              proof |-> "none", password |-> 0]

Request == [phase : {"idle", "lapsed", "answer", "count", "oldest", "insert", "challenge",
                     "code", "remember", "password", "revoke", "forget", "deactivate"},
            operator : Operators \cup {None}, answer : {"right", "wrong", "refused"},
            failed : 0..MAX_FAILED_LOGINS, password : 0..MaxPassword,
            token : Tokens \cup {None}, carried : BOOLEAN, proof : Proofs]
NoRequest == [phase |-> "idle", operator |-> None, answer |-> "refused", failed |-> 0,
              password |-> 0, token |-> None, carried |-> FALSE, proof |-> "none"]

\* revoked_at is NULL and expires_at lies ahead; an idle session still counts.
Live(t) == session[t].status \in {"live", "idle"}
LiveOf(o) == {t \in Tokens : Live(t) /\ session[t].operator = o}

resolve_session(t) == session[t].status = "live" /\ account[session[t].operator].active

\* Mutation: an MLRO session is accepted before its second factor.
ResolvedOnly(t) == resolve_session(t) /\ session[t].handed
require_session(t) ==
    /\ resolve_session(t) /\ session[t].handed
    /\ session[t].operator \in Mlros => session[t].mfa

\* The MLRO-only administration routes.
AdminSession(t) == require_session(t) /\ session[t].operator \in Mlros

-------------------------------------------------------------------------------
SessionsInit ==
    /\ account \in [Operators -> {[password |-> 0, active |-> TRUE, verified |-> v,
                                   failed |-> 0, lock |-> "none"] : v \in BOOLEAN}]
    /\ session = [t \in Tokens |-> NoSession]
    /\ trusted = {}
    /\ sreq = [s \in Slots |-> NoRequest]
    /\ misses = [o \in Operators |-> 0]
    /\ torn = {}

Start(s, r) == sreq[s].phase = "idle" /\ sreq' = [sreq EXCEPT ![s] = r]
Goto(s, phase) == sreq' = [sreq EXCEPT ![s].phase = phase]
End(s) == sreq' = [sreq EXCEPT ![s] = NoRequest]

Unlocked(row) == [row EXCEPT !.failed = 0, !.lock = "none"]
Cleared(o) ==
    /\ account' = [account EXCEPT ![o] = Unlocked(@)]
    /\ misses' = [misses EXCEPT ![o] = 0]

\* login(): the row of the operator is read once.  A lock in the future refuses
\* the attempt; an inactive or unverified account is refused too, but only after
\* a lapsed lock was cleared.
Answer(row, right) == IF ~row.active THEN "refused" ELSE IF ~right THEN "wrong"
                      ELSE IF row.verified THEN "right" ELSE "refused"

LoginRead(s, o, right) ==
    LET row == account[o]
        lapsed == row.lock = "past"
    IN  /\ row.lock # "future"
        /\ lapsed \/ Answer(row, right) # "refused"
        /\ Start(s, [NoRequest EXCEPT
               !.phase = IF lapsed THEN "lapsed" ELSE "answer",
               !.operator = o, !.answer = Answer(row, right), !.password = row.password,
               !.failed = IF lapsed THEN 0 ELSE row.failed])
        /\ UNCHANGED <<account, session, trusted, misses, torn>>

ClearLapsedLock(s) ==
    /\ sreq[s].phase = "lapsed"
    /\ Cleared(sreq[s].operator)
    /\ IF sreq[s].answer = "refused" THEN End(s) ELSE Goto(s, "answer")
    /\ UNCHANGED <<session, trusted, torn>>

\* Mutation: the account locks one attempt too late.
TooManyLate(failed) == failed > MAX_FAILED_LOGINS
TooMany(failed) == failed >= MAX_FAILED_LOGINS

WrongPassword(s) ==
    LET o == sreq[s].operator
        failed == sreq[s].failed + 1
    IN  /\ sreq[s].phase = "answer" /\ sreq[s].answer = "wrong"
        /\ account' = [account EXCEPT ![o].failed = failed,
                                      ![o].lock = IF TooMany(failed) THEN "future" ELSE @]
        /\ misses' = [misses EXCEPT ![o] = Min({@ + 1, MAX_FAILED_LOGINS})]
        /\ End(s)
        /\ UNCHANGED <<session, trusted, torn>>

RightPassword(s) ==
    /\ sreq[s].phase = "answer" /\ sreq[s].answer = "right"
    /\ Cleared(sreq[s].operator)
    /\ Goto(s, "count")
    /\ UNCHANGED <<session, trusted, torn>>

\* uaepass_operator_callback: no password, but the password lock applies.
UaePassLogin(s, o) ==
    /\ account[o].active /\ account[o].lock # "future"
    /\ Start(s, [NoRequest EXCEPT !.phase = "count", !.operator = o,
                                  !.password = account[o].password])
    /\ UNCHANGED <<account, session, trusted, misses, torn>>

\* verify_email: the redeemed link signs the operator in, active or not.
VerifyEmail(s, o) ==
    /\ ~account[o].verified
    /\ account' = [account EXCEPT ![o].verified = TRUE]
    /\ Start(s, [NoRequest EXCEPT !.phase = "count", !.operator = o,
                                  !.password = account[o].password])
    /\ UNCHANGED <<session, trusted, misses, torn>>

\* create_session: _enforce_session_limit counts, then reads the oldest; the
\* eviction and the new row share one transaction.
CountSessions(s) ==
    /\ sreq[s].phase = "count"
    /\ Goto(s, IF Cardinality(LiveOf(sreq[s].operator)) >= MAX_CONCURRENT_SESSIONS
               THEN "oldest" ELSE "insert")
    /\ UNCHANGED <<account, session, trusted, misses, torn>>

ReadOldest(s) ==
    LET live == LiveOf(sreq[s].operator) IN
    /\ sreq[s].phase = "oldest"
    /\ sreq' = [sreq EXCEPT ![s].phase = "insert",
                            ![s].token = IF live = {} THEN None ELSE Min(live)]
    /\ UNCHANGED <<account, session, trusted, misses, torn>>

\* Mutation: the session that makes room is left signed in.
NotEvicted(rows, t) == rows
Evicted(rows, t) == IF t = None THEN rows ELSE [rows EXCEPT ![t].status = "revoked"]

\* The row is born with mfa_verified = 1; only a challenged one waits for its lock.
InsertSession(s) ==
    LET o == sreq[s].operator
        challenged == o \in Mlros /\ ~sreq[s].carried
        free == {t \in Tokens : session[t].status = "unused"}
    IN  /\ sreq[s].phase = "insert" /\ free # {}
        /\ session' = [Evicted(session, sreq[s].token) EXCEPT ![Min(free)] =
               [status |-> "live", operator |-> o, mfa |-> TRUE, handed |-> ~challenged,
                proof |-> sreq[s].proof,
                password |-> sreq[s].password]]
        /\ IF challenged
           THEN sreq' = [sreq EXCEPT ![s].phase = "challenge", ![s].token = Min(free)]
           ELSE End(s)
        /\ UNCHANGED <<account, trusted, misses, torn>>

\* mfa_lock_session: a recognised device keeps the session open, any other
\* caller gets it locked; only then does the token leave the server.
MfaLockSession(s) ==
    LET t == sreq[s].token IN
    /\ sreq[s].phase = "challenge"
    /\ \/ /\ sreq[s].operator \in trusted
          /\ session' = [session EXCEPT ![t].handed = TRUE, ![t].proof = "device"]
       \/ session' = [session EXCEPT ![t].handed = TRUE, ![t].mfa = FALSE]
    /\ End(s)
    /\ UNCHANGED <<account, trusted, misses, torn>>

\* mfa_verify_submit, mfa_setup_confirm, api_mfa_verify.
ChallengeRead(s, t) ==
    /\ Live(t) /\ session[t].handed /\ ~session[t].mfa
    /\ Start(s, [NoRequest EXCEPT !.phase = "code", !.operator = session[t].operator,
                                  !.token = t])
    /\ UNCHANGED <<account, session, trusted, misses, torn>>

CodeAccepted(s, remember) ==
    LET t == sreq[s].token IN
    /\ sreq[s].phase = "code"
    /\ session' = [session EXCEPT ![t].mfa = TRUE, ![t].proof = "code"]
    /\ IF remember THEN Goto(s, "remember") ELSE End(s)
    /\ UNCHANGED <<account, trusted, misses, torn>>

CodeRefused(s) ==
    /\ sreq[s].phase = "code"
    /\ End(s)
    /\ UNCHANGED <<account, session, trusted, misses, torn>>

RememberDevice(s) ==
    /\ sreq[s].phase = "remember"
    /\ trusted' = trusted \cup {sreq[s].operator}
    /\ End(s)
    /\ UNCHANGED <<account, session, misses, torn>>

\* password_change_submit, change_password: the operator's own, session carried
\* over; admin_reset_password: another's, by an MLRO.
ChangePassword(s, t) ==
    /\ require_session(t)
    /\ Start(s, [NoRequest EXCEPT !.phase = "password", !.carried = TRUE,
                                  !.operator = session[t].operator,
                                  !.proof = session[t].proof])
    /\ UNCHANGED <<account, session, trusted, misses, torn>>

ResetPassword(s, t, o) ==
    /\ AdminSession(t)
    /\ Start(s, [NoRequest EXCEPT !.phase = "password", !.operator = o])
    /\ UNCHANGED <<account, session, trusted, misses, torn>>

\* set_password: three commits, one after the other.
SetPassword(s) ==
    LET o == sreq[s].operator IN
    /\ sreq[s].phase = "password" /\ account[o].password < MaxPassword
    /\ account' = [account EXCEPT ![o] = [Unlocked(account[o]) EXCEPT !.password = account[o].password + 1]]
    /\ misses' = [misses EXCEPT ![o] = 0]
    /\ sreq' = [sreq EXCEPT ![s].phase = "revoke", ![s].password = account[o].password + 1]
    /\ UNCHANGED <<session, trusted, torn>>

\* Mutation: only sessions in use are revoked.
RevokedInUse(o) ==
    [t \in Tokens |-> IF session[t].status = "live" /\ session[t].operator = o
                      THEN [session[t] EXCEPT !.status = "revoked"] ELSE session[t]]
Revoked(o) ==
    [t \in Tokens |-> IF t \in LiveOf(o) THEN [session[t] EXCEPT !.status = "revoked"]
                      ELSE session[t]]

RevokeSessions(s) ==
    /\ sreq[s].phase = "revoke"
    /\ session' = Revoked(sreq[s].operator)
    /\ Goto(s, "forget")
    /\ UNCHANGED <<account, trusted, misses, torn>>

RevokeDevices(s) ==
    /\ sreq[s].phase = "forget"
    /\ trusted' = trusted \ {sreq[s].operator}
    /\ IF sreq[s].carried THEN Goto(s, "count") ELSE End(s)
    /\ UNCHANGED <<account, session, misses, torn>>

ForgetDevices(t) ==
    /\ require_session(t)
    /\ trusted' = trusted \ {session[t].operator}
    /\ UNCHANGED <<account, session, sreq, misses, torn>>

Logout(t) ==
    /\ resolve_session(t) /\ session[t].handed
    /\ session' = [session EXCEPT ![t].status = "revoked"]
    /\ UNCHANGED <<account, trusted, sreq, misses, torn>>

\* admin_deactivate_operator spares the last active MLRO ...
WebDeactivate(s, t, o) ==
    /\ AdminSession(t)
    /\ o \in Mlros /\ account[o].active => \E p \in Mlros \ {o} : account[p].active
    /\ Start(s, [NoRequest EXCEPT !.phase = "deactivate", !.operator = o])
    /\ UNCHANGED <<account, session, trusted, misses, torn>>

\* ... and api_admin_deactivate_operator, the mobile route, does not ask.
MobileDeactivate(s, t, o) ==
    /\ AdminSession(t)
    /\ Start(s, [NoRequest EXCEPT !.phase = "deactivate", !.operator = o])
    /\ UNCHANGED <<account, session, trusted, misses, torn>>

\* is_active = 0 and the revocation share the transaction.
Deactivate(s) ==
    LET o == sreq[s].operator IN
    /\ sreq[s].phase = "deactivate"
    /\ account' = [account EXCEPT ![o].active = FALSE]
    /\ session' = Revoked(o)
    /\ End(s)
    /\ UNCHANGED <<trusted, misses, torn>>

Reactivate(t, o) ==
    /\ AdminSession(t) /\ ~account[o].active
    /\ account' = [account EXCEPT ![o].active = TRUE]
    /\ UNCHANGED <<session, trusted, sreq, misses, torn>>

\* admin_unlock_operator, and the mailed link redeemed by self_unlock.
Unlock(o) ==
    /\ \/ account[o].lock # "none" /\ account[o].active /\ account[o].verified
       \/ \E t \in Tokens : AdminSession(t)
    /\ Cleared(o)
    /\ UNCHANGED <<session, trusted, sreq, torn>>

\* Time: a session goes idle or expires, a device token expires, a lock lapses.
Elapse ==
    /\ \/ \E t \in Tokens, status \in {"idle", "expired"} :
              /\ Live(t) /\ session[t].handed
              /\ session' = [session EXCEPT ![t].status = status]
              /\ UNCHANGED <<account, trusted>>
       \/ \E o \in trusted : trusted' = trusted \ {o} /\ UNCHANGED <<account, session>>
       \/ \E o \in Operators :
              /\ account[o].lock = "future"
              /\ account' = [account EXCEPT ![o].lock = "past"]
              /\ UNCHANGED <<session, trusted>>
    /\ UNCHANGED <<sreq, misses, torn>>

\* The worker dies, or the client's connection with it, between two commits.
Die(s) ==
    /\ sreq[s].phase # "idle"
    /\ torn' = IF sreq[s].phase = "revoke" THEN torn \cup {sreq[s].operator} ELSE torn
    /\ End(s)
    /\ UNCHANGED <<account, session, trusted, misses>>

LoginStep(s) ==
    \/ ClearLapsedLock(s) \/ WrongPassword(s) \/ RightPassword(s)
    \/ CountSessions(s) \/ ReadOldest(s) \/ InsertSession(s) \/ MfaLockSession(s)
    \/ \E o \in Operators :
           UaePassLogin(s, o) \/ VerifyEmail(s, o) \/ \E right \in BOOLEAN : LoginRead(s, o, right)

AccountStep(s) ==
    \/ CodeRefused(s) \/ \E remember \in BOOLEAN : CodeAccepted(s, remember)
    \/ RememberDevice(s) \/ SetPassword(s) \/ RevokeSessions(s) \/ RevokeDevices(s)
    \/ Deactivate(s) \/ Die(s)
    \/ \E t \in Tokens : ChallengeRead(s, t) \/ ChangePassword(s, t)
    \/ \E t \in Tokens, o \in Operators :
           ResetPassword(s, t, o) \/ WebDeactivate(s, t, o)

SessionsNext ==
    \/ \E s \in Slots : LoginStep(s) \/ AccountStep(s)
    \/ \E s \in Slots, t \in Tokens, o \in Operators : MobileDeactivate(s, t, o)
    \/ \E t \in Tokens : Logout(t) \/ ForgetDevices(t)
    \/ \E t \in Tokens, o \in Operators : Reactivate(t, o)
    \/ \E o \in Operators : Unlock(o)
    \/ Elapse

SessionsSpec == SessionsInit /\ [][SessionsNext]_sessionVars

-------------------------------------------------------------------------------
\* Properties

\* Types of the rows, the requests and the histories.
SessionsTypeOK ==
    /\ account \in [Operators -> Account]
    /\ session \in [Tokens -> Session]
    /\ trusted \subseteq Operators
    /\ sreq \in [Slots -> Request]
    /\ misses \in [Operators -> 0..MAX_FAILED_LOGINS]
    /\ torn \subseteq Operators

\* An MLRO session that has left the server and is accepted as MFA-verified was
\* opened by a recognised device, proven with a code, or carried over a password
\* change from such a session: although every row is born verified and locked in a later commit,
\* no interleaving and no crash hands out one that skipped the challenge.
ChallengedFirst ==
    \A t \in Tokens :
        session[t].handed /\ session[t].mfa /\ session[t].operator \in Mlros
            => session[t].proof # "none"

\* While requests do not overlap, no operator has more live sessions than
\* MAX_CONCURRENT_SESSIONS, whichever of the four entry points opened them.
SessionLimit == \A o \in Operators : Cardinality(LiveOf(o)) <= MAX_CONCURRENT_SESSIONS

\* While requests do not overlap, a live session was opened under the password in
\* force, unless the change is between its commits or died there.
PasswordEndsSessions ==
    \A t \in Tokens :
        Live(t) /\ session[t].password # account[session[t].operator].password
            => \/ session[t].operator \in torn
               \/ \E s \in Slots : /\ sreq[s].phase = "revoke"
                                    /\ sreq[s].operator = session[t].operator

\* While requests do not overlap, MAX_FAILED_LOGINS wrong passwords in a row always
\* leave a lock behind, through lapsed locks, unlocks and password changes.
LocksOut == \A o \in Operators : misses[o] = MAX_FAILED_LOGINS => account[o].lock # "none"
===============================================================================
