------------------------------- MODULE AccessProofs -------------------------------
(***************************************************************************)
(* Proofs about Sessions, OneTimeTokens and Mfa for every set of requests, *)
(* accounts, sessions, identities and draws: type correctness, the         *)
(* challenge of the MLROs and what is redeemed once, however requests      *)
(* overlap; the limit of sessions, the end of the sessions of an old       *)
(* password and the lock-out, while those about one operator do not; and   *)
(* that only a proven second factor is confirmed, while none do.           *)
(***************************************************************************)
EXTENDS Sessions, Mfa, OneTimeTokens, SetLemmas

USE MlrosAssumption, LimitAssumption, NoneAssumption

-------------------------------------------------------------------------------
\* Type correctness

\* An account that has used its attempts up is locked, or its lock has lapsed.
AccountsOK ==
    /\ account \in [Operators -> Account]
    /\ \A o \in Operators : account[o].failed = MAX_FAILED_LOGINS => account[o].lock # "none"

SessionRowsOK ==
    /\ session \in [Tokens -> Session]
    /\ \A t \in Tokens : Live(t) => session[t].operator \in Operators

HistoriesOK ==
    /\ trusted \subseteq Operators /\ torn \subseteq Operators
    /\ misses \in [Operators -> 0..MAX_FAILED_LOGINS]

\* What a request knows in each of its phases.
Informed(q) ==
    /\ q.phase # "idle" => q.operator \in Operators
    /\ q.phase \in {"lapsed", "answer"} => q.failed < MAX_FAILED_LOGINS
    /\ q.phase \in {"challenge", "code"} => q.token \in Tokens

SRequestsOK == sreq \in [Slots -> Request] /\ \A s \in Slots : Informed(sreq[s])

SessionsTypeInv == AccountsOK /\ SessionRowsOK /\ HistoriesOK /\ SRequestsOK

LEMMA NoRequestOK == NoRequest \in Request /\ Informed(NoRequest)
BY DEF NoRequest, Request, Informed, Proofs

LEMMA RequestUpdate ==
    ASSUME SRequestsOK, NEW s \in Slots, NEW q \in Request, Informed(q),
           sreq' = [sreq EXCEPT ![s] = q]
    PROVE  SRequestsOK'
<1>1. sreq' \in [Slots -> Request]
  BY DEF SRequestsOK
<1>2. ASSUME NEW t \in Slots  PROVE Informed(sreq[t])'
  <2>1. Informed(sreq'[t])
    BY DEF SRequestsOK
  <2> QED  BY <2>1 DEF Informed
<1> QED  BY <1>1, <1>2 DEF SRequestsOK

LEMMA EndOK ==
    ASSUME SRequestsOK, NEW s \in Slots, End(s)
    PROVE  SRequestsOK'
BY NoRequestOK, RequestUpdate DEF End

\* A request that goes on knows what it knew.
LEMMA GotoOK ==
    ASSUME SRequestsOK, NEW s \in Slots, sreq[s].phase # "idle",
           NEW phase \in {"answer", "count", "oldest", "insert", "remember", "revoke", "forget"},
           phase = "answer" => sreq[s].failed < MAX_FAILED_LOGINS,
           Goto(s, phase)
    PROVE  SRequestsOK'
<1> DEFINE q == [sreq[s] EXCEPT !.phase = phase]
<1>1. q \in Request /\ Informed(q)
  BY DEF SRequestsOK, Request, Informed
<1>2. sreq' = [sreq EXCEPT ![s] = q]
  BY DEF Goto, SRequestsOK
<1> HIDE DEF q
<1> QED  BY <1>1, <1>2, RequestUpdate

\* A row that stays, or a live one that stops being so, keeps the rows well formed.
LEMMA RowsKept ==
    ASSUME SessionRowsOK, session' \in [Tokens -> Session],
           \A t \in Tokens : session'[t].status \in {"live", "idle"}
               => Live(t) /\ session'[t].operator = session[t].operator
    PROVE  SessionRowsOK'
BY DEF SessionRowsOK, Live

LEMMA SessionsInitTypes == ASSUME SessionsInit PROVE SessionsTypeInv
<1> DEFINE row(v) == [password |-> 0, active |-> TRUE, verified |-> v, failed |-> 0, lock |-> "none"]
<1>1. AccountsOK
  <2>1. \A v \in BOOLEAN : row(v) \in Account /\ row(v).failed = 0
    BY DEF Account
  <2>2. account \in [Operators -> {row(v) : v \in BOOLEAN}]
    BY DEF SessionsInit
  <2> HIDE DEF row
  <2> QED  BY <2>1, <2>2 DEF AccountsOK
<1>2. NoSession \in Session /\ NoSession.status = "unused"
  BY DEF NoSession, Session, Proofs
<1>3. SessionRowsOK
  BY <1>2 DEF SessionsInit, SessionRowsOK, Live
<1>4. HistoriesOK /\ SRequestsOK
  BY NoRequestOK DEF SessionsInit, HistoriesOK, SRequestsOK
<1> QED  BY <1>1, <1>3, <1>4 DEF SessionsTypeInv

LEMMA NoRequestFields ==
    /\ NoRequest.phase = "idle" /\ NoRequest.carried = FALSE /\ NoRequest.token = None
    /\ NoRequest.failed = 0 /\ NoRequest.password = 0 /\ NoRequest.proof = "none"
BY DEF NoRequest

\* What a request knows once it has begun.
Begins(s, q) == q \in Request /\ Informed(q) /\ sreq' = [sreq EXCEPT ![s] = q]

LEMMA LoginBegins ==
    ASSUME SessionsTypeInv, NEW s \in Slots, NEW o \in Operators, NEW right \in BOOLEAN,
           LoginRead(s, o, right)
    PROVE  \E q : /\ Begins(s, q) /\ q.operator = o /\ q.carried = NoRequest.carried
                  /\ q.password = account[o].password
                  /\ \/ q.phase = "lapsed" /\ q.failed = 0
                     \/ q.phase = "answer" /\ q.failed = account[o].failed
<1> DEFINE row == account[o]
           phase == IF row.lock = "past" THEN "lapsed" ELSE "answer"
           failed == IF row.lock = "past" THEN 0 ELSE row.failed
           answer == Answer(row, right)
           password == row.password
           q == [NoRequest EXCEPT !.phase = phase, !.operator = o, !.answer = answer,
                                  !.password = password, !.failed = failed]
<1>1. row \in Account /\ (row.failed = MAX_FAILED_LOGINS => row.lock # "none")
  BY DEF SessionsTypeInv, AccountsOK
<1>2. answer \in {"right", "wrong", "refused"}
  BY DEF Answer
<1>3. /\ password \in 0..MaxPassword /\ failed \in 0..MAX_FAILED_LOGINS
      /\ phase \in {"lapsed", "answer"} /\ failed < MAX_FAILED_LOGINS
      /\ (phase = "lapsed" /\ failed = 0) \/ (phase = "answer" /\ failed = row.failed)
  BY <1>1 DEF LoginRead, Account
<1>4. sreq' = [sreq EXCEPT ![s] = q]
  BY DEF LoginRead, Start
<1> HIDE DEF phase, failed, answer, password
<1>5. /\ q \in Request /\ q.phase = phase /\ q.operator = o
      /\ q.password = password /\ q.failed = failed /\ q.carried = NoRequest.carried
  BY <1>2, <1>3, NoRequestOK DEF Request
<1> HIDE DEF q
<1>6. Informed(q)
  BY <1>3, <1>5 DEF Informed
<1>7. password = account[o].password
  BY DEF password
<1> QED  BY <1>3, <1>4, <1>5, <1>6, <1>7, NoRequestFields DEF Begins

LEMMA SignedInBegins ==
    ASSUME SessionsTypeInv, NEW s \in Slots, NEW o \in Operators,
           UaePassLogin(s, o) \/ VerifyEmail(s, o)
    PROVE  \E q : /\ Begins(s, q) /\ q.operator = o /\ q.carried = NoRequest.carried
                  /\ q.phase = "count" /\ q.password = account[o].password
<1> DEFINE password == account[o].password
           q(phase) == [NoRequest EXCEPT !.phase = phase, !.operator = o, !.password = password]
<1>1. password \in 0..MaxPassword
  BY DEF SessionsTypeInv, AccountsOK, Account
<1>2. sreq' = [sreq EXCEPT ![s] = q("count")]
  BY DEF UaePassLogin, VerifyEmail, Start
<1> HIDE DEF password
<1>3. \A phase \in {"count"} : /\ q(phase) \in Request /\ q(phase).phase = phase
                               /\ q(phase).operator = o /\ q(phase).password = password
                               /\ q(phase).carried = NoRequest.carried
  BY <1>1, NoRequestOK DEF Request
<1> HIDE DEF q
<1>4. Informed(q("count"))
  BY <1>3 DEF Informed
<1>5. password = account[o].password
  BY DEF password
<1> QED  BY <1>2, <1>3, <1>4, <1>5, NoRequestFields DEF Begins

LEMMA ChallengeBegins ==
    ASSUME SessionsTypeInv, NEW s \in Slots, NEW t \in Tokens, ChallengeRead(s, t)
    PROVE  \E q : Begins(s, q) /\ q.phase = "code" /\ q.carried = NoRequest.carried
<1> DEFINE o == session[t].operator
           q(phase) == [NoRequest EXCEPT !.phase = phase, !.operator = o, !.token = t]
<1>1. o \in Operators
  BY DEF SessionsTypeInv, SessionRowsOK, ChallengeRead
<1>2. sreq' = [sreq EXCEPT ![s] = q("code")]
  BY DEF ChallengeRead, Start
<1> HIDE DEF o
<1>3. \A phase \in {"code"} : /\ q(phase) \in Request /\ q(phase).phase = phase
                              /\ q(phase).operator = o /\ q(phase).token = t
                              /\ q(phase).carried = NoRequest.carried
  BY <1>1, NoRequestOK DEF Request
<1> HIDE DEF q
<1>4. Informed(q("code"))
  BY <1>1, <1>3 DEF Informed
<1> QED  BY <1>2, <1>3, <1>4, NoRequestFields DEF Begins

LEMMA ChangeBegins ==
    ASSUME SessionsTypeInv, NEW s \in Slots, NEW t \in Tokens, ChangePassword(s, t)
    PROVE  \E q : /\ Begins(s, q) /\ q.phase = "password"
                  /\ q.operator = session[t].operator /\ q.proof = session[t].proof
<1> DEFINE o == session[t].operator
           proof == session[t].proof
           q(phase, carried) == [NoRequest EXCEPT !.phase = phase, !.carried = carried,
                                                  !.operator = o, !.proof = proof]
<1>1. o \in Operators /\ proof \in Proofs
  BY DEF SessionsTypeInv, SessionRowsOK, Session, Live, ChangePassword, require_session,
         resolve_session
<1>2. sreq' = [sreq EXCEPT ![s] = q("password", TRUE)]
  BY Zenon DEF ChangePassword, Start
<1>3. o = session[t].operator /\ proof = session[t].proof
  OBVIOUS
<1> HIDE DEF o, proof
<1>4. \A phase \in {"password"}, carried \in BOOLEAN :
         LET r == q(phase, carried)
         IN  r \in Request /\ r.phase = phase /\ r.operator = o /\ r.proof = proof
  BY <1>1, NoRequestOK DEF Request
<1> HIDE DEF q
<1>5. PICK carried \in BOOLEAN : sreq' = [sreq EXCEPT ![s] = q("password", carried)]
  BY <1>2, Zenon
<1>6. Informed(q("password", carried))
  BY <1>1, <1>4 DEF Informed
<1> QED  BY <1>3, <1>4, <1>5, <1>6 DEF Begins

LEMMA AdminBegins ==
    ASSUME SessionsTypeInv, NEW s \in Slots, NEW t \in Tokens, NEW o \in Operators,
           ResetPassword(s, t, o) \/ WebDeactivate(s, t, o) \/ MobileDeactivate(s, t, o)
    PROVE  \E q : /\ Begins(s, q) /\ q.operator = o /\ q.carried = NoRequest.carried
                  /\ q.phase \in {"password", "deactivate"}
<1> DEFINE q(phase) == [NoRequest EXCEPT !.phase = phase, !.operator = o]
<1>1. PICK phase \in {"password", "deactivate"} : sreq' = [sreq EXCEPT ![s] = q(phase)]
  BY DEF ResetPassword, WebDeactivate, MobileDeactivate, Start
<1>2. /\ q(phase) \in Request /\ q(phase).phase = phase /\ q(phase).operator = o
      /\ q(phase).carried = NoRequest.carried
  BY NoRequestOK DEF Request
<1> HIDE DEF q
<1>3. Informed(q(phase))
  BY <1>2 DEF Informed
<1> QED  BY <1>1, <1>2, <1>3, NoRequestFields DEF Begins

LEMMA BeginsTypes ==
    ASSUME SessionsTypeInv, NEW s \in Slots, NEW q, Begins(s, q)
    PROVE  SRequestsOK'
BY RequestUpdate DEF Begins, SessionsTypeInv

\* The requests as they go on and end.
LEMMA RequestsGoOn ==
    ASSUME SessionsTypeInv, NEW s \in Slots,
           \/ ClearLapsedLock(s) \/ WrongPassword(s) \/ RightPassword(s)
           \/ CountSessions(s) \/ MfaLockSession(s) \/ CodeRefused(s)
           \/ \E remember \in BOOLEAN : CodeAccepted(s, remember)
           \/ RememberDevice(s) \/ RevokeSessions(s) \/ RevokeDevices(s)
           \/ Deactivate(s) \/ Die(s)
    PROVE  SRequestsOK'
<1>1. SRequestsOK
  BY DEF SessionsTypeInv
<1>2. CASE ClearLapsedLock(s)
  <2>1. sreq[s].failed < MAX_FAILED_LOGINS
    BY <1>1, <1>2 DEF ClearLapsedLock, SRequestsOK, Informed
  <2> QED  BY <1>1, <1>2, <2>1, EndOK, GotoOK DEF ClearLapsedLock
<1>3. CASE WrongPassword(s) \/ MfaLockSession(s) \/ CodeRefused(s) \/ RememberDevice(s)
           \/ Deactivate(s) \/ Die(s)
  BY <1>1, <1>3, EndOK DEF WrongPassword, MfaLockSession, CodeRefused, RememberDevice, Deactivate, Die
<1>4. CASE RightPassword(s) \/ CountSessions(s) \/ RevokeSessions(s)
  <2>1. /\ sreq[s].phase # "idle"
        /\ \E phase \in {"count", "oldest", "insert", "forget"} : Goto(s, phase)
    BY <1>4 DEF RightPassword, CountSessions, RevokeSessions
  <2> QED  BY <1>1, <2>1, GotoOK
<1>5. CASE RevokeDevices(s)
  BY <1>1, <1>5, EndOK, GotoOK DEF RevokeDevices
<1>6. ASSUME NEW remember \in BOOLEAN, CodeAccepted(s, remember)
      PROVE  SRequestsOK'
  BY <1>1, <1>6, EndOK, GotoOK DEF CodeAccepted
<1> QED  BY <1>2, <1>3, <1>4, <1>5, <1>6

LEMMA SetPasswordRequests ==
    ASSUME SessionsTypeInv, NEW s \in Slots, SetPassword(s)
    PROVE  SRequestsOK'
<1> DEFINE n == account[sreq[s].operator].password + 1
           q == [sreq[s] EXCEPT !.phase = "revoke", !.password = n]
<1>1. sreq[s].operator \in Operators
  BY DEF SessionsTypeInv, SRequestsOK, Informed, SetPassword
<1>2. n \in 0..MaxPassword
  BY <1>1 DEF SetPassword, SessionsTypeInv, AccountsOK, Account
<1>3. sreq' = [sreq EXCEPT ![s] = q]
  BY DEF SetPassword, SessionsTypeInv, SRequestsOK
<1> HIDE DEF n
<1>4. q \in Request /\ Informed(q)
  BY <1>1, <1>2 DEF SessionsTypeInv, SRequestsOK, Request, Informed
<1> HIDE DEF q
<1> QED  BY <1>3, <1>4, RequestUpdate DEF SessionsTypeInv

\* The oldest session, if there is one, and the row the next one is inserted in.
LEMMA OldestIsLive ==
    ASSUME NEW o, LiveOf(o) # {}
    PROVE  Min(LiveOf(o)) \in LiveOf(o)
<1>1. LiveOf(o) \in SUBSET Nat
  BY DEF LiveOf, Tokens
<1> QED  BY <1>1, MinIsMember

FreeTokens == {t \in Tokens : session[t].status = "unused"}

LEMMA NextTokenIsFree ==
    ASSUME FreeTokens # {}
    PROVE  Min(FreeTokens) \in Tokens /\ session[Min(FreeTokens)].status = "unused"
<1>1. FreeTokens \in SUBSET Nat
  BY DEF FreeTokens, Tokens
<1>2. Min(FreeTokens) \in FreeTokens
  BY <1>1, MinIsMember
<1> QED  BY <1>2 DEF FreeTokens

LEMMA ReadOldestTypes ==
    ASSUME SessionsTypeInv, NEW s \in Slots, ReadOldest(s)
    PROVE  SRequestsOK'
<1> DEFINE o == sreq[s].operator
           token == IF LiveOf(o) = {} THEN None ELSE Min(LiveOf(o))
           q(phase) == [sreq[s] EXCEPT !.phase = phase, !.token = token]
<1>1. token \in Tokens \cup {None}
  BY OldestIsLive DEF LiveOf
<1>2. sreq[s] \in Request /\ sreq[s].operator \in Operators
  BY DEF ReadOldest, SessionsTypeInv, SRequestsOK, Informed
<1>3. sreq' = [sreq EXCEPT ![s] = q("insert")]
  BY DEF ReadOldest, SessionsTypeInv, SRequestsOK
<1> HIDE DEF token, o
<1>4. ASSUME NEW phase \in {"insert"}
      PROVE  q(phase) \in Request /\ q(phase).phase = phase /\ q(phase).operator = sreq[s].operator
  BY <1>1, <1>2 DEF Request
<1> HIDE DEF q
<1>5. Informed(q("insert"))
  BY <1>2, <1>4 DEF Informed
<1> QED  BY <1>3, <1>4, <1>5, RequestUpdate DEF SessionsTypeInv

\* The request that opened a session waits for its lock, or ends.
LEMMA InsertRequests ==
    ASSUME SessionsTypeInv, NEW s \in Slots, InsertSession(s)
    PROVE  SRequestsOK'
<1> DEFINE new == Min(FreeTokens)
           q(phase) == [sreq[s] EXCEPT !.phase = phase, !.token = new]
<1>1. new \in Tokens
  BY NextTokenIsFree DEF InsertSession, FreeTokens
<1>2. sreq[s] \in Request /\ sreq[s].operator \in Operators
  BY DEF InsertSession, SessionsTypeInv, SRequestsOK, Informed
<1>3. End(s) \/ sreq' = [sreq EXCEPT ![s] = q("challenge")]
  BY DEF InsertSession, FreeTokens, SessionsTypeInv, SRequestsOK
<1> HIDE DEF new
<1>4. ASSUME NEW phase \in {"challenge"}
      PROVE  /\ q(phase) \in Request /\ q(phase).phase = phase
             /\ q(phase).operator = sreq[s].operator /\ q(phase).token = new
  BY <1>1, <1>2 DEF Request
<1> HIDE DEF q
<1>5. Informed(q("challenge"))
  BY <1>1, <1>2, <1>4 DEF Informed
<1> QED  BY <1>3, <1>4, <1>5, EndOK, RequestUpdate DEF SessionsTypeInv

-------------------------------------------------------------------------------
\* The rows

\* The row of an account after its counter is cleared.
LEMMA ClearedRow ==
    ASSUME NEW row \in Account
    PROVE  LET new == Unlocked(row)
           IN  /\ new \in Account /\ new.failed = 0 /\ new.password = row.password
               /\ new.lock = "none"
<1>1. ASSUME NEW failed \in 0..MAX_FAILED_LOGINS, NEW lock \in {"none", "future", "past"}
      PROVE  LET new == [row EXCEPT !.failed = failed, !.lock = lock]
             IN  /\ new \in Account /\ new.failed = failed /\ new.password = row.password
                 /\ new.lock = lock
  BY DEF Account
<1>2. 0 \in 0..MAX_FAILED_LOGINS
  OBVIOUS
<1> QED  BY <1>1, <1>2, Zenon DEF Unlocked

LEMMA ClearedOK ==
    ASSUME SessionsTypeInv, NEW o \in Operators, Cleared(o)
    PROVE  AccountsOK' /\ misses' \in [Operators -> 0..MAX_FAILED_LOGINS]
<1>1. account[o] \in Account
  BY DEF SessionsTypeInv, AccountsOK
<1>2. /\ account' = [account EXCEPT ![o] = Unlocked(account[o])]
      /\ misses' = [misses EXCEPT ![o] = 0]
  BY DEF Cleared
<1>3. Unlocked(account[o]) \in Account /\ Unlocked(account[o]).failed = 0
  BY <1>1, ClearedRow
<1>4. AccountsOK'
  BY <1>2, <1>3 DEF SessionsTypeInv, AccountsOK
<1>5. misses' \in [Operators -> 0..MAX_FAILED_LOGINS]
  BY <1>2 DEF SessionsTypeInv, HistoriesOK
<1> QED  BY <1>4, <1>5

\* The count of wrong passwords, capped.
LEMMA MissedOnce ==
    ASSUME NEW n \in 0..MAX_FAILED_LOGINS
    PROVE  LET m == Min({n + 1, MAX_FAILED_LOGINS})
           IN  m \in 0..MAX_FAILED_LOGINS /\ m <= n + 1
<1> DEFINE m == Min({n + 1, MAX_FAILED_LOGINS})
<1>1. {n + 1, MAX_FAILED_LOGINS} \in SUBSET Nat
  OBVIOUS
<1>2. m \in {n + 1, MAX_FAILED_LOGINS} /\ m <= n + 1 /\ m <= MAX_FAILED_LOGINS
  BY <1>1, MinIsMember
<1> HIDE DEF m
<1>3. m \in 0..MAX_FAILED_LOGINS /\ m <= n + 1
  BY <1>2
<1> QED  BY <1>3 DEF m

\* A wrong password: the account counts one more, and locks when that is the last.
LEMMA WrongRow ==
    ASSUME SessionsTypeInv, NEW s \in Slots, WrongPassword(s)
    PROVE  LET o == sreq[s].operator
           IN  /\ o \in Operators
               /\ \E lock \in {"none", "future", "past"} :
                     /\ account' = [account EXCEPT ![o].failed = sreq[s].failed + 1, ![o].lock = lock]
                     /\ sreq[s].failed + 1 = MAX_FAILED_LOGINS => lock # "none"
               /\ sreq[s].failed + 1 \in 0..MAX_FAILED_LOGINS
               /\ misses' = [misses EXCEPT ![o] = Min({misses[o] + 1, MAX_FAILED_LOGINS})]
<1> DEFINE o == sreq[s].operator
           n == sreq[s].failed + 1
           lock == IF TooMany(n) THEN "future" ELSE account[o].lock
<1>1. o \in Operators /\ n \in 0..MAX_FAILED_LOGINS
  BY DEF WrongPassword, SessionsTypeInv, SRequestsOK, Informed, Request
<1>2. lock \in {"none", "future", "past"} /\ (n = MAX_FAILED_LOGINS => lock # "none")
  BY <1>1 DEF TooMany, SessionsTypeInv, AccountsOK, Account
<1>3. /\ account' = [account EXCEPT ![o].failed = n, ![o].lock = lock]
      /\ misses' = [misses EXCEPT ![o] = Min({misses[o] + 1, MAX_FAILED_LOGINS})]
  BY <1>1 DEF WrongPassword, SessionsTypeInv, AccountsOK, HistoriesOK
<1> HIDE DEF lock
<1> QED  BY <1>1, <1>2, <1>3

LEMMA WrongPasswordOK ==
    ASSUME SessionsTypeInv, NEW s \in Slots, WrongPassword(s)
    PROVE  AccountsOK' /\ misses' \in [Operators -> 0..MAX_FAILED_LOGINS]
<1> DEFINE o == sreq[s].operator
           n == sreq[s].failed + 1
<1>1. PICK lock \in {"none", "future", "past"} :
         /\ account' = [account EXCEPT ![o].failed = n, ![o].lock = lock]
         /\ n = MAX_FAILED_LOGINS => lock # "none"
  BY WrongRow
<1>2. o \in Operators /\ n \in 0..MAX_FAILED_LOGINS
  BY WrongRow
<1>3. misses' = [misses EXCEPT ![o] = Min({misses[o] + 1, MAX_FAILED_LOGINS})]
  BY WrongRow
<1> HIDE DEF o, n
<1>4. misses[o] \in 0..MAX_FAILED_LOGINS
  BY <1>2 DEF SessionsTypeInv, HistoriesOK
<1>5. Min({misses[o] + 1, MAX_FAILED_LOGINS}) \in 0..MAX_FAILED_LOGINS
  BY <1>4, MissedOnce
<1>6. misses' \in [Operators -> 0..MAX_FAILED_LOGINS]
  BY <1>2, <1>3, <1>5 DEF SessionsTypeInv, HistoriesOK
<1>7. AccountsOK'
  BY <1>1, <1>2 DEF SessionsTypeInv, AccountsOK, Account
<1> QED  BY <1>6, <1>7

LEMMA SetPasswordOK ==
    ASSUME SessionsTypeInv, NEW s \in Slots, SetPassword(s)
    PROVE  AccountsOK' /\ misses' \in [Operators -> 0..MAX_FAILED_LOGINS]
<1> DEFINE o == sreq[s].operator
           n == account[o].password + 1
           cleared == Unlocked(account[o])
           row == [cleared EXCEPT !.password = n]
<1>1. o \in Operators
  BY DEF SessionsTypeInv, SRequestsOK, Informed, SetPassword
<1>2. n \in 0..MaxPassword /\ account[o] \in Account
  BY <1>1 DEF SetPassword, SessionsTypeInv, AccountsOK, Account
<1>3. cleared \in Account /\ cleared.failed = 0 /\ cleared.password = account[o].password
  BY <1>2, ClearedRow
<1>4. account' = [account EXCEPT ![o] = row]
  BY DEF SetPassword
<1> HIDE DEF cleared, n
<1>6. row \in Account /\ row.failed = 0
  BY <1>2, <1>3 DEF Account
<1> HIDE DEF row
<1>7. AccountsOK'
  BY <1>1, <1>4, <1>6 DEF SessionsTypeInv, AccountsOK
<1>8. misses' \in [Operators -> 0..MAX_FAILED_LOGINS]
  BY <1>1 DEF SetPassword, SessionsTypeInv, HistoriesOK
<1> QED  BY <1>7, <1>8

\* Rows of sessions that change, and the types they keep.
LEMMA RevokedOK ==
    ASSUME SessionsTypeInv, NEW o, session' = Revoked(o)
    PROVE  SessionRowsOK'
<1>1. session' \in [Tokens -> Session]
  BY DEF SessionsTypeInv, SessionRowsOK, Revoked, Session
<1>2. \A t \in Tokens : session'[t].status \in {"live", "idle"}
         => Live(t) /\ session'[t].operator = session[t].operator
  BY DEF SessionsTypeInv, SessionRowsOK, Revoked, Session, Live
<1> QED  BY <1>1, <1>2, RowsKept DEF SessionsTypeInv

\* What InsertSession makes of the rows: it evicts at most one, and fills a free one.
LEMMA InsertRows ==
    ASSUME SessionsTypeInv, NEW s \in Slots, InsertSession(s)
    PROVE  LET o == sreq[s].operator
               new == Min(FreeTokens)
           IN  /\ o \in Operators /\ new \in Tokens /\ ~Live(new)
               /\ session' \in [Tokens -> Session]
               /\ session'[new].status = "live" /\ session'[new].operator = o
               /\ session'[new].password = sreq[s].password
               /\ session'[new].proof = sreq[s].proof
               /\ session'[new].handed => o \notin Mlros \/ sreq[s].carried
               /\ \A t \in Tokens \ {new} :
                     /\ t = sreq[s].token => session'[t].status = "revoked"
                     /\ t # sreq[s].token => session'[t].status = session[t].status
                     /\ session'[t].operator = session[t].operator
                     /\ session'[t].password = session[t].password
                     /\ session'[t].proof = session[t].proof
                     /\ session'[t].handed = session[t].handed
                     /\ session'[t].mfa = session[t].mfa
<1> DEFINE o == sreq[s].operator
           new == Min(FreeTokens)
           rows == Evicted(session, sreq[s].token)
           row(mfa, handed) == [status |-> "live", operator |-> o, mfa |-> mfa, handed |-> handed,
                                proof |-> sreq[s].proof, password |-> sreq[s].password]
           challenged == o \in Mlros /\ ~sreq[s].carried
<1>1. o \in Operators /\ sreq[s] \in Request
  BY DEF InsertSession, SessionsTypeInv, SRequestsOK, Informed
<1>2. new \in Tokens /\ session[new].status = "unused"
  BY NextTokenIsFree DEF InsertSession, FreeTokens
<1>3. session' = [rows EXCEPT ![new] = row(TRUE, ~challenged)]
  BY Zenon DEF InsertSession, FreeTokens
<1>4. rows \in [Tokens -> Session]
  <2>1. ASSUME NEW t \in Tokens, NEW status \in {"revoked"}
        PROVE  [session EXCEPT ![t].status = status] \in [Tokens -> Session]
    BY DEF SessionsTypeInv, SessionRowsOK, Session
  <2>2. sreq[s].token \in Tokens \cup {None}
    BY <1>1 DEF Request
  <2>3. session \in [Tokens -> Session]
    BY DEF SessionsTypeInv, SessionRowsOK
  <2> QED  BY <2>1, <2>2, <2>3 DEF Evicted
<1>5. ASSUME NEW t \in Tokens
      PROVE  /\ t = sreq[s].token => rows[t].status = "revoked"
             /\ t # sreq[s].token => rows[t].status = session[t].status
             /\ rows[t].operator = session[t].operator
             /\ rows[t].password = session[t].password
             /\ rows[t].proof = session[t].proof
             /\ rows[t].handed = session[t].handed
             /\ rows[t].mfa = session[t].mfa
  <2>1. Tokens \subseteq Nat
    BY DEF Tokens
  <2> QED  BY <2>1 DEF SessionsTypeInv, SessionRowsOK, Evicted, Session
<1>6. ASSUME NEW mfa \in BOOLEAN, NEW handed \in BOOLEAN
      PROVE  /\ row(mfa, handed) \in Session
             /\ row(mfa, handed).status = "live" /\ row(mfa, handed).operator = o
             /\ row(mfa, handed).password = sreq[s].password
             /\ row(mfa, handed).proof = sreq[s].proof
             /\ row(mfa, handed).handed = handed
  BY <1>1 DEF Session, Request
<1> HIDE DEF rows, row
<1>7. PICK mfa \in BOOLEAN, handed \in BOOLEAN :
         /\ session' = [rows EXCEPT ![new] = row(mfa, handed)]
         /\ handed => ~challenged
  BY <1>3, Zenon
<1>8. ~challenged => o \notin Mlros \/ sreq[s].carried
  OBVIOUS
<1> HIDE DEF challenged, new
<1>9. session' \in [Tokens -> Session]
  BY <1>4, <1>6, <1>7
<1>10. session'[new] = row(mfa, handed) /\ \A t \in Tokens \ {new} : session'[t] = rows[t]
  BY <1>2, <1>4, <1>7
<1>11. session'[new].handed => o \notin Mlros \/ sreq[s].carried
  BY <1>6, <1>7, <1>8, <1>10
<1>12. ~Live(new)
  BY <1>2 DEF Live
<1>13. /\ session'[new].status = "live" /\ session'[new].operator = o
       /\ session'[new].password = sreq[s].password
       /\ session'[new].proof = sreq[s].proof
  BY <1>6, <1>10
<1> HIDE DEF o
<1>14. o = sreq[s].operator /\ new = Min(FreeTokens)
  BY DEF o, new
<1> QED  BY <1>1, <1>2, <1>5, <1>9, <1>10, <1>11, <1>12, <1>13, <1>14

\* A challenge marks one row: it locks the row or records the proof it was given.
Marks(s) == MfaLockSession(s) \/ \E remember \in BOOLEAN : CodeAccepted(s, remember)

LEMMA MarkedRows ==
    ASSUME SessionsTypeInv, NEW s \in Slots, Marks(s)
    PROVE  /\ session' \in [Tokens -> Session]
           /\ \A t \in Tokens :
                 /\ session'[t].status = session[t].status
                 /\ session'[t].operator = session[t].operator
                 /\ session'[t].password = session[t].password
                 /\ \/ session'[t] = session[t] \/ session'[t].proof # "none"
                    \/ session'[t].mfa = FALSE
<1> DEFINE t == sreq[s].token
<1>1. t \in Tokens
  BY DEF Marks, MfaLockSession, CodeAccepted, SessionsTypeInv, SRequestsOK, Informed
<1>2. session \in [Tokens -> Session]
  BY DEF SessionsTypeInv, SessionRowsOK
<1>3. \/ session' = [session EXCEPT ![t].handed = TRUE, ![t].proof = "device"]
      \/ session' = [session EXCEPT ![t].mfa = TRUE, ![t].proof = "code"]
      \/ session' = [session EXCEPT ![t].handed = TRUE, ![t].mfa = FALSE]
  BY Zenon DEF Marks, MfaLockSession, CodeAccepted
<1> HIDE DEF t
<1>4. \E flag \in BOOLEAN, proof \in {"device", "code"} :
         \/ session' = [session EXCEPT ![t].handed = flag, ![t].proof = proof]
         \/ session' = [session EXCEPT ![t].mfa = flag, ![t].proof = proof]
         \/ \E mfa \in {FALSE} : session' = [session EXCEPT ![t].handed = flag, ![t].mfa = mfa]
  BY <1>3, Zenon
<1>5. PICK flag \in BOOLEAN, proof \in {"device", "code"} :
         \/ session' = [session EXCEPT ![t].handed = flag, ![t].proof = proof]
         \/ session' = [session EXCEPT ![t].mfa = flag, ![t].proof = proof]
         \/ \E mfa \in {FALSE} : session' = [session EXCEPT ![t].handed = flag, ![t].mfa = mfa]
  BY <1>4
<1>6. ASSUME session' = [session EXCEPT ![t].handed = flag, ![t].proof = proof]
      PROVE  /\ session' \in [Tokens -> Session]
             /\ \A u \in Tokens :
                   /\ session'[u].status = session[u].status
                   /\ session'[u].operator = session[u].operator
                   /\ session'[u].password = session[u].password
                   /\ session'[u] = session[u] \/ session'[u].proof # "none"
  <2>1. proof \in Proofs /\ proof # "none"
    BY DEF Proofs
  <2>2. /\ session' \in [Tokens -> Session]
        /\ \A u \in Tokens :
              /\ session'[u].status = session[u].status
              /\ session'[u].operator = session[u].operator
              /\ session'[u].password = session[u].password
              /\ session'[u] = session[u] \/ session'[u].proof = proof
    BY <1>1, <1>2, <1>6, <2>1 DEF Session
  <2> QED  BY <2>1, <2>2
<1>7. ASSUME session' = [session EXCEPT ![t].mfa = flag, ![t].proof = proof]
      PROVE  /\ session' \in [Tokens -> Session]
             /\ \A u \in Tokens :
                   /\ session'[u].status = session[u].status
                   /\ session'[u].operator = session[u].operator
                   /\ session'[u].password = session[u].password
                   /\ session'[u] = session[u] \/ session'[u].proof # "none"
  <2>1. proof \in Proofs /\ proof # "none"
    BY DEF Proofs
  <2>2. /\ session' \in [Tokens -> Session]
        /\ \A u \in Tokens :
              /\ session'[u].status = session[u].status
              /\ session'[u].operator = session[u].operator
              /\ session'[u].password = session[u].password
              /\ session'[u] = session[u] \/ session'[u].proof = proof
    BY <1>1, <1>2, <1>7, <2>1 DEF Session
  <2> QED  BY <2>1, <2>2
<1>8. ASSUME NEW mfa \in {FALSE}, session' = [session EXCEPT ![t].handed = flag, ![t].mfa = mfa]
      PROVE  /\ session' \in [Tokens -> Session]
             /\ \A u \in Tokens :
                   /\ session'[u].status = session[u].status
                   /\ session'[u].operator = session[u].operator
                   /\ session'[u].password = session[u].password
                   /\ session'[u] = session[u] \/ session'[u].mfa = FALSE
  <2>1. mfa \in BOOLEAN
    OBVIOUS
  <2>2. /\ session' \in [Tokens -> Session]
        /\ \A u \in Tokens :
              /\ session'[u].status = session[u].status
              /\ session'[u].operator = session[u].operator
              /\ session'[u].password = session[u].password
              /\ session'[u] = session[u] \/ session'[u].mfa = mfa
    BY <1>1, <1>2, <1>8, <2>1 DEF Session
  <2> QED  BY <2>2, Zenon
<1> QED  BY <1>5, <1>6, <1>7, <1>8, Zenon

\* Signing out, and time: rows stop being live, or go idle.
LEMMA EndedRows ==
    ASSUME SessionsTypeInv, (\E t \in Tokens : Logout(t)) \/ Elapse
    PROVE  /\ session' \in [Tokens -> Session]
           /\ \A t \in Tokens :
                 /\ session'[t].status \in {"live", "idle"} => Live(t)
                 /\ session'[t].operator = session[t].operator
                 /\ session'[t].password = session[t].password
                 /\ session'[t].proof = session[t].proof
                 /\ session'[t].mfa = session[t].mfa
                 /\ session'[t].handed = session[t].handed
<1>1. session \in [Tokens -> Session]
  BY DEF SessionsTypeInv, SessionRowsOK
<1>2. CASE session' = session
  BY <1>1, <1>2 DEF Live
<1>3. ASSUME NEW t \in Tokens, NEW status \in {"revoked", "expired"},
             session' = [session EXCEPT ![t].status = status]
      PROVE  /\ session' \in [Tokens -> Session]
             /\ \A u \in Tokens :
                   /\ session'[u].status \in {"live", "idle"} => Live(u)
                   /\ session'[u].operator = session[u].operator
                   /\ session'[u].password = session[u].password
                   /\ session'[u].proof = session[u].proof
                   /\ session'[u].mfa = session[u].mfa
                   /\ session'[u].handed = session[u].handed
  BY <1>1, <1>3 DEF Session, Live
<1>4. ASSUME NEW t \in Tokens, NEW status \in {"idle"}, Live(t),
             session' = [session EXCEPT ![t].status = status]
      PROVE  /\ session' \in [Tokens -> Session]
             /\ \A u \in Tokens :
                   /\ session'[u].status \in {"live", "idle"} => Live(u)
                   /\ session'[u].operator = session[u].operator
                   /\ session'[u].password = session[u].password
                   /\ session'[u].proof = session[u].proof
                   /\ session'[u].mfa = session[u].mfa
                   /\ session'[u].handed = session[u].handed
  BY <1>1, <1>4 DEF Session, Live
<1>5. \/ session' = session
      \/ \E t \in Tokens, status \in {"revoked", "expired"} :
            session' = [session EXCEPT ![t].status = status]
      \/ \E t \in Tokens, status \in {"idle"} :
            Live(t) /\ session' = [session EXCEPT ![t].status = status]
  BY DEF Logout, Elapse
<1> QED  BY <1>2, <1>3, <1>4, <1>5, Zenon

-------------------------------------------------------------------------------
\* The steps by what they touch

\* A request begins: it has read the rows and changed none, or verified an address.
BeginsStep(s) ==
    \/ \E o \in Operators, right \in BOOLEAN : LoginRead(s, o, right)
    \/ \E o \in Operators : UaePassLogin(s, o) \/ VerifyEmail(s, o)
    \/ \E t \in Tokens : ChallengeRead(s, t) \/ ChangePassword(s, t)
    \/ \E t \in Tokens, o \in Operators :
          ResetPassword(s, t, o) \/ WebDeactivate(s, t, o) \/ MobileDeactivate(s, t, o)

\* A request goes on, or ends, and the rows stay.
GoesOn(s) ==
    CountSessions(s) \/ ReadOldest(s) \/ CodeRefused(s) \/ RememberDevice(s) \/ RevokeDevices(s)
    \/ Die(s)

\* An account's counter, lock or password moves.
CountsStep(s) ==
    ClearLapsedLock(s) \/ WrongPassword(s) \/ RightPassword(s) \/ SetPassword(s)

\* Steps of no request in a slot.
Aside ==
    \/ \E t \in Tokens : Logout(t) \/ ForgetDevices(t)
    \/ \E t \in Tokens, o \in Operators : Reactivate(t, o)
    \/ \E o \in Operators : Unlock(o)
    \/ Elapse

LEMMA SessionsNextSplit ==
    ASSUME SessionsNext
    PROVE  \/ \E s \in Slots :
              \/ BeginsStep(s) \/ GoesOn(s) \/ CountsStep(s) \/ InsertSession(s) \/ Marks(s)
              \/ RevokeSessions(s) \/ Deactivate(s)
           \/ Aside
BY Zenon DEF SessionsNext, LoginStep, AccountStep, BeginsStep, GoesOn, CountsStep, Marks, Aside

\* A request begins in an idle slot, with what it has read.
LEMMA BeginsIs ==
    ASSUME SessionsTypeInv, NEW s \in Slots, BeginsStep(s)
    PROVE  /\ \E q : Begins(s, q)
           /\ UNCHANGED <<session, trusted, misses, torn>>
           /\ sreq[s].phase = "idle"
<1>1. \E q : Begins(s, q)
  <2>1. ASSUME NEW o \in Operators, NEW right \in BOOLEAN, LoginRead(s, o, right)
        PROVE  \E q : Begins(s, q)
    BY <2>1, LoginBegins
  <2>2. ASSUME NEW o \in Operators, UaePassLogin(s, o) \/ VerifyEmail(s, o)
        PROVE  \E q : Begins(s, q)
    BY <2>2, SignedInBegins
  <2>3. ASSUME NEW t \in Tokens, ChallengeRead(s, t)
        PROVE  \E q : Begins(s, q)
    BY <2>3, ChallengeBegins
  <2>4. ASSUME NEW t \in Tokens, ChangePassword(s, t)
        PROVE  \E q : Begins(s, q)
    BY <2>4, ChangeBegins
  <2>5. ASSUME NEW t \in Tokens, NEW o \in Operators,
               ResetPassword(s, t, o) \/ WebDeactivate(s, t, o) \/ MobileDeactivate(s, t, o)
        PROVE  \E q : Begins(s, q)
    BY <2>5, AdminBegins
  <2> QED  BY <2>1, <2>2, <2>3, <2>4, <2>5, Zenon DEF BeginsStep
<1>2. UNCHANGED <<session, trusted, misses, torn>> /\ sreq[s].phase = "idle"
  BY DEF BeginsStep, LoginRead, UaePassLogin, VerifyEmail, ChallengeRead, ChangePassword,
         ResetPassword, WebDeactivate, MobileDeactivate, Start
<1> QED  BY <1>1, <1>2

\* The accounts as a request begins, and beside the requests: only flags and locks.
AccountsAlike ==
    /\ account' \in [Operators -> Account]
    /\ \A o \in Operators :
          /\ account'[o].failed = account[o].failed /\ account'[o].password = account[o].password
          /\ account[o].lock # "none" => account'[o].lock # "none"

LEMMA AlikeOK == ASSUME SessionsTypeInv, AccountsAlike PROVE AccountsOK'
BY DEF SessionsTypeInv, AccountsOK, AccountsAlike

LEMMA FlagsAlike ==
    ASSUME SessionsTypeInv,
           \/ account' = account
           \/ \E o \in Operators : account' = [account EXCEPT ![o].verified = TRUE]
           \/ \E o \in Operators : account' = [account EXCEPT ![o].active = FALSE]
           \/ \E o \in Operators : account' = [account EXCEPT ![o].active = TRUE]
           \/ \E o \in Operators : account' = [account EXCEPT ![o].lock = "past"]
    PROVE  AccountsAlike
<1>1. account \in [Operators -> Account]
  BY DEF SessionsTypeInv, AccountsOK
<1>2. \/ account' = account
      \/ \E o \in Operators, flag \in BOOLEAN : account' = [account EXCEPT ![o].verified = flag]
      \/ \E o \in Operators, flag \in BOOLEAN : account' = [account EXCEPT ![o].active = flag]
      \/ \E o \in Operators, lock \in {"past"} : account' = [account EXCEPT ![o].lock = lock]
  BY Zenon
<1>3. CASE account' = account
  BY <1>1, <1>3 DEF AccountsAlike
<1>4. ASSUME NEW o \in Operators, NEW flag \in BOOLEAN,
             account' = [account EXCEPT ![o].verified = flag]
      PROVE  AccountsAlike
  BY <1>1, <1>4 DEF AccountsAlike, Account
<1>5. ASSUME NEW o \in Operators, NEW flag \in BOOLEAN,
             account' = [account EXCEPT ![o].active = flag]
      PROVE  AccountsAlike
  BY <1>1, <1>5 DEF AccountsAlike, Account
<1>6. ASSUME NEW o \in Operators, NEW lock \in {"past"},
             account' = [account EXCEPT ![o].lock = lock]
      PROVE  AccountsAlike
  BY <1>1, <1>6 DEF AccountsAlike, Account
<1> QED  BY <1>2, <1>3, <1>4, <1>5, <1>6, Zenon

LEMMA BeginsAlike ==
    ASSUME SessionsTypeInv, NEW s \in Slots, BeginsStep(s)
    PROVE  AccountsAlike
<1>1. \/ account' = account
      \/ \E o \in Operators : account' = [account EXCEPT ![o].verified = TRUE]
  BY Zenon DEF BeginsStep, LoginRead, UaePassLogin, VerifyEmail, ChallengeRead, ChangePassword,
         ResetPassword, WebDeactivate, MobileDeactivate
<1> QED  BY <1>1, FlagsAlike, Zenon

LEMMA OthersAlike ==
    ASSUME SessionsTypeInv, NEW s \in Slots,
           GoesOn(s) \/ InsertSession(s) \/ Marks(s) \/ RevokeSessions(s) \/ Deactivate(s)
    PROVE  AccountsAlike
<1>1. \/ account' = account
      \/ \E o \in Operators : account' = [account EXCEPT ![o].active = FALSE]
  <2>1. CASE Deactivate(s)
    <3>1. sreq[s].operator \in Operators
      BY <2>1 DEF Deactivate, SessionsTypeInv, SRequestsOK, Informed
    <3> QED  BY <2>1, <3>1, Zenon DEF Deactivate
  <2>2. CASE GoesOn(s) \/ InsertSession(s) \/ Marks(s) \/ RevokeSessions(s)
    BY <2>2, Zenon DEF GoesOn, CountSessions, ReadOldest, CodeRefused, RememberDevice,
       RevokeDevices, Die, InsertSession, Marks, MfaLockSession, CodeAccepted, RevokeSessions
  <2> QED  BY <2>1, <2>2
<1> QED  BY <1>1, FlagsAlike, Zenon

\* Beside the requests an account keeps its counter, or an operator unlocks it.
LEMMA AsideAccounts ==
    ASSUME SessionsTypeInv, Aside
    PROVE  \/ AccountsAlike /\ misses' = misses
           \/ (\E o \in Operators : Cleared(o)) /\ session' = session
<1>1. CASE \E o \in Operators : Unlock(o)
  BY <1>1, Zenon DEF Unlock
<1>2. CASE \/ \E t \in Tokens : Logout(t) \/ ForgetDevices(t)
           \/ \E t \in Tokens, o \in Operators : Reactivate(t, o)
           \/ Elapse
  <2>1. /\ \/ account' = account
           \/ \E o \in Operators : account' = [account EXCEPT ![o].active = TRUE]
           \/ \E o \in Operators : account' = [account EXCEPT ![o].lock = "past"]
        /\ misses' = misses
    BY <1>2, Zenon DEF Logout, ForgetDevices, Reactivate, Elapse
  <2> QED  BY <2>1, FlagsAlike, Zenon
<1> QED  BY <1>1, <1>2 DEF Aside

LEMMA CountsAccounts ==
    ASSUME SessionsTypeInv, NEW s \in Slots, CountsStep(s)
    PROVE  AccountsOK' /\ misses' \in [Operators -> 0..MAX_FAILED_LOGINS]
<1>1. CASE ClearLapsedLock(s) \/ RightPassword(s)
  <2>1. sreq[s].operator \in Operators /\ Cleared(sreq[s].operator)
    BY <1>1 DEF ClearLapsedLock, RightPassword, SessionsTypeInv, SRequestsOK, Informed
  <2> QED  BY <2>1, ClearedOK
<1>2. CASE WrongPassword(s)
  BY <1>2, WrongPasswordOK
<1>3. CASE SetPassword(s)
  BY <1>3, SetPasswordOK
<1> QED  BY <1>1, <1>2, <1>3 DEF CountsStep

\* The rows of sessions keep well formed.
LEMMA StepRows ==
    ASSUME SessionsTypeInv, SessionsNext
    PROVE  SessionRowsOK'
<1>1. ASSUME session' = session  PROVE SessionRowsOK'
  BY <1>1 DEF SessionsTypeInv, SessionRowsOK, Live
<1>2. ASSUME NEW s \in Slots, BeginsStep(s) \/ GoesOn(s) \/ CountsStep(s)
      PROVE  SessionRowsOK'
  <2>1. session' = session
    BY <1>2, BeginsIs DEF GoesOn, CountsStep, CountSessions, ReadOldest, CodeRefused,
       RememberDevice, RevokeDevices, Die, ClearLapsedLock, WrongPassword, RightPassword, SetPassword
  <2> QED  BY <1>1, <2>1
<1>3. ASSUME NEW s \in Slots, InsertSession(s)
      PROVE  SessionRowsOK'
  <2> DEFINE new == Min(FreeTokens)
             o == sreq[s].operator
  <2>1. /\ o \in Operators /\ session' \in [Tokens -> Session]
        /\ session'[new].operator = o
        /\ \A t \in Tokens \ {new} :
              /\ session'[t].status = "revoked" \/ session'[t].status = session[t].status
              /\ session'[t].operator = session[t].operator
    BY <1>3, InsertRows
  <2> HIDE DEF new, o
  <2> QED  BY <2>1 DEF SessionsTypeInv, SessionRowsOK, Live
<1>4. ASSUME NEW s \in Slots, Marks(s)
      PROVE  SessionRowsOK'
  BY <1>4, MarkedRows DEF SessionsTypeInv, SessionRowsOK, Live
<1>5. ASSUME NEW s \in Slots, RevokeSessions(s) \/ Deactivate(s)
      PROVE  SessionRowsOK'
  BY <1>5, RevokedOK DEF RevokeSessions, Deactivate
<1>6. ASSUME Aside  PROVE SessionRowsOK'
  <2>1. session' = session \/ (\E t \in Tokens : Logout(t)) \/ Elapse
    BY <1>6, Zenon DEF Aside, ForgetDevices, Reactivate, Unlock
  <2>2. ASSUME (\E t \in Tokens : Logout(t)) \/ Elapse  PROVE SessionRowsOK'
    BY <2>2, EndedRows, RowsKept DEF SessionsTypeInv
  <2> QED  BY <1>1, <2>1, <2>2
<1> QED  BY <1>2, <1>3, <1>4, <1>5, <1>6, SessionsNextSplit, Zenon

LEMMA StepAccounts ==
    ASSUME SessionsTypeInv, SessionsNext
    PROVE  AccountsOK' /\ misses' \in [Operators -> 0..MAX_FAILED_LOGINS]
<1>1. misses \in [Operators -> 0..MAX_FAILED_LOGINS]
  BY DEF SessionsTypeInv, HistoriesOK
<1>2. ASSUME NEW s \in Slots, BeginsStep(s)
      PROVE  AccountsOK' /\ misses' = misses
  BY <1>2, BeginsIs, BeginsAlike, AlikeOK
<1>3. ASSUME NEW s \in Slots,
             GoesOn(s) \/ InsertSession(s) \/ Marks(s) \/ RevokeSessions(s) \/ Deactivate(s)
      PROVE  AccountsOK' /\ misses' = misses
  <2>1. misses' = misses
    BY <1>3, Zenon DEF GoesOn, CountSessions, ReadOldest, CodeRefused, RememberDevice,
       RevokeDevices, Die, InsertSession, Marks, MfaLockSession, CodeAccepted, RevokeSessions,
       Deactivate
  <2> QED  BY <1>3, <2>1, OthersAlike, AlikeOK
<1>4. ASSUME Aside  PROVE AccountsOK' /\ misses' \in [Operators -> 0..MAX_FAILED_LOGINS]
  BY <1>1, <1>4, AsideAccounts, AlikeOK, ClearedOK, Zenon
<1> QED  BY <1>1, <1>2, <1>3, <1>4, CountsAccounts, SessionsNextSplit, Zenon

LEMMA StepHistories ==
    ASSUME SessionsTypeInv, SessionsNext
    PROVE  trusted' \subseteq Operators /\ torn' \subseteq Operators
<1>1. trusted \subseteq Operators /\ torn \subseteq Operators
  BY DEF SessionsTypeInv, HistoriesOK
<1>2. ASSUME NEW s \in Slots, GoesOn(s)
      PROVE  trusted' \subseteq Operators /\ torn' \subseteq Operators
  BY <1>1, <1>2 DEF GoesOn, CountSessions, ReadOldest, CodeRefused, RememberDevice, RevokeDevices,
         Die, SessionsTypeInv, SRequestsOK, Informed
<1>3. ASSUME NEW s \in Slots,
             \/ CountsStep(s) \/ InsertSession(s) \/ Marks(s) \/ RevokeSessions(s) \/ Deactivate(s)
      PROVE  UNCHANGED <<trusted, torn>>
  BY <1>3 DEF CountsStep, ClearLapsedLock, WrongPassword, RightPassword, SetPassword,
         InsertSession, Marks, MfaLockSession, CodeAccepted, RevokeSessions, Deactivate
<1>4. ASSUME Aside  PROVE trusted' \subseteq Operators /\ torn' \subseteq Operators
  BY <1>1, <1>4 DEF Aside, Logout, ForgetDevices, Reactivate, Unlock, Elapse
<1>5. ASSUME NEW s \in Slots, BeginsStep(s)  PROVE UNCHANGED <<trusted, torn>>
  BY <1>5, BeginsIs
<1>6. ASSUME NEW s \in Slots,
             \/ BeginsStep(s) \/ CountsStep(s) \/ InsertSession(s) \/ Marks(s)
             \/ RevokeSessions(s) \/ Deactivate(s)
      PROVE  trusted' \subseteq Operators /\ torn' \subseteq Operators
  BY <1>1, <1>3, <1>5, <1>6
<1> QED  BY <1>2, <1>4, <1>6, SessionsNextSplit, Zenon

LEMMA StepRequests ==
    ASSUME SessionsTypeInv, SessionsNext
    PROVE  SRequestsOK'
<1>1. ASSUME NEW s \in Slots, BeginsStep(s)  PROVE SRequestsOK'
  BY <1>1, BeginsIs, BeginsTypes, Zenon
<1>2. ASSUME NEW s \in Slots,
             GoesOn(s) \/ CountsStep(s) \/ Marks(s) \/ RevokeSessions(s) \/ Deactivate(s)
      PROVE  SRequestsOK'
  BY <1>2, RequestsGoOn, ReadOldestTypes, SetPasswordRequests, Zenon DEF GoesOn, CountsStep, Marks
<1>3. ASSUME Aside  PROVE SRequestsOK'
  <2>1. sreq' = sreq
    BY <1>3 DEF Aside, Logout, ForgetDevices, Reactivate, Unlock, Elapse
  <2> QED  BY <2>1 DEF SessionsTypeInv, SRequestsOK, Informed
<1> QED  BY <1>1, <1>2, <1>3, InsertRequests, SessionsNextSplit, Zenon

LEMMA SessionsStepTypes == ASSUME SessionsTypeInv, [SessionsNext]_sessionVars PROVE SessionsTypeInv'
<1>1. CASE SessionsNext
  BY <1>1, StepRows, StepAccounts, StepHistories, StepRequests DEF SessionsTypeInv, HistoriesOK
<1>2. CASE UNCHANGED sessionVars
  BY <1>2 DEF sessionVars, SessionsTypeInv, AccountsOK, SessionRowsOK, HistoriesOK, SRequestsOK,
         Live, Informed
<1> QED  BY <1>1, <1>2

\* Every row and request of the sign-in has its type (operators, sessions and the locals
\* of login and create_session): no account counts past MAX_FAILED_LOGINS, for one that
\* has reached it is locked, or its lapsed lock is cleared before the next attempt.
THEOREM SessionsTypeCorrect == SessionsSpec => []SessionsTypeOK
<1>1. SessionsTypeInv => SessionsTypeOK
  BY DEF SessionsTypeInv, AccountsOK, SessionRowsOK, HistoriesOK, SRequestsOK, SessionsTypeOK
<1> QED  BY <1>1, SessionsInitTypes, SessionsStepTypes, PTL DEF SessionsSpec

-------------------------------------------------------------------------------
\* Requests as they go on, field by field

LEMMA GotoFields ==
    ASSUME SessionsTypeInv, NEW s \in Slots, NEW phase, Goto(s, phase)
    PROVE  /\ sreq'[s].phase = phase /\ sreq'[s].operator = sreq[s].operator
           /\ sreq'[s].failed = sreq[s].failed /\ sreq'[s].password = sreq[s].password
           /\ sreq'[s].carried = sreq[s].carried /\ sreq'[s].proof = sreq[s].proof
           /\ sreq'[s].token = sreq[s].token
           /\ \A t \in Slots \ {s} : sreq'[t] = sreq[t]
BY DEF Goto, SessionsTypeInv, SRequestsOK, Request

LEMMA EndFields ==
    ASSUME SessionsTypeInv, NEW s \in Slots, End(s)
    PROVE  sreq'[s] = NoRequest /\ \A t \in Slots \ {s} : sreq'[t] = sreq[t]
BY DEF End, SessionsTypeInv, SRequestsOK

LEMMA BeginFields ==
    ASSUME SessionsTypeInv, NEW s \in Slots, NEW q, Begins(s, q)
    PROVE  sreq'[s] = q /\ \A t \in Slots \ {s} : sreq'[t] = sreq[t]
BY DEF Begins, SessionsTypeInv, SRequestsOK

\* Whoever carries a session over keeps what it was proven with.
KeepsProof(s) ==
    /\ \/ sreq'[s].carried = FALSE
       \/ /\ sreq'[s].carried = sreq[s].carried /\ sreq'[s].operator = sreq[s].operator
          /\ sreq'[s].proof = sreq[s].proof
    /\ \A t \in Slots \ {s} : sreq'[t] = sreq[t]

LEMMA RequestsKeepProof ==
    ASSUME SessionsTypeInv, NEW s \in Slots,
           \/ GoesOn(s) \/ CountsStep(s) \/ InsertSession(s) \/ Marks(s)
           \/ RevokeSessions(s) \/ Deactivate(s)
    PROVE  KeepsProof(s)
<1>1. ASSUME End(s)  PROVE KeepsProof(s)
  BY <1>1, EndFields, NoRequestFields DEF KeepsProof
<1>2. ASSUME NEW phase, Goto(s, phase)  PROVE KeepsProof(s)
  BY <1>2, GotoFields DEF KeepsProof
<1>3. ASSUME NEW phase, NEW token, sreq' = [sreq EXCEPT ![s].phase = phase, ![s].token = token]
      PROVE  KeepsProof(s)
  BY <1>3 DEF KeepsProof, SessionsTypeInv, SRequestsOK, Request
<1>4. ASSUME NEW phase, NEW password,
             sreq' = [sreq EXCEPT ![s].phase = phase, ![s].password = password]
      PROVE  KeepsProof(s)
  BY <1>4 DEF KeepsProof, SessionsTypeInv, SRequestsOK, Request
<1>5. \/ End(s)
      \/ \E phase : Goto(s, phase)
      \/ \E phase, token : sreq' = [sreq EXCEPT ![s].phase = phase, ![s].token = token]
      \/ \E phase, password : sreq' = [sreq EXCEPT ![s].phase = phase, ![s].password = password]
  <2>1. CASE GoesOn(s)
    BY <2>1, Zenon DEF GoesOn, CountSessions, ReadOldest, CodeRefused, RememberDevice,
       RevokeDevices, Die
  <2>2. CASE CountsStep(s)
    BY <2>2, Zenon DEF CountsStep, ClearLapsedLock, WrongPassword, RightPassword, SetPassword
  <2>3. CASE InsertSession(s)
    BY <2>3, Zenon DEF InsertSession
  <2>4. CASE Marks(s)
    BY <2>4, Zenon DEF Marks, MfaLockSession, CodeAccepted
  <2>5. CASE RevokeSessions(s) \/ Deactivate(s)
    BY <2>5, Zenon DEF RevokeSessions, Deactivate
  <2> QED  BY <2>1, <2>2, <2>3, <2>4, <2>5
<1> QED  BY <1>1, <1>2, <1>3, <1>4, <1>5

-------------------------------------------------------------------------------
\* The challenge of the MLROs

\* Only a session that was proven is carried over a change of password.
CarriedInv ==
    \A s \in Slots :
        sreq[s].carried /\ sreq[s].operator \in Mlros => sreq[s].proof # "none"

LEMMA SessionsInitChallenged == ASSUME SessionsInit PROVE CarriedInv /\ ChallengedFirst
BY DEF SessionsInit, CarriedInv, ChallengedFirst, NoRequest, NoSession

LEMMA BeginsCarried ==
    ASSUME SessionsTypeInv, CarriedInv, ChallengedFirst, NEW s \in Slots, BeginsStep(s)
    PROVE  CarriedInv'
<1>1. ASSUME NEW q, Begins(s, q),
             q.carried = NoRequest.carried \/ (q.operator \in Mlros => q.proof # "none")
      PROVE  CarriedInv'
  <2>1. sreq'[s] = q /\ \A t \in Slots \ {s} : sreq'[t] = sreq[t]
    BY <1>1, BeginFields
  <2> QED  BY <1>1, <2>1, NoRequestFields DEF CarriedInv
<1>2. ASSUME NEW t \in Tokens, ChangePassword(s, t)
      PROVE  \E q : Begins(s, q) /\ (q.operator \in Mlros => q.proof # "none")
  <2>1. session[t].operator \in Mlros => session[t].proof # "none"
    BY <1>2 DEF ChangePassword, require_session, ChallengedFirst
  <2> QED  BY <1>2, <2>1, ChangeBegins
<1>3. ASSUME NEW o \in Operators, NEW right \in BOOLEAN, LoginRead(s, o, right)
      PROVE  \E q : Begins(s, q) /\ q.carried = NoRequest.carried
  BY <1>3, LoginBegins
<1>4. ASSUME NEW o \in Operators, UaePassLogin(s, o) \/ VerifyEmail(s, o)
      PROVE  \E q : Begins(s, q) /\ q.carried = NoRequest.carried
  BY <1>4, SignedInBegins
<1>5. ASSUME NEW t \in Tokens, ChallengeRead(s, t)
      PROVE  \E q : Begins(s, q) /\ q.carried = NoRequest.carried
  BY <1>5, ChallengeBegins
<1>6. ASSUME NEW t \in Tokens, NEW o \in Operators,
             ResetPassword(s, t, o) \/ WebDeactivate(s, t, o) \/ MobileDeactivate(s, t, o)
      PROVE  \E q : Begins(s, q) /\ q.carried = NoRequest.carried
  BY <1>6, AdminBegins
<1> QED  BY <1>1, <1>2, <1>3, <1>4, <1>5, <1>6, Zenon DEF BeginsStep

LEMMA StepCarried ==
    ASSUME SessionsTypeInv, CarriedInv, ChallengedFirst, SessionsNext
    PROVE  CarriedInv'
<1>1. ASSUME NEW s \in Slots, KeepsProof(s)  PROVE CarriedInv'
  BY <1>1 DEF KeepsProof, CarriedInv
<1>2. ASSUME Aside  PROVE CarriedInv'
  BY <1>2 DEF Aside, Logout, ForgetDevices, Reactivate, Unlock, Elapse, CarriedInv
<1> QED  BY <1>1, <1>2, BeginsCarried, RequestsKeepProof, SessionsNextSplit, Zenon

LEMMA StepChallenged ==
    ASSUME SessionsTypeInv, CarriedInv, ChallengedFirst, SessionsNext
    PROVE  ChallengedFirst'
<1>1. ASSUME session' = session  PROVE ChallengedFirst'
  BY <1>1 DEF ChallengedFirst
<1>2. ASSUME NEW s \in Slots, BeginsStep(s) \/ GoesOn(s) \/ CountsStep(s)
      PROVE  session' = session
  BY <1>2, BeginsIs DEF GoesOn, CountsStep, CountSessions, ReadOldest, CodeRefused,
     RememberDevice, RevokeDevices, Die, ClearLapsedLock, WrongPassword, RightPassword, SetPassword
<1>3. ASSUME NEW s \in Slots, InsertSession(s)
      PROVE  ChallengedFirst'
  <2> DEFINE new == Min(FreeTokens)
             o == sreq[s].operator
  <2>1. /\ session'[new].operator = o /\ session'[new].proof = sreq[s].proof
        /\ session'[new].handed => o \notin Mlros \/ sreq[s].carried
        /\ \A t \in Tokens \ {new} :
              /\ session'[t].operator = session[t].operator
              /\ session'[t].proof = session[t].proof
              /\ session'[t].handed = session[t].handed
              /\ session'[t].mfa = session[t].mfa
    BY <1>3, InsertRows
  <2>2. sreq[s].carried /\ o \in Mlros => sreq[s].proof # "none"
    BY DEF CarriedInv
  <2> HIDE DEF new, o
  <2> QED  BY <2>1, <2>2 DEF ChallengedFirst
<1>4. ASSUME NEW s \in Slots, Marks(s)  PROVE ChallengedFirst'
  BY <1>4, MarkedRows DEF ChallengedFirst
<1>5. ASSUME NEW s \in Slots, RevokeSessions(s) \/ Deactivate(s)  PROVE ChallengedFirst'
  BY <1>5 DEF RevokeSessions, Deactivate, Revoked, ChallengedFirst, SessionsTypeInv, SessionRowsOK,
     Session
<1>6. ASSUME Aside  PROVE ChallengedFirst'
  <2>1. session' = session \/ (\E t \in Tokens : Logout(t)) \/ Elapse
    BY <1>6, Zenon DEF Aside, ForgetDevices, Reactivate, Unlock
  <2>2. ASSUME (\E t \in Tokens : Logout(t)) \/ Elapse  PROVE ChallengedFirst'
    BY <2>2, EndedRows DEF ChallengedFirst
  <2> QED  BY <1>1, <2>1, <2>2
<1> QED  BY <1>1, <1>2, <1>3, <1>4, <1>5, <1>6, SessionsNextSplit, Zenon

LEMMA SessionsStepChallenged ==
    ASSUME SessionsTypeInv, CarriedInv, ChallengedFirst, [SessionsNext]_sessionVars
    PROVE  CarriedInv' /\ ChallengedFirst'
<1>1. CASE UNCHANGED sessionVars
  BY <1>1 DEF sessionVars, CarriedInv, ChallengedFirst
<1> QED  BY <1>1, StepCarried, StepChallenged

\* However requests overlap or die, an MLRO session that has left the server and is
\* accepted was opened by a recognised device, proven with a code, or carried over from
\* such a session: create_session hands the token out only after mfa_lock_session.
THEOREM ChallengedFirstCorrect == SessionsSpec => []ChallengedFirst
BY SessionsInitTypes, SessionsStepTypes, SessionsInitChallenged, SessionsStepChallenged, PTL
   DEF SessionsSpec

-------------------------------------------------------------------------------
\* While the requests about one operator do not overlap

\* Those about different operators may.
OneRequestEach ==
    \A s, u \in Slots :
        sreq[s].phase # "idle" /\ sreq[u].phase # "idle" /\ sreq[s].operator = sreq[u].operator
            => s = u

LEMMA OneRequestIsOneEach == ASSUME OneRequest PROVE OneRequestEach
BY DEF OneRequest, OneRequestEach

\* A step of a request leaves the other slots alone.
LEMMA OtherRequests ==
    ASSUME SessionsTypeInv, NEW s \in Slots,
           \/ BeginsStep(s) \/ GoesOn(s) \/ CountsStep(s) \/ InsertSession(s) \/ Marks(s)
           \/ RevokeSessions(s) \/ Deactivate(s)
    PROVE  \A u \in Slots \ {s} : sreq'[u] = sreq[u]
<1> DEFINE Apart == \A u \in Slots \ {s} : sreq'[u] = sreq[u]
<1>1. End(s) => Apart
  BY EndFields
<1>2. \A phase : Goto(s, phase) => Apart
  BY GotoFields
<1>3. \A phase, token :
         sreq' = [sreq EXCEPT ![s].phase = phase, ![s].token = token] => Apart
  BY DEF SessionsTypeInv, SRequestsOK
<1>4. \A phase, password :
         sreq' = [sreq EXCEPT ![s].phase = phase, ![s].password = password] => Apart
  BY DEF SessionsTypeInv, SRequestsOK
<1>5. BeginsStep(s) => Apart
  BY BeginsIs, BeginFields
<1> HIDE DEF Apart
<1>6. GoesOn(s) => Apart
  BY <1>1, <1>2, <1>3 DEF GoesOn, CountSessions, ReadOldest, CodeRefused, RememberDevice,
     RevokeDevices, Die
<1>7. CountsStep(s) => Apart
  BY <1>1, <1>2, <1>4 DEF CountsStep, ClearLapsedLock, WrongPassword, RightPassword, SetPassword
<1>8. InsertSession(s) => Apart
  BY <1>1, <1>3 DEF InsertSession
<1>9. Marks(s) => Apart
  BY <1>1, <1>2 DEF Marks, MfaLockSession, CodeAccepted
<1>10. RevokeSessions(s) \/ Deactivate(s) => Apart
  BY <1>1, <1>2 DEF RevokeSessions, Deactivate
<1> QED  BY <1>5, <1>6, <1>7, <1>8, <1>9, <1>10 DEF Apart

\* Who has begun is about another operator than the request that steps.
LEMMA OtherOperators ==
    ASSUME OneRequestEach, NEW s \in Slots, NEW u \in Slots \ {s}, sreq[u].phase # "idle",
           \/ GoesOn(s) \/ CountsStep(s) \/ InsertSession(s) \/ Marks(s)
           \/ RevokeSessions(s) \/ Deactivate(s)
    PROVE  sreq[u].operator # sreq[s].operator
<1>1. sreq[s].phase # "idle"
  BY DEF GoesOn, CountSessions, ReadOldest, CodeRefused, RememberDevice, RevokeDevices, Die,
     CountsStep, ClearLapsedLock, WrongPassword, RightPassword, SetPassword, InsertSession, Marks,
     MfaLockSession, CodeAccepted, RevokeSessions, Deactivate
<1> QED  BY <1>1 DEF OneRequestEach

\* What a request has read of its account as it begins.
ReadsAccount(q) ==
    /\ q.phase \in {"lapsed", "answer", "count", "code", "password", "deactivate"}
    /\ q.phase \in {"lapsed", "answer", "count"} => q.password = account[q.operator].password
    /\ q.phase = "answer" => q.failed = account[q.operator].failed

LEMMA BeginsInformed ==
    ASSUME SessionsTypeInv, NEW s \in Slots, BeginsStep(s)
    PROVE  \E q : Begins(s, q) /\ ReadsAccount(q)
<1>1. ASSUME NEW o \in Operators, NEW right \in BOOLEAN, LoginRead(s, o, right)
      PROVE  \E q : Begins(s, q) /\ ReadsAccount(q)
  <2>1. PICK q : /\ Begins(s, q) /\ q.operator = o /\ q.carried = NoRequest.carried
                 /\ q.password = account[o].password
                 /\ \/ q.phase = "lapsed" /\ q.failed = 0
                    \/ q.phase = "answer" /\ q.failed = account[o].failed
    BY <1>1, LoginBegins
  <2>2. ReadsAccount(q)
    BY <2>1 DEF ReadsAccount
  <2> QED  BY <2>1, <2>2, Zenon
<1>2. ASSUME NEW o \in Operators, UaePassLogin(s, o) \/ VerifyEmail(s, o)
      PROVE  \E q : Begins(s, q) /\ ReadsAccount(q)
  <2>1. PICK q : /\ Begins(s, q) /\ q.operator = o /\ q.carried = NoRequest.carried
                 /\ q.phase = "count" /\ q.password = account[o].password
    BY <1>2, SignedInBegins
  <2>2. ReadsAccount(q)
    BY <2>1 DEF ReadsAccount
  <2> QED  BY <2>1, <2>2, Zenon
<1>3. ASSUME NEW q, q.phase \in {"code", "password", "deactivate"}
      PROVE  ReadsAccount(q)
  BY <1>3 DEF ReadsAccount
<1>4. ASSUME NEW t \in Tokens, ChallengeRead(s, t)
      PROVE  \E q : Begins(s, q) /\ ReadsAccount(q)
  BY <1>3, <1>4, ChallengeBegins
<1>5. ASSUME NEW t \in Tokens, ChangePassword(s, t)
      PROVE  \E q : Begins(s, q) /\ ReadsAccount(q)
  BY <1>3, <1>5, ChangeBegins
<1>6. ASSUME NEW t \in Tokens, NEW o \in Operators,
             ResetPassword(s, t, o) \/ WebDeactivate(s, t, o) \/ MobileDeactivate(s, t, o)
      PROVE  \E q : Begins(s, q) /\ ReadsAccount(q)
  BY <1>3, <1>6, AdminBegins
<1> QED  BY <1>1, <1>2, <1>4, <1>5, <1>6, Zenon DEF BeginsStep

\* Only a sign-in adds to the live sessions; every other step leaves or ends some.
SessionsEnd ==
    \A t \in Tokens :
        session'[t].status \in {"live", "idle"}
            => /\ Live(t) /\ session'[t].operator = session[t].operator
               /\ session'[t].password = session[t].password

LEMMA SessionsOnlyEnd ==
    ASSUME SessionsTypeInv,
           \/ Aside
           \/ \E s \in Slots : \/ BeginsStep(s) \/ GoesOn(s) \/ CountsStep(s) \/ Marks(s)
                               \/ RevokeSessions(s) \/ Deactivate(s)
    PROVE  SessionsEnd
<1>1. ASSUME session' = session  PROVE SessionsEnd
  BY <1>1 DEF SessionsEnd, Live
<1>2. ASSUME NEW s \in Slots, BeginsStep(s) \/ GoesOn(s) \/ CountsStep(s)
      PROVE  session' = session
  BY <1>2, BeginsIs DEF GoesOn, CountsStep, CountSessions, ReadOldest, CodeRefused,
     RememberDevice, RevokeDevices, Die, ClearLapsedLock, WrongPassword, RightPassword, SetPassword
<1>3. ASSUME NEW s \in Slots, Marks(s)  PROVE SessionsEnd
  BY <1>3, MarkedRows DEF SessionsEnd, Live
<1>4. ASSUME NEW s \in Slots, RevokeSessions(s) \/ Deactivate(s)  PROVE SessionsEnd
  BY <1>4 DEF RevokeSessions, Deactivate, Revoked, SessionsEnd, SessionsTypeInv, SessionRowsOK,
     Session, Live
<1>5. ASSUME Aside  PROVE SessionsEnd
  <2>1. session' = session \/ (\E t \in Tokens : Logout(t)) \/ Elapse
    BY <1>5, Zenon DEF Aside, ForgetDevices, Reactivate, Unlock
  <2>2. ASSUME (\E t \in Tokens : Logout(t)) \/ Elapse  PROVE SessionsEnd
    BY <2>2, EndedRows DEF SessionsEnd
  <2> QED  BY <1>1, <2>1, <2>2
<1> QED  BY <1>1, <1>2, <1>3, <1>4, <1>5, Zenon

LEMMA LiveShrinks ==
    ASSUME SessionsEnd, NEW o \in Operators
    PROVE  LiveOf(o)' \subseteq LiveOf(o)
BY DEF SessionsEnd, LiveOf, Live

LEMMA LiveIsFinite ==
    ASSUME NEW o
    PROVE  IsFiniteSet(LiveOf(o)) /\ Cardinality(LiveOf(o)) \in Nat
<1>1. IsFiniteSet(Tokens)
  BY FS_Interval DEF Tokens
<1>2. LiveOf(o) \subseteq Tokens
  BY DEF LiveOf
<1> QED  BY <1>1, <1>2, FS_Subset, FS_CardinalityType

-------------------------------------------------------------------------------
\* The limit of sessions

\* A request about to insert a session has counted room for it, or knows whom to evict.
RoomInv ==
    \A s \in Slots :
        sreq[s].phase = "insert"
            => Cardinality(LiveOf(sreq[s].operator) \ {sreq[s].token}) < MAX_CONCURRENT_SESSIONS

LEMMA FewerLive ==
    ASSUME NEW A, NEW B, IsFiniteSet(A), B \subseteq A
    PROVE  IsFiniteSet(B) /\ Cardinality(B) <= Cardinality(A) /\ Cardinality(B) \in Nat
           /\ Cardinality(A) \in Nat
BY FS_Subset, FS_CardinalityType

LEMMA SessionsInitLimit == ASSUME SessionsInit PROVE SessionLimit /\ RoomInv
<1>1. ASSUME NEW o \in Operators  PROVE Cardinality(LiveOf(o)) <= MAX_CONCURRENT_SESSIONS
  <2>1. LiveOf(o) = {}
    BY DEF SessionsInit, LiveOf, Live, NoSession
  <2> QED  BY <2>1, FS_EmptySet
<1>2. RoomInv
  BY DEF SessionsInit, RoomInv, NoRequest
<1> QED  BY <1>1, <1>2 DEF SessionLimit

\* Where a request that is about to insert a session comes from.
LEMMA RoomIsMade ==
    ASSUME SessionsTypeInv, SessionLimit, NEW s \in Slots,
           \/ GoesOn(s) \/ CountsStep(s) \/ InsertSession(s) \/ Marks(s)
           \/ RevokeSessions(s) \/ Deactivate(s),
           sreq'[s].phase = "insert"
    PROVE  /\ session' = session /\ sreq'[s].operator = sreq[s].operator
           /\ sreq[s].operator \in Operators
           /\ \/ CountSessions(s) /\ Cardinality(LiveOf(sreq[s].operator)) < MAX_CONCURRENT_SESSIONS
              \/ ReadOldest(s) /\ sreq'[s].token = IF LiveOf(sreq[s].operator) = {} THEN None
                                                   ELSE Min(LiveOf(sreq[s].operator))
<1>1. ~End(s)
  BY EndFields, NoRequestFields
<1>2. \A phase : Goto(s, phase) => phase = "insert"
  BY GotoFields
<1>3. \A phase, token :
         sreq' = [sreq EXCEPT ![s].phase = phase, ![s].token = token] => phase = "insert"
  BY DEF SessionsTypeInv, SRequestsOK, Request
<1>4. \A phase, password :
         sreq' = [sreq EXCEPT ![s].phase = phase, ![s].password = password] => phase = "insert"
  BY DEF SessionsTypeInv, SRequestsOK, Request
<1>5. CountSessions(s) \/ ReadOldest(s)
  <2>1. ~CodeRefused(s) /\ ~RememberDevice(s) /\ ~Die(s) /\ ~WrongPassword(s) /\ ~Deactivate(s)
    BY <1>1 DEF CodeRefused, RememberDevice, Die, WrongPassword, Deactivate
  <2>2. ~ClearLapsedLock(s) /\ ~RightPassword(s) /\ ~RevokeDevices(s) /\ ~RevokeSessions(s)
    BY <1>1, <1>2 DEF ClearLapsedLock, RightPassword, RevokeDevices, RevokeSessions
  <2>3. ~Marks(s)
    BY <1>1, <1>2 DEF Marks, MfaLockSession, CodeAccepted
  <2>4. ~InsertSession(s)
    BY <1>1, <1>3 DEF InsertSession
  <2>5. ~SetPassword(s)
    BY <1>4 DEF SetPassword
  <2> QED  BY <2>1, <2>2, <2>3, <2>4, <2>5 DEF GoesOn, CountsStep
<1>6. sreq[s].operator \in Operators
  BY <1>5 DEF CountSessions, ReadOldest, SessionsTypeInv, SRequestsOK, Informed
<1>7. CASE CountSessions(s)
  <2>1. Cardinality(LiveOf(sreq[s].operator)) < MAX_CONCURRENT_SESSIONS
    <3>1. ~(Cardinality(LiveOf(sreq[s].operator)) >= MAX_CONCURRENT_SESSIONS)
      BY <1>2, <1>7 DEF CountSessions
    <3> QED  BY <3>1, LiveIsFinite
  <2>2. session' = session /\ sreq'[s].operator = sreq[s].operator
    BY <1>7, GotoFields DEF CountSessions
  <2> QED  BY <1>6, <1>7, <2>1, <2>2
<1>8. CASE ReadOldest(s)
  <2> DEFINE token == IF LiveOf(sreq[s].operator) = {} THEN None ELSE Min(LiveOf(sreq[s].operator))
  <2>1. sreq' = [sreq EXCEPT ![s].phase = "insert", ![s].token = token] /\ session' = session
    BY <1>8 DEF ReadOldest
  <2> HIDE DEF token
  <2>2. sreq'[s].operator = sreq[s].operator /\ sreq'[s].token = token
    BY <2>1 DEF SessionsTypeInv, SRequestsOK, Request
  <2> QED  BY <1>6, <1>8, <2>1, <2>2 DEF token
<1> QED  BY <1>5, <1>7, <1>8

LEMMA StepRoom ==
    ASSUME OneRequestEach, SessionsTypeInv, SessionLimit, RoomInv, SessionsNext
    PROVE  RoomInv'
<1> SUFFICES ASSUME NEW u \in Slots, sreq'[u].phase = "insert",
                    NEW o, o = sreq'[u].operator, NEW token, token = sreq'[u].token
             PROVE  Cardinality(LiveOf(o)' \ {token}) < MAX_CONCURRENT_SESSIONS
  BY DEF RoomInv, LiveOf, Live
<1>1. ASSUME o \in Operators, LiveOf(o)' \subseteq LiveOf(o),
             Cardinality(LiveOf(o) \ {token}) < MAX_CONCURRENT_SESSIONS
      PROVE  Cardinality(LiveOf(o)' \ {token}) < MAX_CONCURRENT_SESSIONS
  <2>1. LiveOf(o)' \ {token} \subseteq LiveOf(o) \ {token}
    BY <1>1
  <2>2. IsFiniteSet(LiveOf(o) \ {token})
    BY LiveIsFinite, FewerLive
  <2>3. /\ Cardinality(LiveOf(o)' \ {token}) <= Cardinality(LiveOf(o) \ {token})
        /\ Cardinality(LiveOf(o)' \ {token}) \in Nat /\ Cardinality(LiveOf(o) \ {token}) \in Nat
    BY <2>1, <2>2, FewerLive
  <2> QED  BY <1>1, <2>3
<1>2. ASSUME sreq'[u] = sreq[u]
      PROVE  o \in Operators /\ Cardinality(LiveOf(o) \ {token}) < MAX_CONCURRENT_SESSIONS
  BY <1>2 DEF RoomInv, SessionsTypeInv, SRequestsOK, Informed
\* Another request: its session is one of another operator.
<1>3. ASSUME NEW s \in Slots \ {u},
             \/ BeginsStep(s) \/ GoesOn(s) \/ CountsStep(s) \/ InsertSession(s) \/ Marks(s)
             \/ RevokeSessions(s) \/ Deactivate(s)
      PROVE  Cardinality(LiveOf(o)' \ {token}) < MAX_CONCURRENT_SESSIONS
  <2>1. sreq'[u] = sreq[u]
    BY <1>3, OtherRequests
  <2>2. LiveOf(o)' \subseteq LiveOf(o)
    <3>1. CASE InsertSession(s)
      <4> DEFINE p == sreq[s].operator
                 new == Min(FreeTokens)
      <4>1. o # p
        BY <2>1, <3>1, OtherOperators
      <4>2. /\ session'[new].operator = p
            /\ \A t \in Tokens \ {new} :
                  /\ session'[t].status = "revoked" \/ session'[t].status = session[t].status
                  /\ session'[t].operator = session[t].operator
        BY <3>1, InsertRows
      <4> HIDE DEF p, new
      <4> QED  BY <4>1, <4>2 DEF LiveOf, Live
    <3>2. CASE ~InsertSession(s)
      BY <1>2, <1>3, <2>1, <3>2, SessionsOnlyEnd, LiveShrinks
    <3> QED  BY <3>1, <3>2
  <2> QED  BY <1>1, <1>2, <2>1, <2>2
<1>4. ~BeginsStep(u)
  BY BeginsInformed, BeginFields DEF ReadsAccount
<1>5. ASSUME NEW s \in Slots, s = u,
             \/ GoesOn(s) \/ CountsStep(s) \/ InsertSession(s) \/ Marks(s)
             \/ RevokeSessions(s) \/ Deactivate(s)
      PROVE  Cardinality(LiveOf(o)' \ {token}) < MAX_CONCURRENT_SESSIONS
  <2>1. /\ session' = session /\ o \in Operators
        /\ \/ Cardinality(LiveOf(o)) < MAX_CONCURRENT_SESSIONS
           \/ token = IF LiveOf(o) = {} THEN None ELSE Min(LiveOf(o))
    BY <1>5, RoomIsMade
  <2>2. LiveOf(o)' = LiveOf(o)
    BY <2>1 DEF LiveOf, Live
  <2>3. /\ IsFiniteSet(LiveOf(o)) /\ Cardinality(LiveOf(o)) \in Nat
        /\ Cardinality(LiveOf(o)) <= MAX_CONCURRENT_SESSIONS
    BY <2>1, LiveIsFinite DEF SessionLimit
  <2>4. CASE Cardinality(LiveOf(o)) < MAX_CONCURRENT_SESSIONS
    <3>1. Cardinality(LiveOf(o) \ {token}) <= Cardinality(LiveOf(o))
          /\ Cardinality(LiveOf(o) \ {token}) \in Nat
      BY <2>3, FewerLive
    <3> QED  BY <2>2, <2>3, <2>4, <3>1
  <2>5. CASE LiveOf(o) = {}
    <3>1. LiveOf(o) \ {token} = {}
      BY <2>5
    <3> QED  BY <2>2, <3>1, FS_EmptySet
  <2>6. CASE LiveOf(o) # {} /\ token = Min(LiveOf(o))
    <3>1. token \in LiveOf(o)
      BY <2>6, OldestIsLive
    <3>2. Cardinality(LiveOf(o) \ {token}) = Cardinality(LiveOf(o)) - 1
      BY <2>3, <3>1, FS_RemoveElement
    <3> QED  BY <2>2, <2>3, <3>2
  <2> QED  BY <2>1, <2>4, <2>5, <2>6
<1>6. ASSUME Aside
      PROVE  Cardinality(LiveOf(o)' \ {token}) < MAX_CONCURRENT_SESSIONS
  <2>1. sreq' = sreq
    BY <1>6 DEF Aside, Logout, ForgetDevices, Reactivate, Unlock, Elapse
  <2>2. LiveOf(o)' \subseteq LiveOf(o)
    BY <1>2, <1>6, <2>1, SessionsOnlyEnd, LiveShrinks
  <2> QED  BY <1>1, <1>2, <2>1, <2>2
<1> QED  BY <1>3, <1>4, <1>5, <1>6, SessionsNextSplit, Zenon

LEMMA StepLimit ==
    ASSUME SessionsTypeInv, SessionLimit, RoomInv, SessionsNext
    PROVE  SessionLimit'
<1> SUFFICES ASSUME NEW o \in Operators
             PROVE  Cardinality(LiveOf(o)') <= MAX_CONCURRENT_SESSIONS
  BY DEF SessionLimit, LiveOf, Live
<1>1. /\ IsFiniteSet(LiveOf(o)) /\ Cardinality(LiveOf(o)) \in Nat
      /\ Cardinality(LiveOf(o)) <= MAX_CONCURRENT_SESSIONS
  BY LiveIsFinite DEF SessionLimit
<1>2. ASSUME LiveOf(o)' \subseteq LiveOf(o)
      PROVE  Cardinality(LiveOf(o)') <= MAX_CONCURRENT_SESSIONS
  <2>1. Cardinality(LiveOf(o)') <= Cardinality(LiveOf(o)) /\ Cardinality(LiveOf(o)') \in Nat
    BY <1>1, <1>2, FewerLive
  <2> QED  BY <1>1, <2>1
<1>3. ASSUME \/ Aside
             \/ \E s \in Slots : \/ BeginsStep(s) \/ GoesOn(s) \/ CountsStep(s) \/ Marks(s)
                                 \/ RevokeSessions(s) \/ Deactivate(s)
      PROVE  LiveOf(o)' \subseteq LiveOf(o)
  BY <1>3, SessionsOnlyEnd, LiveShrinks
<1>4. ASSUME NEW s \in Slots, InsertSession(s)
      PROVE  Cardinality(LiveOf(o)') <= MAX_CONCURRENT_SESSIONS
  <2> DEFINE p == sreq[s].operator
             new == Min(FreeTokens)
             token == sreq[s].token
             kept == LiveOf(p) \ {token}
  <2>1. /\ new \in Tokens /\ session'[new].operator = p
        /\ \A t \in Tokens \ {new} :
              /\ t = token => session'[t].status = "revoked"
              /\ t # token => session'[t].status = session[t].status
              /\ session'[t].operator = session[t].operator
    BY <1>4, InsertRows
  <2>2. Cardinality(kept) < MAX_CONCURRENT_SESSIONS
    BY <1>4 DEF RoomInv, InsertSession
  <2> HIDE DEF p, new, token, kept
  <2>3. CASE o = p
    <3>1. LiveOf(o)' \subseteq kept \cup {new}
      BY <2>1, <2>3 DEF LiveOf, Live, kept
    <3>2. IsFiniteSet(kept) /\ Cardinality(kept) \in Nat
      BY LiveIsFinite, FewerLive DEF kept
    <3>3. /\ IsFiniteSet(kept \cup {new})
          /\ Cardinality(kept \cup {new}) \in {Cardinality(kept), Cardinality(kept) + 1}
      BY <3>2, FS_AddElement
    <3>4. /\ Cardinality(LiveOf(o)') <= Cardinality(kept \cup {new})
          /\ Cardinality(LiveOf(o)') \in Nat
      BY <3>1, <3>3, FewerLive
    <3> QED  BY <2>2, <3>2, <3>3, <3>4
  <2>4. CASE o # p
    <3>1. LiveOf(o)' \subseteq LiveOf(o)
      BY <2>1, <2>4 DEF LiveOf, Live
    <3> QED  BY <1>2, <3>1
  <2> QED  BY <2>3, <2>4
<1> QED  BY <1>2, <1>3, <1>4, SessionsNextSplit, Zenon

\* While the requests about one operator do not overlap, nobody holds more live sessions
\* than the limit: create_session counts, and its eviction makes the room it then uses,
\* whatever sign-ins of others do in between.
THEOREM SessionLimitCorrect == SessionsSpec /\ []OneRequestEach => []SessionLimit
<1>1. OneRequestEach /\ SessionsTypeInv /\ SessionLimit /\ RoomInv /\ [SessionsNext]_sessionVars
         => SessionLimit' /\ RoomInv'
  <2>1. ASSUME UNCHANGED sessionVars, SessionLimit, RoomInv  PROVE SessionLimit' /\ RoomInv'
    BY <2>1 DEF sessionVars, SessionLimit, RoomInv, LiveOf, Live
  <2> QED  BY <2>1, StepLimit, StepRoom
<1> QED  BY <1>1, SessionsInitTypes, SessionsStepTypes, SessionsInitLimit, PTL DEF SessionsSpec

-------------------------------------------------------------------------------
\* The accounts' counters and passwords as requests move them

LEMMA ClearedFields ==
    ASSUME SessionsTypeInv, NEW o \in Operators, Cleared(o)
    PROVE  /\ \A p \in Operators : account'[p].password = account[p].password
           /\ \A p \in Operators \ {o} :
                 account'[p].failed = account[p].failed /\ misses'[p] = misses[p]
           /\ account'[o].failed = 0 /\ misses'[o] = 0
<1>1. account[o] \in Account /\ account \in [Operators -> Account]
  BY DEF SessionsTypeInv, AccountsOK
<1>2. /\ account' = [account EXCEPT ![o] = Unlocked(account[o])]
      /\ misses' = [misses EXCEPT ![o] = 0]
  BY DEF Cleared
<1>3. Unlocked(account[o]).failed = 0 /\ Unlocked(account[o]).password = account[o].password
  BY <1>1, ClearedRow
<1>4. misses \in [Operators -> 0..MAX_FAILED_LOGINS]
  BY DEF SessionsTypeInv, HistoriesOK
<1> QED  BY <1>1, <1>2, <1>3, <1>4

LEMMA WrongFields ==
    ASSUME SessionsTypeInv, NEW s \in Slots, WrongPassword(s)
    PROVE  LET o == sreq[s].operator
           IN  /\ o \in Operators
               /\ \A p \in Operators : account'[p].password = account[p].password
               /\ \A p \in Operators \ {o} :
                     account'[p].failed = account[p].failed /\ misses'[p] = misses[p]
               /\ account'[o].failed = sreq[s].failed + 1
               /\ misses'[o] <= misses[o] + 1
<1> DEFINE o == sreq[s].operator
           n == sreq[s].failed + 1
           m == Min({misses[o] + 1, MAX_FAILED_LOGINS})
<1>1. PICK lock \in {"none", "future", "past"} :
         account' = [account EXCEPT ![o].failed = n, ![o].lock = lock]
  BY WrongRow
<1>2. o \in Operators /\ n \in 0..MAX_FAILED_LOGINS /\ misses' = [misses EXCEPT ![o] = m]
  BY WrongRow
<1> HIDE DEF o, n
<1>3. misses[o] \in 0..MAX_FAILED_LOGINS /\ misses \in [Operators -> 0..MAX_FAILED_LOGINS]
  BY <1>2 DEF SessionsTypeInv, HistoriesOK
<1>4. m <= misses[o] + 1
  BY <1>3, MissedOnce
<1> HIDE DEF m
<1>5. misses'[o] <= misses[o] + 1 /\ \A p \in Operators \ {o} : misses'[p] = misses[p]
  BY <1>2, <1>3, <1>4
<1>6. /\ \A p \in Operators : account'[p].password = account[p].password
      /\ \A p \in Operators \ {o} : account'[p].failed = account[p].failed
      /\ account'[o].failed = n
  BY <1>1, <1>2 DEF SessionsTypeInv, AccountsOK, Account
<1> QED  BY <1>2, <1>5, <1>6 DEF o, n

LEMMA SetPasswordFields ==
    ASSUME SessionsTypeInv, NEW s \in Slots, SetPassword(s)
    PROVE  LET o == sreq[s].operator
           IN  /\ o \in Operators /\ sreq'[s].phase = "revoke"
               /\ sreq'[s].operator = o /\ sreq'[s].password = account'[o].password
               /\ \A p \in Operators \ {o} : account'[p] = account[p] /\ misses'[p] = misses[p]
               /\ misses'[o] = 0
<1> DEFINE o == sreq[s].operator
           n == account[o].password + 1
           cleared == Unlocked(account[o])
<1>1. o \in Operators
  BY DEF SessionsTypeInv, SRequestsOK, Informed, SetPassword
<1>2. account \in [Operators -> Account] /\ misses \in [Operators -> 0..MAX_FAILED_LOGINS]
  BY DEF SessionsTypeInv, AccountsOK, HistoriesOK
<1>3. cleared \in Account
  BY <1>1, <1>2, ClearedRow
<1>4. account' = [account EXCEPT ![o] = [cleared EXCEPT !.password = n]]
  BY DEF SetPassword
<1>5. sreq' = [sreq EXCEPT ![s].phase = "revoke", ![s].password = n]
      /\ misses' = [misses EXCEPT ![o] = 0]
  BY DEF SetPassword
<1> HIDE DEF cleared, n
<1>6. account'[o].password = n /\ \A p \in Operators \ {o} : account'[p] = account[p]
  BY <1>1, <1>2, <1>3, <1>4 DEF Account
<1>7. sreq'[s].phase = "revoke" /\ sreq'[s].operator = o /\ sreq'[s].password = n
  BY <1>5 DEF SessionsTypeInv, SRequestsOK, Request
<1>8. misses'[o] = 0 /\ \A p \in Operators \ {o} : misses'[p] = misses[p]
  BY <1>1, <1>2, <1>5
<1> QED  BY <1>1, <1>6, <1>7, <1>8

\* Only set_password moves a password.
LEMMA PasswordsKept ==
    ASSUME SessionsTypeInv, SessionsNext
    PROVE  \/ \A o \in Operators : account'[o].password = account[o].password
           \/ \E s \in Slots : SetPassword(s)
<1>1. ASSUME AccountsAlike
      PROVE  \A o \in Operators : account'[o].password = account[o].password
  BY <1>1 DEF AccountsAlike
<1>2. ASSUME NEW o \in Operators, Cleared(o)
      PROVE  \A p \in Operators : account'[p].password = account[p].password
  BY <1>2, ClearedFields
<1>3. ASSUME NEW s \in Slots, CountsStep(s)
      PROVE  \/ \A p \in Operators : account'[p].password = account[p].password
             \/ SetPassword(s)
  <2>1. CASE ClearLapsedLock(s) \/ RightPassword(s)
    <3>1. sreq[s].operator \in Operators /\ Cleared(sreq[s].operator)
      BY <2>1 DEF ClearLapsedLock, RightPassword, SessionsTypeInv, SRequestsOK, Informed
    <3> QED  BY <3>1, ClearedFields
  <2>2. CASE WrongPassword(s)
    BY <2>2, WrongFields
  <2> QED  BY <1>3, <2>1, <2>2 DEF CountsStep
<1> QED  BY <1>1, <1>2, <1>3, BeginsAlike, OthersAlike, AsideAccounts, SessionsNextSplit, Zenon

-------------------------------------------------------------------------------
\* The end of the sessions of an old password

Knowing == {"lapsed", "answer", "count", "oldest", "insert", "revoke", "forget"}

\* From login to the new session, and from set_password on, a request holds the
\* password in force.
KnowsInv ==
    \A s \in Slots :
        sreq[s].phase \in Knowing => sreq[s].password = account[sreq[s].operator].password

LEMMA KnowsOn ==
    ASSUME SessionsTypeInv, NEW s \in Slots,
           \/ GoesOn(s) \/ CountsStep(s) \/ InsertSession(s) \/ Marks(s)
           \/ RevokeSessions(s) \/ Deactivate(s),
           sreq'[s].phase \in Knowing
    PROVE  \/ SetPassword(s)
           \/ /\ sreq[s].phase \in Knowing
              /\ sreq'[s].operator = sreq[s].operator /\ sreq'[s].password = sreq[s].password
<1>1. ~End(s)
  BY EndFields, NoRequestFields DEF Knowing
<1>2. ASSUME NEW phase, Goto(s, phase)
      PROVE  /\ phase \in Knowing /\ sreq'[s].operator = sreq[s].operator
             /\ sreq'[s].password = sreq[s].password
  BY <1>2, GotoFields
<1>3. ASSUME NEW phase, NEW token, sreq' = [sreq EXCEPT ![s].phase = phase, ![s].token = token]
      PROVE  /\ phase \in Knowing /\ sreq'[s].operator = sreq[s].operator
             /\ sreq'[s].password = sreq[s].password
  BY <1>3 DEF SessionsTypeInv, SRequestsOK, Request
<1>4. CASE GoesOn(s)
  <2>1. ~CodeRefused(s) /\ ~RememberDevice(s) /\ ~Die(s)
    BY <1>1 DEF CodeRefused, RememberDevice, Die
  <2>2. CASE CountSessions(s) \/ RevokeDevices(s)
    BY <1>1, <1>2, <2>2 DEF CountSessions, RevokeDevices, Knowing
  <2>3. CASE ReadOldest(s)
    BY <1>3, <2>3 DEF ReadOldest, Knowing
  <2> QED  BY <1>4, <2>1, <2>2, <2>3 DEF GoesOn
<1>5. CASE CountsStep(s)
  <2>1. ~WrongPassword(s)
    BY <1>1 DEF WrongPassword
  <2>2. CASE ClearLapsedLock(s) \/ RightPassword(s)
    BY <1>1, <1>2, <2>2 DEF ClearLapsedLock, RightPassword, Knowing
  <2> QED  BY <1>5, <2>1, <2>2 DEF CountsStep
<1>6. CASE RevokeSessions(s)
  BY <1>2, <1>6 DEF RevokeSessions, Knowing
<1>7. ~Deactivate(s)
  BY <1>1 DEF Deactivate
<1>8. ~Marks(s)
  BY <1>1, <1>2 DEF Marks, MfaLockSession, CodeAccepted, Knowing
<1>9. ~InsertSession(s)
  BY <1>1, <1>3 DEF InsertSession, Knowing
<1> QED  BY <1>4, <1>5, <1>6, <1>7, <1>8, <1>9

LEMMA StepKnows ==
    ASSUME OneRequestEach, SessionsTypeInv, KnowsInv, SessionsNext
    PROVE  KnowsInv'
<1> SUFFICES ASSUME NEW u \in Slots, sreq'[u].phase \in Knowing
             PROVE  sreq'[u].password = account'[sreq'[u].operator].password
  BY DEF KnowsInv
<1>1. ASSUME \A o \in Operators : account'[o].password = account[o].password,
             sreq[u].phase \in Knowing,
             sreq'[u].operator = sreq[u].operator, sreq'[u].password = sreq[u].password
      PROVE  sreq'[u].password = account'[sreq'[u].operator].password
  BY <1>1 DEF KnowsInv, Knowing, SessionsTypeInv, SRequestsOK, Informed
<1>2. ASSUME NEW s \in Slots, SetPassword(s)
      PROVE  sreq'[u].password = account'[sreq'[u].operator].password
  <2>1. CASE u = s
    BY <1>2, <2>1, SetPasswordFields
  <2>2. CASE u # s
    <3>1. sreq'[u] = sreq[u] /\ sreq[u].phase # "idle"
      BY <1>2, <2>2, OtherRequests DEF CountsStep, Knowing
    <3>2. sreq[u].operator # sreq[s].operator /\ sreq[u].operator \in Operators
      BY <1>2, <2>2, <3>1, OtherOperators DEF CountsStep, SessionsTypeInv, SRequestsOK, Informed
    <3>3. account'[sreq[u].operator] = account[sreq[u].operator]
      BY <1>2, <3>2, SetPasswordFields
    <3> QED  BY <3>1, <3>3 DEF KnowsInv
  <2> QED  BY <2>1, <2>2
<1>3. ASSUME sreq'[u] = sreq[u]
      PROVE  sreq'[u].password = account'[sreq'[u].operator].password
  BY <1>1, <1>2, <1>3, PasswordsKept
<1>4. ASSUME NEW s \in Slots, BeginsStep(s)
      PROVE  sreq'[u].password = account'[sreq'[u].operator].password
  <2>1. PICK q : Begins(s, q) /\ ReadsAccount(q)
    BY <1>4, BeginsInformed
  <2>2. CASE u = s
    <3>1. sreq'[u] = q
      BY <2>1, <2>2, BeginFields
    <3>2. q.operator \in Operators /\ q.password = account[q.operator].password
      BY <2>1, <3>1 DEF Begins, Informed, ReadsAccount, Knowing
    <3> QED  BY <1>4, <3>1, <3>2, BeginsAlike DEF AccountsAlike
  <2>3. CASE u # s
    BY <1>3, <1>4, <2>3, OtherRequests
  <2> QED  BY <2>2, <2>3
<1>5. ASSUME NEW s \in Slots,
             \/ GoesOn(s) \/ CountsStep(s) \/ InsertSession(s) \/ Marks(s)
             \/ RevokeSessions(s) \/ Deactivate(s)
      PROVE  sreq'[u].password = account'[sreq'[u].operator].password
  <2>1. CASE u = s
    BY <1>1, <1>2, <1>5, <2>1, KnowsOn, PasswordsKept
  <2>2. CASE u # s
    BY <1>3, <1>5, <2>2, OtherRequests
  <2> QED  BY <2>1, <2>2
<1>6. ASSUME Aside  PROVE sreq'[u].password = account'[sreq'[u].operator].password
  <2>1. sreq' = sreq
    BY <1>6 DEF Aside, Logout, ForgetDevices, Reactivate, Unlock, Elapse
  <2> QED  BY <1>3, <2>1
<1> QED  BY <1>4, <1>5, <1>6, SessionsNextSplit, Zenon

\* A step that leaves the passwords, ends sessions at most and keeps the request's
\* change under way, or records that it died, accounts for every outdated session.
LEMMA OutdatedKept ==
    ASSUME SessionsTypeInv, PasswordEndsSessions, SessionsEnd, torn \subseteq torn',
           \A o \in Operators : account'[o].password = account[o].password,
           \A s \in Slots : sreq[s].phase = "revoke"
               => \/ sreq'[s].phase = "revoke" /\ sreq'[s].operator = sreq[s].operator
                  \/ sreq[s].operator \in torn'
                  \/ \A t \in LiveOf(sreq[s].operator) : session'[t].status = "revoked"
    PROVE  PasswordEndsSessions'
<1> SUFFICES ASSUME NEW t \in Tokens, session'[t].status \in {"live", "idle"},
                    session'[t].password # account'[session'[t].operator].password
             PROVE  \/ session'[t].operator \in torn'
                    \/ \E s \in Slots : /\ sreq'[s].phase = "revoke"
                                         /\ sreq'[s].operator = session'[t].operator
  BY DEF PasswordEndsSessions, Live
<1>1. /\ Live(t) /\ session'[t].operator = session[t].operator
      /\ session'[t].password = session[t].password
  BY DEF SessionsEnd
<1>2. session[t].operator \in Operators
  BY <1>1 DEF SessionsTypeInv, SessionRowsOK
<1>3. Live(t) /\ session[t].password # account[session[t].operator].password
  BY <1>1, <1>2
<1>4. CASE session[t].operator \in torn
  BY <1>1, <1>4
<1>5. ASSUME NEW s \in Slots, sreq[s].phase = "revoke", sreq[s].operator = session[t].operator
      PROVE  \/ session'[t].operator \in torn'
             \/ \E u \in Slots : /\ sreq'[u].phase = "revoke"
                                  /\ sreq'[u].operator = session'[t].operator
  <2>1. t \in LiveOf(sreq[s].operator)
    BY <1>3, <1>5 DEF LiveOf
  <2>2. session'[t].status # "revoked"
    OBVIOUS
  <2> QED  BY <1>1, <1>5, <2>1, <2>2
<1> QED  BY <1>3, <1>4, <1>5 DEF PasswordEndsSessions

LEMMA StepEnds ==
    ASSUME OneRequestEach, SessionsTypeInv, KnowsInv, PasswordEndsSessions, SessionsNext
    PROVE  PasswordEndsSessions'
<1>1. ASSUME NEW s \in Slots, SetPassword(s)
      PROVE  PasswordEndsSessions'
  <2> SUFFICES ASSUME NEW t \in Tokens, session'[t].status \in {"live", "idle"},
                      session'[t].password # account'[session'[t].operator].password
               PROVE  \/ session'[t].operator \in torn'
                      \/ \E u \in Slots : /\ sreq'[u].phase = "revoke"
                                           /\ sreq'[u].operator = session'[t].operator
    BY DEF PasswordEndsSessions, Live
  <2> DEFINE o == sreq[s].operator
  <2>1. session' = session /\ torn' = torn /\ sreq[s].phase = "password"
    BY <1>1 DEF SetPassword
  <2>2. session[t].operator \in Operators /\ Live(t)
    BY <2>1 DEF SessionsTypeInv, SessionRowsOK, Live
  <2>3. /\ o \in Operators /\ sreq'[s].phase = "revoke" /\ sreq'[s].operator = o
        /\ \A p \in Operators \ {o} : account'[p] = account[p]
    BY <1>1, SetPasswordFields
  <2> HIDE DEF o
  <2>4. CASE session[t].operator = o
    BY <2>1, <2>3, <2>4
  <2>5. CASE session[t].operator # o
    <3>1. session[t].password # account[session[t].operator].password
      BY <2>1, <2>2, <2>3, <2>5
    <3>2. \A u \in Slots : sreq[u].phase = "revoke" => sreq'[u] = sreq[u]
      BY <1>1, <2>1, OtherRequests DEF CountsStep
    <3> QED  BY <2>1, <2>2, <3>1, <3>2 DEF PasswordEndsSessions
  <2> QED  BY <2>4, <2>5
<1>2. ASSUME NEW s \in Slots, InsertSession(s)
      PROVE  PasswordEndsSessions'
  <2> SUFFICES ASSUME NEW t \in Tokens, session'[t].status \in {"live", "idle"},
                      session'[t].password # account'[session'[t].operator].password
               PROVE  \/ session'[t].operator \in torn'
                      \/ \E u \in Slots : /\ sreq'[u].phase = "revoke"
                                           /\ sreq'[u].operator = session'[t].operator
    BY DEF PasswordEndsSessions, Live
  <2> DEFINE o == sreq[s].operator
             new == Min(FreeTokens)
  <2>1. account' = account /\ torn' = torn /\ sreq[s].phase = "insert"
    BY <1>2 DEF InsertSession
  <2>2. /\ session'[new].operator = o /\ session'[new].password = sreq[s].password
        /\ \A u \in Tokens \ {new} :
              /\ session'[u].status = "revoked" \/ session'[u].status = session[u].status
              /\ session'[u].operator = session[u].operator
              /\ session'[u].password = session[u].password
    BY <1>2, InsertRows
  <2>3. sreq[s].password = account[o].password
    BY <2>1 DEF KnowsInv, Knowing
  <2> HIDE DEF o, new
  <2>4. t # new
    BY <2>1, <2>2, <2>3
  <2>5. Live(t) /\ session[t].password # account[session[t].operator].password
    BY <2>1, <2>2, <2>4 DEF Live
  <2>6. \A u \in Slots : sreq[u].phase = "revoke" => sreq'[u] = sreq[u]
    BY <1>2, <2>1, OtherRequests
  <2>7. session'[t].operator = session[t].operator
    BY <2>2, <2>4
  <2> QED  BY <2>1, <2>5, <2>6, <2>7 DEF PasswordEndsSessions
<1>3. ASSUME NEW s \in Slots, ~SetPassword(s), sreq[s].phase # "revoke",
             \/ BeginsStep(s) \/ GoesOn(s) \/ CountsStep(s) \/ Marks(s)
             \/ RevokeSessions(s) \/ Deactivate(s)
      PROVE  PasswordEndsSessions'
  <2>1. SessionsEnd
    BY <1>3, SessionsOnlyEnd
  <2>2. CASE \E u \in Slots : SetPassword(u)
    BY <1>1, <2>2
  <2>3. \A u \in Slots : sreq[u].phase = "revoke" => sreq'[u] = sreq[u]
    BY <1>3, OtherRequests
  <2>4. torn \subseteq torn'
    <3>1. CASE BeginsStep(s)
      BY <3>1, BeginsIs
    <3>2. CASE ~BeginsStep(s)
      BY <1>3, <3>2 DEF GoesOn, CountSessions, ReadOldest, CodeRefused, RememberDevice, RevokeDevices,
         Die, CountsStep, ClearLapsedLock, WrongPassword, RightPassword, SetPassword, Marks,
         MfaLockSession, CodeAccepted, RevokeSessions, Deactivate
    <3> QED  BY <3>1, <3>2
  <2>5. CASE \A o \in Operators : account'[o].password = account[o].password
    BY <2>1, <2>3, <2>4, <2>5, OutdatedKept
  <2> QED  BY <2>2, <2>5, PasswordsKept
<1>4. ASSUME NEW s \in Slots, sreq[s].phase = "revoke",
             \/ BeginsStep(s) \/ GoesOn(s) \/ CountsStep(s) \/ Marks(s)
             \/ RevokeSessions(s) \/ Deactivate(s)
      PROVE  PasswordEndsSessions'
  <2>1. ~BeginsStep(s)
    BY <1>4, BeginsIs
  <2>2. Die(s) \/ RevokeSessions(s)
    BY <1>4, <2>1 DEF GoesOn, CountSessions, ReadOldest, CodeRefused, RememberDevice, RevokeDevices,
       CountsStep, ClearLapsedLock, WrongPassword, RightPassword, SetPassword, Marks,
       MfaLockSession, CodeAccepted, Deactivate
  <2>3. SessionsEnd
    BY <2>2, SessionsOnlyEnd DEF GoesOn
  <2>4. account' = account
    BY <2>2 DEF Die, RevokeSessions
  <2>5. torn \subseteq torn'
    BY <2>2 DEF Die, RevokeSessions
  <2>6. \/ sreq[s].operator \in torn'
        \/ \A t \in LiveOf(sreq[s].operator) : session'[t].status = "revoked"
    <3>1. CASE Die(s)
      BY <1>4, <3>1 DEF Die
    <3>2. CASE RevokeSessions(s)
      BY <3>2 DEF RevokeSessions, Revoked, LiveOf, SessionsTypeInv, SessionRowsOK, Session
    <3> QED  BY <2>2, <3>1, <3>2
  <2>7. \A u \in Slots \ {s} : sreq'[u] = sreq[u]
    BY <1>4, OtherRequests
  <2> QED  BY <2>3, <2>4, <2>5, <2>6, <2>7, OutdatedKept
<1>5. ASSUME Aside  PROVE PasswordEndsSessions'
  <2>1. sreq' = sreq /\ torn' = torn
    BY <1>5 DEF Aside, Logout, ForgetDevices, Reactivate, Unlock, Elapse
  <2>2. SessionsEnd
    BY <1>5, SessionsOnlyEnd
  <2>3. CASE \E s \in Slots : SetPassword(s)
    BY <1>1, <2>3
  <2>4. CASE \A o \in Operators : account'[o].password = account[o].password
    BY <2>1, <2>2, <2>4, OutdatedKept
  <2> QED  BY <2>3, <2>4, PasswordsKept
<1>6. ASSUME NEW s \in Slots,
             \/ BeginsStep(s) \/ GoesOn(s) \/ CountsStep(s) \/ InsertSession(s) \/ Marks(s)
             \/ RevokeSessions(s) \/ Deactivate(s)
      PROVE  PasswordEndsSessions'
  BY <1>1, <1>2, <1>3, <1>4, <1>6
<1> QED  BY <1>5, <1>6, SessionsNextSplit, Zenon

\* While the requests about one operator do not overlap, a live session was opened under
\* the password in force: set_password bumps it, revokes every session, and a worker that
\* died between the two commits is the only way a session outlives its password.
THEOREM PasswordEndsSessionsCorrect == SessionsSpec /\ []OneRequestEach => []PasswordEndsSessions
<1>1. SessionsInit => KnowsInv /\ PasswordEndsSessions
  BY DEF SessionsInit, KnowsInv, Knowing, PasswordEndsSessions, Live, NoSession, NoRequest
<1>2. OneRequestEach /\ SessionsTypeInv /\ KnowsInv /\ PasswordEndsSessions /\ [SessionsNext]_sessionVars
         => KnowsInv' /\ PasswordEndsSessions'
  <2>1. ASSUME UNCHANGED sessionVars, KnowsInv, PasswordEndsSessions
        PROVE  KnowsInv' /\ PasswordEndsSessions'
    BY <2>1 DEF sessionVars, KnowsInv, PasswordEndsSessions, Live
  <2> QED  BY <2>1, StepKnows, StepEnds
<1> QED  BY <1>1, <1>2, SessionsInitTypes, SessionsStepTypes, PTL DEF SessionsSpec

-------------------------------------------------------------------------------
\* The lock-out

\* The counter of an account, and what a login has read of it, is never behind the
\* wrong passwords there were.
MissesInv ==
    /\ \A o \in Operators : misses[o] <= account[o].failed
    /\ \A s \in Slots : sreq[s].phase = "answer" => misses[sreq[s].operator] <= sreq[s].failed

LEMMA StepMisses ==
    ASSUME OneRequestEach, SessionsTypeInv, MissesInv, SessionsNext
    PROVE  MissesInv'
<1>1. /\ misses \in [Operators -> 0..MAX_FAILED_LOGINS] /\ account \in [Operators -> Account]
      /\ \A s \in Slots : sreq[s].phase # "idle" => sreq[s].operator \in Operators
      /\ sreq \in [Slots -> Request]
  BY DEF SessionsTypeInv, HistoriesOK, AccountsOK, SRequestsOK, Informed
<1>2. ASSUME AccountsAlike, misses' = misses,
             \A u \in Slots : sreq'[u].phase = "answer"
                => misses[sreq'[u].operator] <= sreq'[u].failed
      PROVE  MissesInv'
  BY <1>2 DEF MissesInv, AccountsAlike
<1>3. ASSUME NEW o \in Operators, misses'[o] = 0, account'[o].failed \in Nat,
             \A p \in Operators \ {o} : account'[p].failed = account[p].failed /\ misses'[p] = misses[p],
             \A u \in Slots : sreq'[u].phase = "answer"
                => \/ sreq'[u] = sreq[u]
                   \/ sreq'[u].operator = o /\ sreq'[u].failed \in Nat
      PROVE  MissesInv'
  <2>1. \A p \in Operators : misses'[p] <= account'[p].failed
    BY <1>3 DEF MissesInv
  <2>2. ASSUME NEW u \in Slots, sreq'[u].phase = "answer"
        PROVE  misses'[sreq'[u].operator] <= sreq'[u].failed
    <3>1. CASE sreq'[u] = sreq[u]
      <4>1. sreq[u].operator \in Operators /\ sreq[u].failed \in Nat
        BY <1>1, <2>2, <3>1 DEF Request
      <4> QED  BY <1>3, <2>2, <3>1, <4>1 DEF MissesInv
    <3> QED  BY <1>3, <2>2, <3>1
  <2> QED  BY <2>1, <2>2 DEF MissesInv
<1>4. ASSUME NEW s \in Slots, BeginsStep(s)  PROVE MissesInv'
  <2>1. PICK q : Begins(s, q) /\ ReadsAccount(q)
    BY <1>4, BeginsInformed
  <2>2. sreq'[s] = q /\ \A u \in Slots \ {s} : sreq'[u] = sreq[u]
    BY <2>1, BeginFields
  <2>3. q.phase = "answer" => misses[q.operator] <= q.failed
    BY <2>1 DEF MissesInv, ReadsAccount, Begins, Informed
  <2>4. \A u \in Slots : sreq'[u].phase = "answer" => misses[sreq'[u].operator] <= sreq'[u].failed
    BY <2>2, <2>3 DEF MissesInv
  <2> QED  BY <1>2, <1>4, <2>4, BeginsIs, BeginsAlike
<1>5. ASSUME NEW s \in Slots,
             GoesOn(s) \/ InsertSession(s) \/ Marks(s) \/ RevokeSessions(s) \/ Deactivate(s)
      PROVE  MissesInv'
  <2>1. misses' = misses
    BY <1>5, Zenon DEF GoesOn, CountSessions, ReadOldest, CodeRefused, RememberDevice,
       RevokeDevices, Die, InsertSession, Marks, MfaLockSession, CodeAccepted, RevokeSessions,
       Deactivate
  <2>2. sreq'[s].phase # "answer"
    <3>1. End(s) => sreq'[s].phase # "answer"
      BY EndFields, NoRequestFields
    <3>2. \A phase : Goto(s, phase) => sreq'[s].phase = phase
      BY GotoFields
    <3>3. \A phase, token :
             sreq' = [sreq EXCEPT ![s].phase = phase, ![s].token = token] => sreq'[s].phase = phase
      BY <1>1 DEF Request
    <3> QED  BY <1>5, <3>1, <3>2, <3>3 DEF GoesOn, CountSessions, ReadOldest, CodeRefused,
                RememberDevice, RevokeDevices, Die, InsertSession, Marks, MfaLockSession,
                CodeAccepted, RevokeSessions, Deactivate
  <2>3. \A u \in Slots \ {s} : sreq'[u] = sreq[u]
    BY <1>5, OtherRequests
  <2>4. \A u \in Slots : sreq'[u].phase = "answer" => misses[sreq'[u].operator] <= sreq'[u].failed
    BY <2>2, <2>3 DEF MissesInv
  <2> QED  BY <1>2, <1>5, <2>1, <2>4, OthersAlike
<1>6. ASSUME NEW s \in Slots, RightPassword(s)  PROVE MissesInv'
  <2> DEFINE o == sreq[s].operator
  <2>1. o \in Operators /\ Cleared(o)
    BY <1>1, <1>6 DEF RightPassword
  <2>2. sreq'[s].phase # "answer" /\ \A u \in Slots \ {s} : sreq'[u] = sreq[u]
    BY <1>6, GotoFields DEF RightPassword
  <2> HIDE DEF o
  <2> QED  BY <1>3, <2>1, <2>2, ClearedFields
<1>7. ASSUME NEW s \in Slots, ClearLapsedLock(s)  PROVE MissesInv'
  <2> DEFINE o == sreq[s].operator
  <2>1. o \in Operators /\ Cleared(o) /\ sreq[s].failed \in Nat
    BY <1>1, <1>7 DEF ClearLapsedLock, Request
  <2>2. sreq'[s].phase = "answer" => sreq'[s].operator = o /\ sreq'[s].failed = sreq[s].failed
    BY <1>7, GotoFields, EndFields, NoRequestFields DEF ClearLapsedLock
  <2>3. \A u \in Slots \ {s} : sreq'[u] = sreq[u]
    BY <1>7, OtherRequests DEF CountsStep
  <2> HIDE DEF o
  <2> QED  BY <1>3, <2>1, <2>2, <2>3, ClearedFields
<1>8. ASSUME NEW s \in Slots, SetPassword(s)  PROVE MissesInv'
  <2> DEFINE o == sreq[s].operator
  <2>1. /\ o \in Operators /\ sreq'[s].phase = "revoke"
        /\ \A p \in Operators \ {o} : account'[p] = account[p] /\ misses'[p] = misses[p]
        /\ misses'[o] = 0
    BY <1>8, SetPasswordFields
  <2>2. account'[o].failed \in Nat
    BY <1>8, <2>1, SetPasswordOK DEF AccountsOK, Account
  <2>3. \A u \in Slots \ {s} : sreq'[u] = sreq[u]
    BY <1>8, OtherRequests DEF CountsStep
  <2> HIDE DEF o
  <2> QED  BY <1>3, <2>1, <2>2, <2>3
<1>9. ASSUME NEW s \in Slots, WrongPassword(s)  PROVE MissesInv'
  <2> DEFINE o == sreq[s].operator
  <2>1. /\ o \in Operators
        /\ \A p \in Operators \ {o} : account'[p].failed = account[p].failed /\ misses'[p] = misses[p]
        /\ account'[o].failed = sreq[s].failed + 1 /\ misses'[o] <= misses[o] + 1
    BY <1>9, WrongFields
  <2>2. misses[o] <= sreq[s].failed /\ misses[o] \in Nat /\ sreq[s].failed \in Nat
    BY <1>1, <1>9, <2>1 DEF MissesInv, WrongPassword, Request
  <2>3. misses'[o] \in 0..MAX_FAILED_LOGINS
    BY <1>9, <2>1, WrongPasswordOK
  <2>4. sreq'[s].phase # "answer" /\ \A u \in Slots \ {s} : sreq'[u] = sreq[u]
    BY <1>9, EndFields, NoRequestFields DEF WrongPassword
  <2>5. ASSUME NEW u \in Slots \ {s}, sreq[u].phase = "answer"
        PROVE  misses'[sreq[u].operator] <= sreq[u].failed
    <3>1. sreq[u].operator \in Operators \ {o}
      BY <1>1, <1>9, <2>5, OtherOperators DEF CountsStep
    <3> QED  BY <2>1, <2>5, <3>1 DEF MissesInv
  <2> HIDE DEF o
  <2>6. \A p \in Operators : misses'[p] <= account'[p].failed
    BY <2>1, <2>2, <2>3 DEF MissesInv
  <2> QED  BY <2>4, <2>5, <2>6 DEF MissesInv
<1>10. ASSUME Aside  PROVE MissesInv'
  <2>1. sreq' = sreq
    BY <1>10 DEF Aside, Logout, ForgetDevices, Reactivate, Unlock, Elapse
  <2>2. CASE AccountsAlike /\ misses' = misses
    BY <1>2, <2>1, <2>2 DEF MissesInv
  <2>3. ASSUME NEW o \in Operators, Cleared(o)  PROVE MissesInv'
    <3>1. /\ misses'[o] = 0 /\ account'[o].failed = 0
          /\ \A p \in Operators \ {o} : account'[p].failed = account[p].failed /\ misses'[p] = misses[p]
      BY <2>3, ClearedFields
    <3>2. \A u \in Slots : sreq[u].phase = "answer"
             => sreq[u].operator \in Operators /\ sreq[u].failed \in Nat
      BY <1>1 DEF Request
    <3> QED  BY <2>1, <3>1, <3>2 DEF MissesInv
  <2> QED  BY <1>10, <2>2, <2>3, AsideAccounts
<1>11. ASSUME NEW s \in Slots, CountsStep(s)  PROVE MissesInv'
  BY <1>6, <1>7, <1>8, <1>9, <1>11 DEF CountsStep
<1> QED  BY <1>4, <1>5, <1>10, <1>11, SessionsNextSplit, Zenon

\* While the requests about one operator do not overlap, MAX_FAILED_LOGINS wrong passwords
\* in a row leave a lock behind: no lapsed lock, unlock or change of password, and no
\* attempt on another account, lets login lose count.
THEOREM LocksOutCorrect == SessionsSpec /\ []OneRequestEach => []LocksOut
<1>1. SessionsInit => MissesInv
  BY DEF SessionsInit, MissesInv, NoRequest
<1>2. OneRequestEach /\ SessionsTypeInv /\ MissesInv /\ [SessionsNext]_sessionVars => MissesInv'
  <2>1. ASSUME UNCHANGED sessionVars, MissesInv  PROVE MissesInv'
    BY <2>1 DEF sessionVars, MissesInv
  <2> QED  BY <2>1, StepMisses
<1>3. SessionsTypeInv /\ MissesInv => LocksOut
  BY DEF SessionsTypeInv, AccountsOK, MissesInv, LocksOut, Account
<1> QED  BY <1>1, <1>2, <1>3, SessionsInitTypes, SessionsStepTypes, PTL DEF SessionsSpec

HIDE MlrosAssumption
HIDE LimitAssumption
HIDE NoneAssumption
USE LinksAssumption, MfaAssumption

-------------------------------------------------------------------------------
\* OneTimeTokens: the actions by what they touch, and types

\* What a request knows in each of its phases.
TokenInformed(q) ==
    /\ q.phase = "issue" => q.kind \in {"verify", "unlock"} /\ q.email \in Emails
    /\ q.phase = "claim" => q.link \in Links /\ q.email \in Emails
    /\ q.phase \in {"resolve", "bind", "recheck"} => q.email \in Emails
    /\ q.phase \in {"bind", "recheck"} => q.uuid \in Identities

TokenRequestsOK ==
    treq \in [Slots -> TokenRequest] /\ \A s \in Slots : TokenInformed(treq[s])

TokenRowsOK ==
    /\ owner \in [Emails -> {"absent", "unverified", "verified"}]
    /\ lockedOut \subseteq Emails /\ recent \subseteq Emails
    /\ identity \in [Emails -> Identities \cup {None}]
    /\ link \in [Links -> Link]
    /\ done \in [Links -> Nat]
    /\ admitted \subseteq Emails \X Identities

TokenTypeInv == TokenRowsOK /\ TokenRequestsOK

LEMMA NoTokenRequestOK == NoTokenRequest \in TokenRequest /\ TokenInformed(NoTokenRequest)
BY DEF NoTokenRequest, TokenRequest, TokenInformed

LEMMA TokenRequestUpdate ==
    ASSUME TokenRequestsOK, NEW s \in Slots, NEW q \in TokenRequest, TokenInformed(q),
           treq' = [treq EXCEPT ![s] = q]
    PROVE  TokenRequestsOK'
<1>1. treq' \in [Slots -> TokenRequest]
  BY DEF TokenRequestsOK
<1>2. ASSUME NEW t \in Slots  PROVE TokenInformed(treq[t])'
  <2>1. treq'[t] = IF t = s THEN q ELSE treq[t]
    BY DEF TokenRequestsOK
  <2>2. TokenInformed(treq'[t])
    BY <2>1 DEF TokenRequestsOK
  <2> QED  BY <2>2 DEF TokenInformed
<1> QED  BY <1>1, <1>2 DEF TokenRequestsOK

LEMMA TokenEndOK ==
    ASSUME TokenRequestsOK, NEW s \in Slots, TokenEnd(s)
    PROVE  TokenRequestsOK'
BY NoTokenRequestOK, TokenRequestUpdate DEF TokenEnd

\* A request changes its phase and keeps what it knows.
LEMMA TokenGotoOK ==
    ASSUME TokenRequestsOK, NEW s \in Slots,
           NEW phase \in {"resolve", "recheck"},
           treq' = [treq EXCEPT ![s].phase = phase],
           treq[s].email \in Emails, phase = "recheck" => treq[s].uuid \in Identities
    PROVE  TokenRequestsOK'
<1> DEFINE q == [treq[s] EXCEPT !.phase = phase]
<1>1. q \in TokenRequest /\ TokenInformed(q)
  BY DEF TokenRequestsOK, TokenRequest, TokenInformed
<1>2. treq' = [treq EXCEPT ![s] = q]
  BY DEF TokenRequestsOK
<1> HIDE DEF q
<1> QED  BY <1>1, <1>2, TokenRequestUpdate

\* The row the next token is inserted in.
FreeLinks == {i \in Links : link[i].status = "none"}

LEMMA NextLinkIsFree ==
    ASSUME FreeLinks # {}
    PROVE  Min(FreeLinks) \in Links /\ link[Min(FreeLinks)].status = "none"
<1>1. FreeLinks \in SUBSET Nat
  BY DEF FreeLinks, Links
<1>2. Min(FreeLinks) \in FreeLinks
  BY <1>1, MinIsMember
<1> QED  BY <1>2 DEF FreeLinks

LEMMA VoidedType ==
    ASSUME link \in [Links -> Link], NEW kind, NEW e
    PROVE  Voided(kind, e) \in [Links -> Link]
BY DEF Voided, Link

LEMMA TokensInitTypes == ASSUME TokensInit PROVE TokenTypeInv
<1>1. NoLink \in Link /\ [kind |-> "setup", email |-> None, status |-> "live"] \in Link
  BY DEF NoLink, Link, Kinds
<1>2. TokenRowsOK
  BY <1>1 DEF TokensInit, TokenRowsOK
<1>3. TokenRequestsOK
  BY NoTokenRequestOK DEF TokensInit, TokenRequestsOK
<1> QED  BY <1>2, <1>3 DEF TokenTypeInv

LEMMA RegisterTypes ==
    ASSUME TokenTypeInv, NEW s \in Slots, NEW e \in Emails,
           Register(s, e) \/ ResendVerification(s, e) \/ LockOut(s, e)
    PROVE  TokenTypeInv'
<1> DEFINE asks(kind) == [NoTokenRequest EXCEPT !.phase = "issue", !.kind = kind, !.email = e]
<1>1. \A kind \in {"verify", "unlock"} : asks(kind) \in TokenRequest /\ TokenInformed(asks(kind))
  BY DEF NoTokenRequest, TokenRequest, TokenInformed, Kinds
<1>2. \E kind \in {"verify", "unlock"} : treq' = [treq EXCEPT ![s] = asks(kind)]
  BY DEF Register, ResendVerification, LockOut, TokenStart
<1> HIDE DEF asks
<1>3. TokenRequestsOK'
  BY <1>1, <1>2, TokenRequestUpdate DEF TokenTypeInv
<1>4. TokenRowsOK'
  BY DEF TokenTypeInv, TokenRowsOK, Register, ResendVerification, LockOut
<1> QED  BY <1>3, <1>4 DEF TokenTypeInv

LEMMA RedeemTypes ==
    ASSUME TokenTypeInv, NEW s \in Slots, NEW i \in Links, NEW e \in Emails, RedeemRead(s, i, e)
    PROVE  TokenTypeInv'
<1> DEFINE q == [NoTokenRequest EXCEPT !.phase = "claim", !.kind = link[i].kind,
                                       !.link = i, !.email = e]
<1>1. q \in TokenRequest /\ TokenInformed(q)
  BY DEF TokenTypeInv, TokenRowsOK, Link, NoTokenRequest, TokenRequest, TokenInformed
<1>2. treq' = [treq EXCEPT ![s] = q]
  BY DEF RedeemRead, TokenStart
<1> HIDE DEF q
<1>3. TokenRequestsOK'
  BY <1>1, <1>2, TokenRequestUpdate DEF TokenTypeInv
<1>4. TokenRowsOK'
  BY DEF TokenTypeInv, TokenRowsOK, RedeemRead
<1> QED  BY <1>3, <1>4 DEF TokenTypeInv

LEMMA IssueTypes ==
    ASSUME TokenTypeInv, NEW s \in Slots, Issue(s)
    PROVE  TokenTypeInv'
<1>1. treq[s].kind \in Kinds /\ treq[s].email \in Emails
  BY DEF TokenTypeInv, TokenRequestsOK, TokenInformed, Issue, Kinds
<1>2. [kind |-> treq[s].kind, email |-> treq[s].email, status |-> "live"] \in Link
  BY <1>1 DEF Link
<1>3. link' \in [Links -> Link]
  BY <1>2, VoidedType DEF TokenTypeInv, TokenRowsOK, Issue
<1>4. recent' \subseteq Emails
  BY <1>1 DEF TokenTypeInv, TokenRowsOK, Issue
<1>5. TokenRowsOK'
  BY <1>3, <1>4 DEF TokenTypeInv, TokenRowsOK, Issue
<1> QED  BY <1>5, TokenEndOK DEF TokenTypeInv, Issue

LEMMA ClaimTypes ==
    ASSUME TokenTypeInv, NEW s \in Slots,
           ClaimSetup(s) \/ ClaimVerify(s) \/ ClaimUnlock(s) \/ ClaimState(s)
    PROVE  TokenTypeInv'
<1>1. treq[s].link \in Links /\ treq[s].email \in Emails
  BY DEF TokenTypeInv, TokenRequestsOK, TokenInformed, ClaimSetup, ClaimVerify, ClaimUnlock,
         ClaimState, Spend
<1>2. ASSUME NEW kind, NEW free, Spend(s, kind, free)
      PROVE  link' \in [Links -> Link] /\ done' \in [Links -> Nat]
  BY <1>1, <1>2 DEF TokenTypeInv, TokenRowsOK, Spend, Link
<1>3. link' \in [Links -> Link] /\ done' \in [Links -> Nat]
  BY <1>2 DEF ClaimSetup, ClaimVerify, ClaimUnlock, ClaimState
<1>4. /\ owner' \in [Emails -> {"absent", "unverified", "verified"}]
      /\ lockedOut' \subseteq Emails
      /\ UNCHANGED <<identity, recent, admitted>>
  BY <1>1 DEF TokenTypeInv, TokenRowsOK, ClaimSetup, ClaimVerify, ClaimUnlock, ClaimState
<1>5. TokenRowsOK'
  BY <1>3, <1>4 DEF TokenTypeInv, TokenRowsOK
<1>6. TokenEnd(s) \/ treq' = [treq EXCEPT ![s].phase = "resolve"]
  BY DEF ClaimSetup, ClaimVerify, ClaimUnlock, ClaimState
<1>7. TokenRequestsOK'
  BY <1>1, <1>6, TokenEndOK, TokenGotoOK DEF TokenTypeInv
<1> QED  BY <1>5, <1>7 DEF TokenTypeInv

LEMMA ResolveTypes ==
    ASSUME TokenTypeInv, NEW s \in Slots, NEW uuid \in Identities,
           ResolveLinked(s, uuid) \/ ResolveByEmail(s, uuid)
    PROVE  TokenTypeInv'
<1> DEFINE q == [treq[s] EXCEPT !.phase = "bind", !.uuid = uuid]
<1>1. ASSUME treq[s].phase = "resolve"  PROVE q \in TokenRequest /\ TokenInformed(q)
  BY <1>1 DEF TokenTypeInv, TokenRequestsOK, TokenRequest, TokenInformed
<1>2. TokenEnd(s) \/ (treq[s].phase = "resolve" /\ treq' = [treq EXCEPT ![s] = q])
  BY DEF ResolveLinked, ResolveByEmail, Admit, TokenTypeInv, TokenRequestsOK
<1> HIDE DEF q
<1>3. TokenRequestsOK'
  BY <1>1, <1>2, TokenEndOK, TokenRequestUpdate DEF TokenTypeInv
<1>4. TokenRowsOK'
  BY DEF TokenTypeInv, TokenRowsOK, ResolveLinked, ResolveByEmail, Admit
<1> QED  BY <1>3, <1>4 DEF TokenTypeInv

LEMMA BindTypes ==
    ASSUME TokenTypeInv, NEW s \in Slots, Bind(s) \/ Recheck(s) \/ TokenDie(s)
    PROVE  TokenTypeInv'
<1>1. treq[s].phase \in {"bind", "recheck"} => treq[s].email \in Emails /\ treq[s].uuid \in Identities
  BY DEF TokenTypeInv, TokenRequestsOK, TokenInformed
<1>2. TokenEnd(s) \/ (treq[s].phase = "bind" /\ treq' = [treq EXCEPT ![s].phase = "recheck"])
  BY DEF Bind, Recheck, TokenDie, Admit
<1>3. TokenRequestsOK'
  BY <1>1, <1>2, TokenEndOK, TokenGotoOK DEF TokenTypeInv
<1>4. identity' \in [Emails -> Identities \cup {None}] /\ admitted' \subseteq Emails \X Identities
  BY <1>1 DEF TokenTypeInv, TokenRowsOK, Bind, Recheck, TokenDie, Admit
<1>5. TokenRowsOK'
  BY <1>4 DEF TokenTypeInv, TokenRowsOK, Bind, Recheck, TokenDie, Admit
<1> QED  BY <1>3, <1>5 DEF TokenTypeInv

LEMMA TokenElapseTypes ==
    ASSUME TokenTypeInv, IssueState \/ TokenElapse
    PROVE  TokenTypeInv'
<1>1. TokenRequestsOK'
  BY DEF TokenTypeInv, TokenRequestsOK, TokenInformed, IssueState, TokenElapse
<1>2. [kind |-> "state", email |-> None, status |-> "live"] \in Link
  BY DEF Link, Kinds
<1>3. link' \in [Links -> Link]
  BY <1>2 DEF TokenTypeInv, TokenRowsOK, IssueState, TokenElapse, Link
<1>4. TokenRowsOK'
  BY <1>3 DEF TokenTypeInv, TokenRowsOK, IssueState, TokenElapse
<1> QED  BY <1>1, <1>4 DEF TokenTypeInv

\* What one step of the tokens is.
LEMMA TokensNextSplit ==
    ASSUME TokensNext
    PROVE  \/ \E s \in Slots :
              \/ \E e \in Emails : Register(s, e) \/ ResendVerification(s, e) \/ LockOut(s, e)
              \/ \E i \in Links, e \in Emails : RedeemRead(s, i, e)
              \/ Issue(s)
              \/ ClaimSetup(s) \/ ClaimVerify(s) \/ ClaimUnlock(s) \/ ClaimState(s)
              \/ \E uuid \in Identities : ResolveLinked(s, uuid) \/ ResolveByEmail(s, uuid)
              \/ Bind(s) \/ Recheck(s) \/ TokenDie(s)
           \/ IssueState \/ TokenElapse
BY Zenon DEF TokensNext, TokenStep, setup_submit, verify_email, self_unlock,
             uaepass_operator_callback, Redeem

LEMMA TokensStepTypes == ASSUME TokenTypeInv, [TokensNext]_tokenVars PROVE TokenTypeInv'
<1>1. CASE TokensNext
  BY <1>1, TokensNextSplit, RegisterTypes, RedeemTypes, IssueTypes, ClaimTypes, ResolveTypes,
     BindTypes, TokenElapseTypes, Zenon
<1>2. CASE UNCHANGED tokenVars
  BY <1>2 DEF tokenVars, TokenTypeInv, TokenRowsOK, TokenRequestsOK, TokenInformed
<1> QED  BY <1>1, <1>2

\* Every row, request and history of the tokens has its type (columns of schema.sql,
\* locals of the routes), whatever the number of requests in flight.
THEOREM TokensTypeCorrect == TokensSpec => []TokensTypeOK
<1>1. TokenTypeInv => TokensTypeOK
  BY DEF TokenTypeInv, TokenRowsOK, TokenRequestsOK, TokensTypeOK
<1> QED  BY <1>1, TokensInitTypes, TokensStepTypes, PTL DEF TokensSpec

-------------------------------------------------------------------------------
\* OneTimeTokens: a token does its work once

LEMMA TokensInitSpent == ASSUME TokensInit PROVE SpentOnceByWork
BY DEF TokensInit, SpentOnceByWork, NoLink

\* A claim does the work of a row that was not used, and uses it.
LEMMA SpendSpent ==
    ASSUME TokenTypeInv, SpentOnceByWork, NEW s \in Slots, NEW kind, NEW free,
           free => Unused(treq[s].link), Spend(s, kind, free)
    PROVE  SpentOnceByWork'
<1> DEFINE i == treq[s].link
<1>1. i \in Links
  BY DEF TokenTypeInv, TokenRequestsOK, TokenInformed, Spend
<1>2. CASE ~free
  BY <1>2 DEF Spend, SpentOnceByWork
<1>3. CASE free
  <2>1. /\ link' = [link EXCEPT ![i].status = "used"]
        /\ done' = [done EXCEPT ![i] = @ + 1]
    BY <1>3 DEF Spend
  <2>2. done[i] = 0
    BY <1>1, <1>3 DEF TokenTypeInv, TokenRowsOK, SpentOnceByWork, Unused
  <2>3. done'[i] = 1 /\ link'[i].status = "used"
    BY <1>1, <2>1, <2>2 DEF TokenTypeInv, TokenRowsOK, Link
  <2>4. \A j \in Links \ {i} : done'[j] = done[j] /\ link'[j] = link[j]
    BY <2>1 DEF TokenTypeInv, TokenRowsOK
  <2> QED  BY <2>3, <2>4 DEF SpentOnceByWork
<1> QED  BY <1>2, <1>3

\* A row that is voided is no set-up link and no state.
LEMMA IssueSpent ==
    ASSUME TokenTypeInv, SpentOnceByWork, NEW s \in Slots, Issue(s)
    PROVE  SpentOnceByWork'
<1> DEFINE new == Min(FreeLinks)
<1>1. new \in Links /\ link[new].status = "none"
  BY NextLinkIsFree DEF Issue, FreeLinks
<1>2. treq[s].kind \in {"verify", "unlock"}
  BY DEF TokenTypeInv, TokenRequestsOK, TokenInformed, Issue
<1>3. /\ link' = [Voided(treq[s].kind, treq[s].email) EXCEPT ![new] =
                     [kind |-> treq[s].kind, email |-> treq[s].email, status |-> "live"]]
      /\ done' = done
  BY DEF Issue, FreeLinks
<1> HIDE DEF new
<1>4. link'[new].status = "live"
  BY <1>1, <1>3 DEF Voided
<1>5. done[new] = 0
  BY <1>1 DEF TokenTypeInv, TokenRowsOK, SpentOnceByWork
<1>6. ASSUME NEW j \in Links, j # new
      PROVE  \/ link'[j] = link[j]
             \/ /\ link'[j].status = "used" /\ link'[j].kind = treq[s].kind
  BY <1>3, <1>6 DEF Voided, TokenTypeInv, TokenRowsOK, Link
<1> QED  BY <1>2, <1>3, <1>4, <1>5, <1>6 DEF SpentOnceByWork, TokenTypeInv, TokenRowsOK

LEMMA TokenElapseSpent ==
    ASSUME TokenTypeInv, SpentOnceByWork, IssueState \/ TokenElapse
    PROVE  SpentOnceByWork'
<1>1. CASE IssueState
  <2> DEFINE new == Min(FreeLinks)
  <2>1. new \in Links /\ link[new].status = "none"
    BY <1>1, NextLinkIsFree DEF IssueState, FreeLinks
  <2>2. /\ link' = [link EXCEPT ![new] = [kind |-> "state", email |-> None, status |-> "live"]]
        /\ done' = done
    BY <1>1 DEF IssueState, FreeLinks
  <2> HIDE DEF new
  <2> QED  BY <2>1, <2>2 DEF TokenTypeInv, TokenRowsOK, SpentOnceByWork
<1>2. CASE TokenElapse
  BY <1>2 DEF TokenElapse, TokenTypeInv, TokenRowsOK, SpentOnceByWork, Link
<1> QED  BY <1>1, <1>2

LEMMA TokensStepSpent ==
    ASSUME TokenTypeInv, SpentOnceByWork, [TokensNext]_tokenVars
    PROVE  SpentOnceByWork'
<1>1. ASSUME UNCHANGED <<link, done>>  PROVE SpentOnceByWork'
  BY <1>1 DEF SpentOnceByWork
<1>2. ASSUME NEW s \in Slots, ClaimSetup(s) \/ ClaimVerify(s) \/ ClaimUnlock(s) \/ ClaimState(s)
      PROVE  SpentOnceByWork'
  <2> DEFINE untaken == Unused(treq[s].link) /\ owner[treq[s].email] = "absent"
  <2>1. CASE ClaimSetup(s)
    <3>1. Spend(s, "setup", untaken)
      BY <2>1 DEF ClaimSetup
    <3> QED  BY <3>1, SpendSpent
  <2>2. CASE ClaimVerify(s) \/ ClaimUnlock(s) \/ ClaimState(s)
    <3>1. \E kind \in Kinds : Spend(s, kind, Unused(treq[s].link))
      BY <2>2 DEF ClaimVerify, ClaimUnlock, ClaimState, Kinds
    <3> QED  BY <3>1, SpendSpent
  <2> QED  BY <1>2, <2>1, <2>2
<1>3. ASSUME NEW s \in Slots, NEW e \in Emails,
             Register(s, e) \/ ResendVerification(s, e) \/ LockOut(s, e)
      PROVE  UNCHANGED <<link, done>>
  BY <1>3 DEF Register, ResendVerification, LockOut
<1>4. ASSUME NEW s \in Slots, NEW i \in Links, NEW e \in Emails, RedeemRead(s, i, e)
      PROVE  UNCHANGED <<link, done>>
  BY <1>4 DEF RedeemRead
<1>5. ASSUME NEW s \in Slots, NEW uuid \in Identities,
             ResolveLinked(s, uuid) \/ ResolveByEmail(s, uuid)
      PROVE  UNCHANGED <<link, done>>
  BY <1>5 DEF ResolveLinked, ResolveByEmail
<1>6. ASSUME NEW s \in Slots, Bind(s) \/ Recheck(s) \/ TokenDie(s)
      PROVE  UNCHANGED <<link, done>>
  BY <1>6 DEF Bind, Recheck, TokenDie
<1>7. CASE TokensNext
  BY <1>1, <1>2, <1>3, <1>4, <1>5, <1>6, <1>7, TokensNextSplit, IssueSpent, TokenElapseSpent, Zenon
<1>8. CASE UNCHANGED tokenVars
  BY <1>1, <1>8 DEF tokenVars
<1> QED  BY <1>7, <1>8

\* However redemptions overlap or die, a set-up link, a verification link, an unlock
\* link and a UAE PASS state each do their work at most once (UPDATE ... WHERE used_at
\* IS NULL in the transaction of the work).
THEOREM SpentOnceByWorkCorrect == TokensSpec => []SpentOnceByWork
BY TokensInitTypes, TokensStepTypes, TokensInitSpent, TokensStepSpent, PTL DEF TokensSpec

-------------------------------------------------------------------------------
\* OneTimeTokens: one live link of a kind for an account

\* What OneLiveLink counts, said of two rows.
LiveAlike(a, b) ==
    /\ a.status = "live" /\ b.status = "live"
    /\ a.kind \in {"verify", "unlock"} /\ a.kind = b.kind /\ a.email = b.email

LinksUnique(rows) == \A i, j \in Links : LiveAlike(rows[i], rows[j]) => i = j

LEMMA UniqueIsOneLive == ASSUME LinksUnique(link) PROVE OneLiveLink
<1> SUFFICES ASSUME NEW e \in Emails, NEW kind \in {"verify", "unlock"}
             PROVE  Cardinality(LiveLinks(kind, e)) <= 1
  BY DEF OneLiveLink
<1>1. \A i, j \in LiveLinks(kind, e) : i = j
  BY DEF LinksUnique, LiveAlike, LiveLinks
<1> QED  BY <1>1, AtMostOne

LEMMA TokensInitUnique == ASSUME TokensInit PROVE LinksUnique(link)
BY DEF TokensInit, LinksUnique, LiveAlike, NoLink

\* A row that is used up, expired or set aside was no rival of another; nor is the row
\* of a kind of which an account may hold several.
LEMMA FewerAlike ==
    ASSUME TokenTypeInv, LinksUnique(link), NEW rows,
           \A i \in Links : rows[i] = link[i] \/ rows[i].status # "live" \/ rows[i].kind = "state"
    PROVE  LinksUnique(rows)
<1> SUFFICES ASSUME NEW i \in Links, NEW j \in Links, LiveAlike(rows[i], rows[j])
             PROVE  i = j
  BY DEF LinksUnique
<1>1. rows[i] = link[i] /\ rows[j] = link[j]
  BY DEF LiveAlike
<1> QED  BY <1>1 DEF LinksUnique

\* The new link is alone: those before it were voided in its transaction.
LEMMA IssueUnique ==
    ASSUME TokenTypeInv, LinksUnique(link), NEW s \in Slots, Issue(s)
    PROVE  LinksUnique(link')
<1> DEFINE new == Min(FreeLinks)
           kind == treq[s].kind
           e == treq[s].email
           rows == Voided(kind, e)
<1>1. new \in Links
  BY NextLinkIsFree DEF Issue, FreeLinks
<1>2. link' = [rows EXCEPT ![new] = [kind |-> kind, email |-> e, status |-> "live"]]
  BY DEF Issue, FreeLinks
<1>3. ASSUME NEW i \in Links
      PROVE  /\ rows[i] = link[i] \/ rows[i].status # "live"
             /\ rows[i].status = "live" => ~(rows[i].kind = kind /\ rows[i].email = e)
  BY DEF Voided, TokenTypeInv, TokenRowsOK, Link
<1>4. LinksUnique(rows)
  BY <1>3, FewerAlike
<1>5. DOMAIN rows = Links
  BY DEF Voided
<1> HIDE DEF new, rows
<1>6. /\ link'[new].status = "live" /\ link'[new].kind = kind /\ link'[new].email = e
      /\ \A i \in Links \ {new} : link'[i] = rows[i]
  BY <1>1, <1>2, <1>5
<1> HIDE DEF kind, e
<1>7. ASSUME NEW i \in Links, NEW j \in Links, LiveAlike(link'[i], link'[j])
      PROVE  i = j
  <2>1. CASE i # new /\ j # new
    BY <1>4, <1>6, <1>7, <2>1 DEF LinksUnique
  <2>2. CASE i = new /\ j # new
    BY <1>3, <1>6, <1>7, <2>2 DEF LiveAlike
  <2>3. CASE i # new /\ j = new
    BY <1>3, <1>6, <1>7, <2>3 DEF LiveAlike
  <2> QED  BY <2>1, <2>2, <2>3
<1> QED  BY <1>7 DEF LinksUnique

LEMMA SpendUnique ==
    ASSUME TokenTypeInv, LinksUnique(link), NEW s \in Slots, NEW kind, NEW free,
           Spend(s, kind, free)
    PROVE  LinksUnique(link')
<1>1. \A i \in Links : link'[i] = link[i] \/ link'[i].status # "live"
  BY DEF Spend, TokenTypeInv, TokenRowsOK, Link
<1> QED  BY <1>1, FewerAlike

LEMMA TokenElapseUnique ==
    ASSUME TokenTypeInv, LinksUnique(link), IssueState \/ TokenElapse
    PROVE  LinksUnique(link')
<1>1. CASE IssueState
  <2>1. PICK new : link' = [link EXCEPT ![new] = [kind |-> "state", email |-> None, status |-> "live"]]
    BY <1>1 DEF IssueState
  <2>2. \A i \in Links : link'[i] = link[i] \/ link'[i].kind = "state"
    BY <2>1 DEF TokenTypeInv, TokenRowsOK
  <2> QED  BY <2>2, FewerAlike
<1>2. CASE TokenElapse
  <2>1. \A i \in Links : link'[i] = link[i] \/ link'[i].status # "live"
    BY <1>2 DEF TokenElapse, TokenTypeInv, TokenRowsOK, Link
  <2> QED  BY <2>1, FewerAlike
<1> QED  BY <1>1, <1>2

LEMMA TokensStepUnique ==
    ASSUME TokenTypeInv, LinksUnique(link), [TokensNext]_tokenVars
    PROVE  LinksUnique(link')
<1>1. ASSUME NEW s \in Slots, ClaimSetup(s) \/ ClaimVerify(s) \/ ClaimUnlock(s) \/ ClaimState(s)
      PROVE  LinksUnique(link')
  <2>1. \E kind, free : Spend(s, kind, free)
    BY <1>1, Zenon DEF ClaimSetup, ClaimVerify, ClaimUnlock, ClaimState
  <2> QED  BY <2>1, SpendUnique
<1>2. ASSUME NEW s \in Slots, NEW e \in Emails,
             Register(s, e) \/ ResendVerification(s, e) \/ LockOut(s, e)
      PROVE  link' = link
  BY <1>2 DEF Register, ResendVerification, LockOut
<1>3. ASSUME NEW s \in Slots, NEW i \in Links, NEW e \in Emails, RedeemRead(s, i, e)
      PROVE  link' = link
  BY <1>3 DEF RedeemRead
<1>4. ASSUME NEW s \in Slots, NEW uuid \in Identities,
             ResolveLinked(s, uuid) \/ ResolveByEmail(s, uuid)
      PROVE  link' = link
  BY <1>4 DEF ResolveLinked, ResolveByEmail
<1>5. ASSUME NEW s \in Slots, Bind(s) \/ Recheck(s) \/ TokenDie(s)
      PROVE  link' = link
  BY <1>5 DEF Bind, Recheck, TokenDie
<1>6. CASE TokensNext
  BY <1>1, <1>2, <1>3, <1>4, <1>5, <1>6, TokensNextSplit, IssueUnique, TokenElapseUnique, Zenon
<1>7. CASE UNCHANGED tokenVars
  BY <1>7 DEF tokenVars
<1> QED  BY <1>6, <1>7

\* However requests for a new link overlap, an account has at most one live
\* verification link and one live unlock link: voiding the others and inserting it is
\* one transaction.
THEOREM OneLiveLinkCorrect == TokensSpec => []OneLiveLink
<1>1. TokensInit => TokenTypeInv /\ LinksUnique(link)
  BY TokensInitTypes, TokensInitUnique
<1>2. TokenTypeInv /\ LinksUnique(link) /\ [TokensNext]_tokenVars
        => TokenTypeInv' /\ LinksUnique(link)'
  BY TokensStepTypes, TokensStepUnique DEF LinksUnique
<1>3. LinksUnique(link) => OneLiveLink
  BY UniqueIsOneLive
<1> QED  BY <1>1, <1>2, <1>3, PTL DEF TokensSpec

-------------------------------------------------------------------------------
\* OneTimeTokens: who is let in through UAE PASS

LEMMA TokensStepLinked ==
    ASSUME TokenTypeInv, AdmittedIsLinked, [TokensNext]_tokenVars
    PROVE  AdmittedIsLinked'
<1>1. ASSUME UNCHANGED <<identity, admitted>>  PROVE AdmittedIsLinked'
  BY <1>1 DEF AdmittedIsLinked
<1>2. ASSUME NEW s \in Slots, NEW uuid \in Identities, ResolveLinked(s, uuid)
      PROVE  AdmittedIsLinked'
  BY <1>2 DEF ResolveLinked, Admit, AdmittedIsLinked
<1>3. ASSUME NEW s \in Slots, Recheck(s)
      PROVE  AdmittedIsLinked'
  BY <1>3 DEF Recheck, Admit, AdmittedIsLinked
<1>4. ASSUME NEW s \in Slots, Bind(s)
      PROVE  AdmittedIsLinked'
  \* An account whose identity is free has let nobody in.
  <2>1. \A p \in admitted : p[1] \in Emails /\ identity[p[1]] \in Identities
    BY DEF TokenTypeInv, TokenRowsOK, AdmittedIsLinked
  <2>2. \A p \in admitted : identity'[p[1]] = identity[p[1]]
    BY <1>4, <2>1 DEF Bind, FreeToBind, TokenTypeInv, TokenRowsOK
  <2> QED  BY <1>4, <2>2 DEF Bind, AdmittedIsLinked
<1>5. ASSUME NEW s \in Slots, NEW e \in Emails,
             Register(s, e) \/ ResendVerification(s, e) \/ LockOut(s, e)
      PROVE  UNCHANGED <<identity, admitted>>
  BY <1>5 DEF Register, ResendVerification, LockOut
<1>6. ASSUME NEW s \in Slots, NEW i \in Links, NEW e \in Emails, RedeemRead(s, i, e)
      PROVE  UNCHANGED <<identity, admitted>>
  BY <1>6 DEF RedeemRead
<1>7. ASSUME NEW s \in Slots,
             \/ Issue(s) \/ TokenDie(s)
             \/ ClaimSetup(s) \/ ClaimVerify(s) \/ ClaimUnlock(s) \/ ClaimState(s)
      PROVE  UNCHANGED <<identity, admitted>>
  BY <1>7 DEF Issue, TokenDie, ClaimSetup, ClaimVerify, ClaimUnlock, ClaimState
<1>8. ASSUME NEW s \in Slots, NEW uuid \in Identities, ResolveByEmail(s, uuid)
      PROVE  UNCHANGED <<identity, admitted>>
  BY <1>8 DEF ResolveByEmail
<1>9. ASSUME IssueState \/ TokenElapse  PROVE UNCHANGED <<identity, admitted>>
  BY <1>9 DEF IssueState, TokenElapse
<1>10. CASE TokensNext
  BY <1>1, <1>2, <1>3, <1>4, <1>5, <1>6, <1>7, <1>8, <1>9, <1>10, TokensNextSplit, Zenon
<1>11. CASE UNCHANGED tokenVars
  BY <1>1, <1>11 DEF tokenVars
<1> QED  BY <1>10, <1>11

\* However first sign-ins overlap, whoever came in through UAE PASS came with the one
\* identity linked to the account, which never changes (UPDATE ... WHERE uaepass_uuid
\* IS NULL, read again before the session is opened).
THEOREM AdmittedIsLinkedCorrect == TokensSpec => []AdmittedIsLinked
<1>1. TokensInit => AdmittedIsLinked
  BY DEF TokensInit, AdmittedIsLinked
<1> QED  BY <1>1, TokensInitTypes, TokensStepTypes, TokensStepLinked, PTL DEF TokensSpec

-------------------------------------------------------------------------------
\* Mfa: types

MfaRowsOK ==
    /\ factor \in Factor
    /\ backups \subseteq Codes
    /\ drawn \in 0..MaxDrawn /\ step \in 2..MaxStep
    /\ proven \subseteq 0..MaxDrawn /\ accepted \subseteq Codes /\ replayed \subseteq Codes

MfaRequestsOK == mreq \in [Slots -> MfaRequest]

MfaTypeInv == MfaRowsOK /\ MfaRequestsOK

LEMMA MfaTypesAre == MfaTypeInv <=> MfaTypeOK
BY DEF MfaTypeInv, MfaRowsOK, MfaRequestsOK, MfaTypeOK

Phases == {"idle", "enroll", "totp", "claim", "backup", "claimBackup", "miss", "ok", "confirm",
           "delete"}

LEMMA NoMfaRequestOK == NoMfaRequest \in MfaRequest
BY DEF NoMfaRequest, MfaRequest, Stages, Codes, WrongCode

LEMMA MfaEndOK ==
    ASSUME MfaRequestsOK, NEW s \in Slots, MfaEnd(s)
    PROVE  MfaRequestsOK'
BY NoMfaRequestOK DEF MfaRequestsOK, MfaEnd

LEMMA MfaGotoOK ==
    ASSUME MfaRequestsOK, NEW s \in Slots, NEW phase \in Phases, MfaGoto(s, phase)
    PROVE  MfaRequestsOK'
BY DEF MfaRequestsOK, MfaGoto, MfaRequest, Phases

LEMMA NoFactorOK == NoFactor \in Factor
BY DEF NoFactor, Factor

LEMMA MfaInitTypes == ASSUME MfaInit PROVE MfaTypeInv
BY NoFactorOK, NoMfaRequestOK DEF MfaInit, MfaTypeInv, MfaRowsOK, MfaRequestsOK

LEMMA EnrollTypes ==
    ASSUME MfaTypeInv, NEW s \in Slots, EnrollRead(s) \/ EnrollWrite(s)
    PROVE  MfaTypeInv'
<1>1. CASE EnrollRead(s)
  <2>1. [NoMfaRequest EXCEPT !.phase = "enroll"] \in MfaRequest
    BY NoMfaRequestOK DEF MfaRequest
  <2> QED  BY <1>1, <2>1 DEF EnrollRead, MfaStart, MfaTypeInv, MfaRowsOK, MfaRequestsOK
<1>2. CASE EnrollWrite(s)
  <2>1. factor' \in Factor /\ drawn' \in 0..MaxDrawn
    BY <1>2, NoFactorOK DEF EnrollWrite, MfaTypeInv, MfaRowsOK, Factor
  <2> QED  BY <1>2, <2>1, MfaEndOK DEF EnrollWrite, MfaTypeInv, MfaRowsOK
<1> QED  BY <1>1, <1>2

LEMMA TypedIsCode ==
    ASSUME MfaRowsOK
    PROVE  \A code \in Typed : /\ code \in Codes
                               /\ code[1] <= drawn
                               /\ code[2] # 0 => code[1] # 0
BY DEF MfaRowsOK, Typed, Codes, WrongCode

LEMMA CheckTypes ==
    ASSUME MfaTypeInv, NEW s \in Slots,
           \/ \E stage \in Stages, code \in Typed : CheckRead(s, stage, code)
           \/ MfaVerify(s) \/ BackupRead(s)
    PROVE  MfaTypeInv'
<1>1. ASSUME NEW stage \in Stages, NEW code \in Typed, CheckRead(s, stage, code)
      PROVE  MfaTypeInv'
  <2> DEFINE q == [phase |-> "totp", stage |-> stage, code |-> code, failures |-> factor.failures]
  <2>1. q \in MfaRequest
    BY TypedIsCode DEF MfaTypeInv, MfaRowsOK, Factor, MfaRequest
  <2>2. mreq' = [mreq EXCEPT ![s] = q]
    BY <1>1 DEF CheckRead, MfaStart
  <2> HIDE DEF q
  <2> QED  BY <1>1, <2>1, <2>2 DEF CheckRead, MfaTypeInv, MfaRowsOK, MfaRequestsOK
<1>2. CASE MfaVerify(s) \/ BackupRead(s)
  <2>1. \E phase \in Phases : MfaGoto(s, phase)
    BY <1>2 DEF MfaVerify, BackupRead, Phases
  <2>2. MfaRequestsOK'
    BY <2>1, MfaGotoOK DEF MfaTypeInv
  <2> QED  BY <1>2, <2>2 DEF MfaVerify, BackupRead, MfaTypeInv, MfaRowsOK
<1> QED  BY <1>1, <1>2

LEMMA AcceptTypes ==
    ASSUME MfaTypeInv, NEW code \in Codes, Accept(code)
    PROVE  proven' \subseteq 0..MaxDrawn /\ accepted' \subseteq Codes /\ replayed' \subseteq Codes
BY DEF MfaTypeInv, MfaRowsOK, Accept, Codes

LEMMA ClaimCodeTypes ==
    ASSUME MfaTypeInv, NEW s \in Slots, ClaimStep(s) \/ ClaimBackup(s)
    PROVE  MfaTypeInv'
<1> DEFINE code == mreq[s].code
<1>1. code \in Codes /\ code[2] \in 0..MaxStep
  BY DEF MfaTypeInv, MfaRequestsOK, MfaRequest, Codes
<1>2. \E phase \in Phases : MfaGoto(s, phase)
  BY DEF ClaimStep, ClaimBackup, Phases
<1>3. MfaRequestsOK'
  BY <1>2, MfaGotoOK DEF MfaTypeInv
<1>4. /\ proven' \subseteq 0..MaxDrawn /\ accepted' \subseteq Codes /\ replayed' \subseteq Codes
  BY <1>1, AcceptTypes DEF ClaimStep, ClaimBackup, MfaTypeInv, MfaRowsOK
<1>5. factor' \in Factor
  BY <1>1 DEF ClaimStep, ClaimBackup, MfaTypeInv, MfaRowsOK, Factor
<1>6. backups' \subseteq Codes /\ drawn' = drawn /\ step' = step
  BY DEF ClaimStep, ClaimBackup, MfaTypeInv, MfaRowsOK
<1> QED  BY <1>3, <1>4, <1>5, <1>6 DEF MfaTypeInv, MfaRowsOK

\* What an attempt that ends leaves of the factor: the counter alone moves.
FactorKept ==
    /\ factor' \in Factor
    /\ factor'.secret = factor.secret /\ factor'.last = factor.last
    /\ factor'.confirmed = factor.confirmed

LEMMA FactorUpdate ==
    ASSUME MfaTypeInv, NEW failures \in 0..MFA_MAX_FAILURES - 1, NEW locked \in BOOLEAN,
           factor' = [factor EXCEPT !.failures = failures, !.locked = locked]
    PROVE  FactorKept
BY DEF MfaTypeInv, MfaRowsOK, Factor, FactorKept

LEMMA CounterCleared ==
    ASSUME MfaTypeInv, factor' = [factor EXCEPT !.failures = 0, !.locked = FALSE]
    PROVE  FactorKept
<1>1. 0 \in 0..MFA_MAX_FAILURES - 1
  OBVIOUS
<1>2. \E failures \in 0..MFA_MAX_FAILURES - 1, locked \in BOOLEAN :
         factor' = [factor EXCEPT !.failures = failures, !.locked = locked]
  BY <1>1, Zenon
<1> QED  BY <1>2, FactorUpdate

LEMMA FactorSame == ASSUME MfaTypeInv, factor' = factor PROVE FactorKept
BY DEF MfaTypeInv, MfaRowsOK, FactorKept

LEMMA MissKeeps ==
    ASSUME MfaTypeInv, NEW s \in Slots, Miss(s) \/ CodeOk(s)
    PROVE  FactorKept
<1>1. CASE Miss(s)
  <2> DEFINE locked == LockedAt(mreq[s].failures + 1)
             failures == IF locked THEN 0 ELSE mreq[s].failures + 1
  <2>1. mreq[s].failures \in 0..MFA_MAX_FAILURES - 1
    BY DEF MfaTypeInv, MfaRequestsOK, MfaRequest
  <2>2. failures \in 0..MFA_MAX_FAILURES - 1 /\ locked \in BOOLEAN
    BY <2>1 DEF LockedAt
  <2>3. \/ factor' = factor
        \/ factor' = [factor EXCEPT !.failures = failures, !.locked = locked]
    BY <1>1 DEF Miss, Present
  <2> HIDE DEF failures, locked
  <2> QED  BY <2>2, <2>3, FactorUpdate, FactorSame
<1>2. CASE CodeOk(s)
  <2>1. \/ factor' = factor
        \/ factor' = [factor EXCEPT !.failures = 0, !.locked = FALSE]
    BY <1>2, Zenon DEF CodeOk, Present
  <2> QED  BY <2>1, CounterCleared, FactorSame
<1> QED  BY <1>1, <1>2

LEMMA UnlockKeeps == ASSUME MfaTypeInv, MfaUnlock PROVE FactorKept
BY CounterCleared, Zenon DEF MfaUnlock

LEMMA MissTypes ==
    ASSUME MfaTypeInv, NEW s \in Slots, Miss(s) \/ CodeOk(s)
    PROVE  MfaTypeInv'
<1>1. MfaEnd(s) \/ \E phase \in Phases : MfaGoto(s, phase)
  BY DEF Miss, CodeOk, Phases, MfaTypeInv, MfaRequestsOK, MfaRequest, Stages
<1>2. MfaRequestsOK'
  BY <1>1, MfaEndOK, MfaGotoOK DEF MfaTypeInv
<1>3. MfaRowsOK'
  BY MissKeeps DEF FactorKept, Miss, CodeOk, MfaTypeInv, MfaRowsOK
<1> QED  BY <1>2, <1>3 DEF MfaTypeInv

\* What mfa_confirm leaves of the factor.
LEMMA ConfirmRow ==
    ASSUME MfaTypeInv, NEW s \in Slots, Confirm(s)
    PROVE  /\ factor' \in Factor
           /\ factor'.secret = factor.secret /\ factor'.last = factor.last
           /\ factor'.confirmed = IF factor.secret = 0 THEN factor.confirmed ELSE TRUE
<1> DEFINE new == [factor EXCEPT !.confirmed = TRUE, !.failures = 0, !.locked = FALSE]
<1>1. new \in Factor /\ new.secret = factor.secret /\ new.last = factor.last /\ new.confirmed = TRUE
  <2>1. 0 \in 0..MFA_MAX_FAILURES - 1
    OBVIOUS
  <2>2. ASSUME NEW confirmed \in BOOLEAN, NEW failures \in 0..MFA_MAX_FAILURES - 1, NEW locked \in BOOLEAN
        PROVE  LET row == [factor EXCEPT !.confirmed = confirmed, !.failures = failures,
                                         !.locked = locked]
               IN  /\ row \in Factor /\ row.secret = factor.secret /\ row.last = factor.last
                   /\ row.confirmed = confirmed
    BY DEF MfaTypeInv, MfaRowsOK, Factor
  <2> QED  BY <2>1, <2>2, Zenon
<1>2. factor.confirmed \in BOOLEAN
  BY DEF MfaTypeInv, MfaRowsOK, Factor
<1>3. factor' = IF factor.secret = 0 THEN factor ELSE IF factor.confirmed THEN factor ELSE new
  BY DEF Confirm, Present
<1> HIDE DEF new
<1>4. CASE factor.secret = 0 \/ (factor.confirmed = TRUE)
  BY <1>3, <1>4 DEF MfaTypeInv, MfaRowsOK
<1>5. CASE factor.secret # 0 /\ factor.confirmed = FALSE
  BY <1>1, <1>3, <1>5
<1> QED  BY <1>2, <1>4, <1>5

LEMMA ConfirmTypes ==
    ASSUME MfaTypeInv, NEW s \in Slots, Confirm(s) \/ Disable(s) \/ MfaDie(s)
    PROVE  MfaTypeInv'
<1>1. MfaEnd(s)
  BY DEF Confirm, Disable, MfaDie
<1>2. CASE Confirm(s)
  <2>1. drawn' \in 0..MaxDrawn /\ backups' \subseteq Codes
    BY <1>2 DEF Confirm, MfaTypeInv, MfaRowsOK, BackupOf, Codes
  <2> QED  BY <1>1, <1>2, <2>1, ConfirmRow, MfaEndOK DEF Confirm, MfaTypeInv, MfaRowsOK
<1>3. CASE Disable(s)
  BY <1>1, <1>3, NoFactorOK, MfaEndOK DEF Disable, CodesLeft, MfaTypeInv, MfaRowsOK
<1>4. CASE MfaDie(s)
  BY <1>1, <1>4, MfaEndOK DEF MfaDie, MfaTypeInv, MfaRowsOK
<1> QED  BY <1>2, <1>3, <1>4

LEMMA MfaTimeTypes ==
    ASSUME MfaTypeInv, MfaUnlock \/ TotpTick
    PROVE  MfaTypeInv'
<1>1. CASE MfaUnlock
  BY <1>1, UnlockKeeps DEF FactorKept, MfaUnlock, MfaTypeInv, MfaRowsOK, MfaRequestsOK
<1>2. CASE TotpTick
  BY <1>2 DEF TotpTick, MfaTypeInv, MfaRowsOK, MfaRequestsOK
<1> QED  BY <1>1, <1>2

LEMMA MfaNextSplit ==
    ASSUME MfaNext
    PROVE  \/ \E s \in Slots :
              \/ EnrollRead(s) \/ EnrollWrite(s)
              \/ \/ \E stage \in Stages, code \in Typed : CheckRead(s, stage, code)
                 \/ MfaVerify(s) \/ BackupRead(s)
              \/ ClaimStep(s) \/ ClaimBackup(s)
              \/ Miss(s) \/ CodeOk(s)
              \/ Confirm(s) \/ Disable(s) \/ MfaDie(s)
           \/ MfaUnlock \/ TotpTick
BY Zenon DEF MfaNext, MfaStep

LEMMA MfaStepTypes == ASSUME MfaTypeInv, [MfaNext]_mfaVars PROVE MfaTypeInv'
<1>1. CASE MfaNext
  BY <1>1, MfaNextSplit, EnrollTypes, CheckTypes, ClaimCodeTypes, MissTypes, ConfirmTypes,
     MfaTimeTypes, Zenon
<1>2. CASE UNCHANGED mfaVars
  BY <1>2 DEF mfaVars, MfaTypeInv, MfaRowsOK, MfaRequestsOK
<1> QED  BY <1>1, <1>2

\* Every row, request and history of the second factor has its type (mfa_secrets,
\* mfa_backup_codes, locals of the routes): the counter never reaches the limit.
THEOREM MfaTypeCorrect == MfaSpec => []MfaTypeOK
BY MfaInitTypes, MfaStepTypes, MfaTypesAre, PTL DEF MfaSpec

-------------------------------------------------------------------------------
\* Mfa: no code is accepted twice

\* Draws are numbered: what was accepted, is in flight or may still be used was made
\* from a draw that was made, a TOTP code from a secret.
DrawnSoFar(code) == code[1] <= drawn /\ (code[2] # 0 => code[1] # 0)

\* A backup code that is still there was not accepted; a TOTP code of the secret in
\* force that was accepted is not newer than the step kept.
CodesInv ==
    /\ factor.secret <= drawn
    /\ \A s \in Slots : DrawnSoFar(mreq[s].code)
    /\ \A code \in accepted : DrawnSoFar(code)
    /\ \A code \in backups : code[1] <= drawn /\ code[2] = 0 /\ code \notin accepted
    /\ \A code \in accepted : code[2] # 0 /\ code[1] = factor.secret => code[2] <= factor.last
    /\ replayed \subseteq accepted
    /\ CodeAcceptedOnce

LEMMA MfaInitCodes == ASSUME MfaInit PROVE CodesInv
BY DEF MfaInit, CodesInv, DrawnSoFar, NoFactor, NoMfaRequest, WrongCode, CodeAcceptedOnce

\* Nothing changes but requests, which hold codes they held or none, the counter of
\* the factor, and the clock.
LEMMA CodesKeptInv ==
    ASSUME MfaTypeInv, CodesInv, UNCHANGED <<backups, drawn, accepted, replayed>>,
           factor'.secret = factor.secret, factor'.last = factor.last,
           \A s \in Slots : mreq'[s].code \in {mreq[s].code, WrongCode} \cup Typed
    PROVE  CodesInv'
<1>1. \A s \in Slots : DrawnSoFar(mreq'[s].code)
  BY TypedIsCode DEF MfaTypeInv, CodesInv, DrawnSoFar, WrongCode, MfaRowsOK
<1>2. \A code : DrawnSoFar(code)' <=> DrawnSoFar(code)
  BY DEF DrawnSoFar
<1> QED  BY <1>1 DEF CodesInv, CodeAcceptedOnce, DrawnSoFar

LEMMA RequestCodes ==
    ASSUME MfaTypeInv, NEW s \in Slots,
           \/ MfaEnd(s)
           \/ \E phase \in Phases : MfaGoto(s, phase)
           \/ \E stage \in Stages, code \in Typed : CheckRead(s, stage, code)
           \/ EnrollRead(s)
    PROVE  \A t \in Slots : mreq'[t].code \in {mreq[t].code, WrongCode} \cup Typed
BY DEF MfaEnd, MfaGoto, CheckRead, EnrollRead, MfaStart, NoMfaRequest, MfaTypeInv, MfaRequestsOK,
       MfaRequest

LEMMA CheckCodes ==
    ASSUME MfaTypeInv, CodesInv, NEW s \in Slots,
           \/ EnrollRead(s) \/ MfaVerify(s) \/ BackupRead(s) \/ MfaDie(s)
           \/ \E stage \in Stages, code \in Typed : CheckRead(s, stage, code)
    PROVE  CodesInv'
<1>1. \/ MfaEnd(s)
      \/ \E phase \in Phases : MfaGoto(s, phase)
      \/ \E stage \in Stages, code \in Typed : CheckRead(s, stage, code)
      \/ EnrollRead(s)
  BY DEF MfaVerify, BackupRead, MfaDie, Phases
<1>2. UNCHANGED <<factor, backups, drawn, accepted, replayed>>
  BY DEF EnrollRead, MfaVerify, BackupRead, MfaDie, CheckRead
<1> QED  BY <1>1, <1>2, RequestCodes, CodesKeptInv

LEMMA MissCodes ==
    ASSUME MfaTypeInv, CodesInv, NEW s \in Slots, Miss(s) \/ CodeOk(s)
    PROVE  CodesInv'
<1>1. MfaEnd(s) \/ \E phase \in Phases : MfaGoto(s, phase)
  BY DEF Miss, CodeOk, Phases, MfaTypeInv, MfaRequestsOK, MfaRequest, Stages
<1>2. UNCHANGED <<backups, drawn, accepted, replayed>>
  BY DEF Miss, CodeOk
<1> QED  BY <1>1, <1>2, RequestCodes, MissKeeps, CodesKeptInv DEF FactorKept

LEMMA MfaTimeCodes ==
    ASSUME MfaTypeInv, CodesInv, MfaUnlock \/ TotpTick
    PROVE  CodesInv'
<1>1. UNCHANGED <<backups, drawn, accepted, replayed, mreq>>
  BY DEF MfaUnlock, TotpTick
<1>2. factor'.secret = factor.secret /\ factor'.last = factor.last
  BY UnlockKeeps DEF TotpTick, FactorKept
<1>3. \A t \in Slots : mreq'[t].code \in {mreq[t].code, WrongCode} \cup Typed
  BY <1>1
<1> QED  BY <1>1, <1>2, <1>3, CodesKeptInv

\* A request that ends or goes on holds no new code.
LEMMA CodesHeld ==
    ASSUME MfaTypeInv, CodesInv, NEW s \in Slots, drawn' >= drawn, drawn' \in Nat,
           MfaEnd(s) \/ \E phase \in Phases : MfaGoto(s, phase)
    PROVE  \A t \in Slots : DrawnSoFar(mreq[t].code)'
<1>1. \A t \in Slots : mreq'[t].code = mreq[t].code \/ mreq'[t].code = WrongCode
  BY DEF MfaEnd, MfaGoto, NoMfaRequest, MfaTypeInv, MfaRequestsOK, MfaRequest
<1>2. \A t \in Slots : mreq[t].code[1] \in Nat
  BY DEF MfaTypeInv, MfaRequestsOK, MfaRequest, Codes
<1> QED  BY <1>1, <1>2 DEF CodesInv, DrawnSoFar, WrongCode, MfaTypeInv, MfaRowsOK

\* The new secret is newer than any code.
LEMMA EnrollCodes ==
    ASSUME MfaTypeInv, CodesInv, NEW s \in Slots, EnrollWrite(s)
    PROVE  CodesInv'
<1>1. drawn \in Nat /\ drawn' = drawn + 1 /\ factor'.secret = drawn + 1
  BY DEF EnrollWrite, NoFactor, MfaTypeInv, MfaRowsOK
<1>2. UNCHANGED <<backups, accepted, replayed>>
  BY DEF EnrollWrite
<1>3. \A code \in accepted \cup backups : code[1] \in Nat /\ code[1] <= drawn
  BY DEF CodesInv, DrawnSoFar, MfaTypeInv, MfaRowsOK, Codes
<1>4. \A t \in Slots : DrawnSoFar(mreq[t].code)'
  BY <1>1, CodesHeld DEF EnrollWrite
<1>5. \A code \in accepted : DrawnSoFar(code)' /\ code[1] # factor'.secret
  BY <1>1, <1>3 DEF CodesInv, DrawnSoFar
<1>6. \A code \in backups : code[1] <= drawn'
  BY <1>1, <1>3
<1> QED  BY <1>1, <1>2, <1>4, <1>5, <1>6 DEF CodesInv, CodeAcceptedOnce

\* The UPDATE that claims a step lets no code of the secret in force pass twice.
LEMMA ClaimStepCodes ==
    ASSUME MfaTypeInv, CodesInv, NEW s \in Slots, ClaimStep(s)
    PROVE  CodesInv'
<1> DEFINE code == mreq[s].code
<1>1. \E phase \in Phases : MfaGoto(s, phase)
  BY DEF ClaimStep, Phases
<1>2. CASE ~StepFree(code[2])
  BY <1>1, <1>2, RequestCodes, CodesKeptInv DEF ClaimStep
<1>3. CASE StepFree(code[2])
  <2>1. /\ factor'.secret = factor.secret /\ factor'.last = code[2]
        /\ factor.last < code[2]
    BY <1>3 DEF ClaimStep, StepFree, MfaTypeInv, MfaRowsOK, Factor
  <2>2. /\ UNCHANGED <<backups, drawn>>
        /\ accepted' = accepted \cup {code}
        /\ replayed' = IF code \in accepted THEN replayed \cup {code} ELSE replayed
    BY <1>3 DEF ClaimStep, Accept
  <2>3. /\ factor.last \in Nat /\ code[2] \in Nat /\ drawn \in Nat
        /\ \A c \in accepted : c[2] \in Nat
    BY DEF MfaTypeInv, MfaRowsOK, MfaRequestsOK, MfaRequest, Factor, Codes
  <2>4. code[2] # 0 /\ DrawnSoFar(code)
    BY <2>1, <2>3 DEF CodesInv
  <2>5. code \in accepted => code[1] # factor.secret
    BY <2>1, <2>3, <2>4 DEF CodesInv
  <2>6. \A t \in Slots : DrawnSoFar(mreq[t].code)'
    BY <1>1, <2>2, <2>3, CodesHeld
  <2>7. \A c \in accepted' : DrawnSoFar(c)'
    BY <2>2, <2>4 DEF CodesInv, DrawnSoFar
  <2>8. \A c \in backups' : c[1] <= drawn' /\ c[2] = 0 /\ c \notin accepted'
    BY <2>2, <2>4 DEF CodesInv
  <2>9. \A c \in accepted' : c[2] # 0 /\ c[1] = factor'.secret => c[2] <= factor'.last
    BY <2>1, <2>2, <2>3 DEF CodesInv
  <2>10. CodeAcceptedOnce'
    BY <2>1, <2>2, <2>4, <2>5 DEF CodesInv, CodeAcceptedOnce
  <2>11. factor'.secret <= drawn' /\ replayed' \subseteq accepted'
    BY <2>1, <2>2 DEF CodesInv
  <2> QED  BY <2>6, <2>7, <2>8, <2>9, <2>10, <2>11 DEF CodesInv
<1> QED  BY <1>2, <1>3

\* A backup code that was there is accepted for the first time.
LEMMA ClaimBackupCodes ==
    ASSUME MfaTypeInv, CodesInv, NEW s \in Slots, ClaimBackup(s)
    PROVE  CodesInv'
<1> DEFINE code == mreq[s].code
<1>1. \E phase \in Phases : MfaGoto(s, phase)
  BY DEF ClaimBackup, Phases
<1>2. CASE code \notin backups
  BY <1>1, <1>2, RequestCodes, CodesKeptInv DEF ClaimBackup
<1>3. CASE code \in backups
  <2>1. code \notin accepted /\ code[2] = 0 /\ DrawnSoFar(code)
    BY <1>3 DEF CodesInv, DrawnSoFar
  <2>2. /\ UNCHANGED <<factor, drawn, replayed>>
        /\ backups' = backups \ {code} /\ accepted' = accepted \cup {code}
    BY <1>3, <2>1 DEF ClaimBackup, Accept
  <2>3. drawn \in Nat
    BY DEF MfaTypeInv, MfaRowsOK
  <2>4. \A t \in Slots : DrawnSoFar(mreq[t].code)'
    BY <1>1, <2>2, <2>3, CodesHeld
  <2> QED  BY <2>1, <2>2, <2>4 DEF CodesInv, DrawnSoFar, CodeAcceptedOnce
<1> QED  BY <1>2, <1>3

\* The new set of backup codes is newer than any code; the factor keeps its secret.
LEMMA ConfirmCodes ==
    ASSUME MfaTypeInv, CodesInv, NEW s \in Slots, Confirm(s)
    PROVE  CodesInv'
<1>1. drawn \in Nat /\ drawn' = drawn + 1 /\ backups' = {<<drawn + 1, 0>>}
  BY DEF Confirm, BackupOf, MfaTypeInv, MfaRowsOK
<1>2. UNCHANGED <<accepted, replayed>>
  BY DEF Confirm
<1>3. \A code \in accepted : code[1] \in Nat /\ code[1] <= drawn
  BY DEF CodesInv, DrawnSoFar, MfaTypeInv, MfaRowsOK, Codes
<1>4. \A t \in Slots : DrawnSoFar(mreq[t].code)'
  BY <1>1, CodesHeld DEF Confirm
<1>5. \A code \in accepted : DrawnSoFar(code)'
  BY <1>1, <1>3 DEF CodesInv, DrawnSoFar
<1>6. \A code \in backups' : code[1] <= drawn' /\ code[2] = 0 /\ code \notin accepted
  BY <1>1, <1>3
<1>7. factor.secret \in Nat
  BY DEF MfaTypeInv, MfaRowsOK, Factor
<1>8. factor'.secret = factor.secret /\ factor'.last = factor.last
  BY ConfirmRow
<1>9. factor'.secret <= drawn'
  BY <1>1, <1>7, <1>8 DEF CodesInv
<1> QED  BY <1>2, <1>4, <1>5, <1>6, <1>8, <1>9 DEF CodesInv, CodeAcceptedOnce

\* No code was made from the secret of a factor that is not there.
LEMMA DisableCodes ==
    ASSUME MfaTypeInv, CodesInv, NEW s \in Slots, Disable(s)
    PROVE  CodesInv'
<1>1. UNCHANGED <<drawn, accepted, replayed>> /\ backups' = {} /\ factor'.secret = 0
  BY DEF Disable, CodesLeft, NoFactor
<1>2. drawn \in Nat
  BY DEF MfaTypeInv, MfaRowsOK
<1>3. \A t \in Slots : DrawnSoFar(mreq[t].code)'
  BY <1>1, <1>2, CodesHeld DEF Disable
<1>4. \A code \in accepted : DrawnSoFar(code)' /\ (code[2] # 0 => code[1] # factor'.secret)
  BY <1>1 DEF CodesInv, DrawnSoFar
<1> QED  BY <1>1, <1>2, <1>3, <1>4 DEF CodesInv, CodeAcceptedOnce

LEMMA MfaStepCodes == ASSUME MfaTypeInv, CodesInv, [MfaNext]_mfaVars PROVE CodesInv'
<1>1. CASE MfaNext
  BY <1>1, MfaNextSplit, CheckCodes, MissCodes, MfaTimeCodes, EnrollCodes, ClaimStepCodes,
     ClaimBackupCodes, ConfirmCodes, DisableCodes, Zenon
<1>2. CASE UNCHANGED mfaVars
  BY <1>2 DEF mfaVars, CodesInv, DrawnSoFar, CodeAcceptedOnce
<1> QED  BY <1>1, <1>2

\* However submissions overlap, no backup code and no TOTP code of the enrolment in
\* force is accepted twice (UPDATE ... WHERE last_step < ?, UPDATE ... WHERE used_at IS
\* NULL), whatever is disabled or enrolled anew in between.
THEOREM CodeAcceptedOnceCorrect == MfaSpec => []CodeAcceptedOnce
<1>1. CodesInv => CodeAcceptedOnce
  BY DEF CodesInv
<1> QED  BY <1>1, MfaInitTypes, MfaStepTypes, MfaInitCodes, MfaStepCodes, PTL DEF MfaSpec

-------------------------------------------------------------------------------
\* Mfa: only a proven secret is confirmed

\* While requests do not overlap: when they do, a code accepted for one enrolment confirms
\* the one that replaced it.

\* What the one request has established, and what no other can have changed since.
MfaGrounds(q) ==
    /\ q.phase = "enroll" => factor.secret = 0
    /\ q.phase = "claim" => factor.secret # 0 /\ q.code[1] = factor.secret
    /\ q.phase \in {"backup", "claimBackup"} => q.stage # "setup"
    /\ (q.phase = "ok" /\ q.stage = "setup") \/ q.phase = "confirm"
          => factor.secret # 0 /\ factor.secret \in proven

MfaGroundsInv == \A s \in Slots : MfaGrounds(mreq[s])

LEMMA MfaInitProven == ASSUME MfaInit PROVE MfaGroundsInv /\ ConfirmedIsProven
BY DEF MfaInit, MfaGroundsInv, MfaGrounds, ConfirmedIsProven, NoMfaRequest, NoFactor

\* The other requests do nothing, for there is none.
LEMMA OnlyRequest ==
    ASSUME OneRequest, MfaTypeInv, NEW s \in Slots, MfaGrounds(mreq[s])'
    PROVE  MfaGroundsInv'
BY DEF OneRequest, MfaGroundsInv, MfaGrounds

LEMMA EndedGrounds ==
    ASSUME MfaTypeInv, NEW s \in Slots, MfaEnd(s)
    PROVE  MfaGrounds(mreq[s])'
BY DEF MfaTypeInv, MfaRequestsOK, MfaEnd, NoMfaRequest, MfaGrounds

LEMMA MfaGotoFields ==
    ASSUME MfaTypeInv, NEW s \in Slots, NEW phase, MfaGoto(s, phase)
    PROVE  /\ mreq'[s].phase = phase /\ mreq'[s].stage = mreq[s].stage
           /\ mreq'[s].code = mreq[s].code
BY DEF MfaTypeInv, MfaRequestsOK, MfaGoto, MfaRequest

\* The property, for a step that keeps the secret and its confirmation.
LEMMA ProvenKept ==
    ASSUME MfaTypeInv, ConfirmedIsProven, FactorKept, proven \subseteq proven',
           backups' \subseteq backups
    PROVE  ConfirmedIsProven'
BY DEF ConfirmedIsProven, FactorKept, mfa_is_enrolled

LEMMA StartProven ==
    ASSUME OneRequest, MfaTypeInv, MfaGroundsInv, ConfirmedIsProven, NEW s \in Slots,
           \/ EnrollRead(s) \/ MfaDie(s)
           \/ \E stage \in Stages, code \in Typed : CheckRead(s, stage, code)
    PROVE  MfaGroundsInv' /\ ConfirmedIsProven'
<1>1. UNCHANGED <<factor, proven, backups>>
  BY DEF EnrollRead, MfaDie, CheckRead
<1>2. ConfirmedIsProven'
  BY <1>1 DEF ConfirmedIsProven, mfa_is_enrolled
<1>3. ASSUME EnrollRead(s)  PROVE MfaGrounds(mreq[s])'
  BY <1>3 DEF EnrollRead, MfaStart, NoMfaRequest, MfaTypeInv, MfaRequestsOK, MfaGrounds
<1>4. ASSUME MfaDie(s)  PROVE MfaGrounds(mreq[s])'
  BY <1>4, EndedGrounds DEF MfaDie
<1>5. ASSUME \E stage \in Stages, code \in Typed : CheckRead(s, stage, code)
      PROVE  MfaGrounds(mreq[s])'
  BY <1>5 DEF CheckRead, MfaStart, MfaTypeInv, MfaRequestsOK, MfaGrounds
<1> QED  BY <1>2, <1>3, <1>4, <1>5, OnlyRequest

LEMMA VerifyProven ==
    ASSUME OneRequest, MfaTypeInv, MfaGroundsInv, ConfirmedIsProven, NEW s \in Slots,
           MfaVerify(s) \/ BackupRead(s)
    PROVE  MfaGroundsInv' /\ ConfirmedIsProven'
<1>1. UNCHANGED <<factor, proven, backups>>
  BY DEF MfaVerify, BackupRead
<1>2. ConfirmedIsProven'
  BY <1>1 DEF ConfirmedIsProven, mfa_is_enrolled
<1>3. MfaGrounds(mreq[s])
  BY DEF MfaGroundsInv
<1>4. CASE MfaVerify(s)
  <2>1. \/ MfaGoto(s, "claim") /\ factor.secret # 0 /\ mreq[s].code[1] = factor.secret
        \/ MfaGoto(s, "miss")
        \/ MfaGoto(s, "backup") /\ mreq[s].stage # "setup"
    BY <1>4 DEF MfaVerify, Verifies
  <2> QED  BY <1>1, <1>2, <2>1, MfaGotoFields, OnlyRequest DEF MfaGrounds
<1>5. CASE BackupRead(s)
  <2>1. MfaGoto(s, "claimBackup") \/ MfaGoto(s, "miss")
    BY <1>5 DEF BackupRead
  <2>2. mreq[s].stage # "setup"
    BY <1>3, <1>5 DEF BackupRead, MfaGrounds
  <2> QED  BY <1>1, <1>2, <2>1, <2>2, MfaGotoFields, OnlyRequest DEF MfaGrounds
<1> QED  BY <1>4, <1>5

LEMMA ClaimProven ==
    ASSUME OneRequest, MfaTypeInv, MfaGroundsInv, ConfirmedIsProven, NEW s \in Slots,
           ClaimStep(s) \/ ClaimBackup(s)
    PROVE  MfaGroundsInv' /\ ConfirmedIsProven'
<1>1. MfaGrounds(mreq[s])
  BY DEF MfaGroundsInv
<1>2. /\ factor'.secret = factor.secret /\ factor'.confirmed = factor.confirmed
      /\ factor' \in Factor
  BY ClaimCodeTypes DEF ClaimStep, ClaimBackup, MfaTypeInv, MfaRowsOK, Factor
<1>3. proven \subseteq proven' /\ backups' \subseteq backups
  BY DEF ClaimStep, ClaimBackup, Accept
<1>4. ConfirmedIsProven'
  BY <1>2, <1>3 DEF ConfirmedIsProven, mfa_is_enrolled
<1>5. CASE ClaimStep(s)
  <2>1. \/ MfaGoto(s, "ok") /\ mreq[s].code[1] \in proven'
        \/ MfaGoto(s, "miss")
        \/ MfaGoto(s, "backup") /\ mreq[s].stage # "setup"
    BY <1>5 DEF ClaimStep, Accept
  <2>2. factor.secret # 0 /\ mreq[s].code[1] = factor.secret
    BY <1>1, <1>5 DEF ClaimStep, MfaGrounds
  <2> QED  BY <1>2, <1>4, <2>1, <2>2, MfaGotoFields, OnlyRequest DEF MfaGrounds
<1>6. CASE ClaimBackup(s)
  <2>1. MfaGoto(s, "ok") \/ MfaGoto(s, "miss")
    BY <1>6 DEF ClaimBackup
  <2>2. mreq[s].stage # "setup"
    BY <1>1, <1>6 DEF ClaimBackup, MfaGrounds
  <2> QED  BY <1>4, <2>1, <2>2, MfaGotoFields, OnlyRequest DEF MfaGrounds
<1> QED  BY <1>5, <1>6

LEMMA MissProven ==
    ASSUME OneRequest, MfaTypeInv, MfaGroundsInv, ConfirmedIsProven, NEW s \in Slots,
           Miss(s) \/ CodeOk(s)
    PROVE  MfaGroundsInv' /\ ConfirmedIsProven'
<1>1. FactorKept /\ UNCHANGED <<proven, backups>>
  BY MissKeeps DEF Miss, CodeOk
<1>2. ConfirmedIsProven'
  BY <1>1, ProvenKept
<1>3. MfaGrounds(mreq[s])
  BY DEF MfaGroundsInv
<1>4. \/ MfaEnd(s)
      \/ MfaGoto(s, "confirm") /\ mreq[s].phase = "ok" /\ mreq[s].stage = "setup"
      \/ MfaGoto(s, "delete")
  BY DEF Miss, CodeOk, MfaTypeInv, MfaRequestsOK, MfaRequest, Stages
<1>5. ASSUME MfaGoto(s, "confirm") /\ mreq[s].phase = "ok" /\ mreq[s].stage = "setup"
      PROVE  MfaGrounds(mreq[s])'
  BY <1>1, <1>3, <1>5, MfaGotoFields DEF MfaGrounds, FactorKept
<1>6. ASSUME MfaGoto(s, "delete")  PROVE MfaGrounds(mreq[s])'
  BY <1>6, MfaGotoFields DEF MfaGrounds
<1> QED  BY <1>2, <1>4, <1>5, <1>6, EndedGrounds, OnlyRequest

LEMMA WriteProven ==
    ASSUME OneRequest, MfaTypeInv, MfaGroundsInv, ConfirmedIsProven, NEW s \in Slots,
           EnrollWrite(s) \/ Confirm(s) \/ Disable(s)
    PROVE  MfaGroundsInv' /\ ConfirmedIsProven'
<1>1. MfaGroundsInv'
  BY EndedGrounds, OnlyRequest DEF EnrollWrite, Confirm, Disable
<1>2. MfaGrounds(mreq[s])
  BY DEF MfaGroundsInv
<1>3. CASE EnrollWrite(s)
  \* There was no factor, so there are no backup codes; the new one is not confirmed.
  <2>1. factor.secret = 0 /\ backups = {}
    BY <1>2, <1>3 DEF EnrollWrite, MfaGrounds, ConfirmedIsProven, mfa_is_enrolled
  <2>2. factor'.confirmed = FALSE /\ backups' = {}
    BY <1>3, <2>1 DEF EnrollWrite, NoFactor
  <2> QED  BY <1>1, <2>2 DEF ConfirmedIsProven
<1>4. CASE Confirm(s)
  <2>1. factor.secret # 0 /\ factor.secret \in proven
    BY <1>2, <1>4 DEF Confirm, MfaGrounds
  <2>2. factor'.secret = factor.secret /\ factor'.confirmed = TRUE /\ proven' = proven
    BY <1>4, <2>1, ConfirmRow DEF Confirm
  <2> QED  BY <1>1, <2>1, <2>2 DEF ConfirmedIsProven, mfa_is_enrolled
<1>5. CASE Disable(s)
  <2>1. factor'.confirmed = FALSE /\ backups' = {}
    BY <1>5 DEF Disable, NoFactor, CodesLeft
  <2> QED  BY <1>1, <2>1 DEF ConfirmedIsProven
<1> QED  BY <1>3, <1>4, <1>5

LEMMA MfaTimeProven ==
    ASSUME MfaTypeInv, MfaGroundsInv, ConfirmedIsProven, MfaUnlock \/ TotpTick
    PROVE  MfaGroundsInv' /\ ConfirmedIsProven'
<1>1. FactorKept /\ UNCHANGED <<proven, backups, mreq>>
  BY UnlockKeeps, FactorSame DEF MfaUnlock, TotpTick
<1> QED  BY <1>1, ProvenKept DEF MfaGroundsInv, MfaGrounds, FactorKept

LEMMA MfaStepProven ==
    ASSUME OneRequest, MfaTypeInv, MfaGroundsInv, ConfirmedIsProven, [MfaNext]_mfaVars
    PROVE  MfaGroundsInv' /\ ConfirmedIsProven'
<1>1. CASE MfaNext
  BY <1>1, MfaNextSplit, StartProven, VerifyProven, ClaimProven, MissProven, WriteProven,
     MfaTimeProven, Zenon
<1>2. CASE UNCHANGED mfaVars
  BY <1>2 DEF mfaVars, MfaGroundsInv, MfaGrounds, ConfirmedIsProven, mfa_is_enrolled
<1> QED  BY <1>1, <1>2

\* While requests do not overlap, an enrolment is confirmed only by a code of its own
\* secret, and backup codes exist only beside a confirmed enrolment, whatever dies or is
\* disabled half way (mfa_confirm promotes whatever row it finds).
THEOREM ConfirmedIsProvenCorrect == ASSUME OneRequest PROVE MfaSpec => []ConfirmedIsProven
BY MfaInitTypes, MfaStepTypes, MfaInitProven, MfaStepProven, PTL DEF MfaSpec
===============================================================================
