------------------------------ MODULE OneTimeTokens ------------------------------
(***************************************************************************)
(* Everything that may be redeemed once: set-up links, e-mail verification *)
(* links, unlock links and UAE PASS states (auth.py, cases/operators.py,   *)
(* the routes of api/routers/auth.py and api/mobile.py), with the accounts *)
(* they create, verify, unlock or sign in to.                              *)
(*                                                                         *)
(* Redeeming reads the row in autocommit and claims it in the transaction  *)
(* that does the work; two clicks on one link overlap in between.          *)
(***************************************************************************)
EXTENDS Requests, Integers, FiniteSets, FiniteSetsExt

CONSTANTS
    Emails,       \* addresses; one account at most for each
    Identities,   \* UAE PASS identities (uuid)
    MaxLinks      \* bound: tokens ever issued

ASSUME LinksAssumption == MaxLinks \in Nat /\ None \notin Emails /\ None \notin Identities

VARIABLES
    owner,       \* owner[e]: the account of the address
    lockedOut,   \* accounts with locked_until in the future
    identity,    \* identity[e]: uaepass_uuid of the account
    link,        \* link[i]: a token row, numbered in order of issue
    recent,      \* accounts sent a verification link less than 60 seconds ago
    treq,        \* treq[s]: the request in slot s
    done,        \* history: how often the work of each token was done
    admitted     \* history: accounts signed in to through UAE PASS, with the identity

tokenVars == <<owner, lockedOut, identity, link, recent, treq, done, admitted>>

-------------------------------------------------------------------------------
\* Vocabulary

Links == 1..MaxLinks
Kinds == {"setup", "verify", "unlock", "state"}

\* A voided row is a used one that did no work.
Link == [kind : Kinds \cup {None}, email : Emails \cup {None},
         status : {"none", "live", "used", "expired"}]
NoLink == [kind |-> None, email |-> None, status |-> "none"]

TokenRequest == [phase : {"idle", "issue", "claim", "resolve", "bind", "recheck"},
                 kind : Kinds \cup {None}, link : Links \cup {None},
                 email : Emails \cup {None}, uuid : Identities \cup {None}]
NoTokenRequest == [phase |-> "idle", kind |-> None, link |-> None, email |-> None, uuid |-> None]

LiveLinks(kind, e) ==
    {i \in Links : link[i].status = "live" /\ link[i].kind = kind /\ link[i].email = e}

-------------------------------------------------------------------------------
\* The first link is the set-up link of an upgraded deployment.
TokensInit ==
    /\ owner = [e \in Emails |-> "absent"]
    /\ lockedOut = {}
    /\ identity = [e \in Emails |-> None]
    /\ link = [i \in Links |-> IF i = 1 THEN [kind |-> "setup", email |-> None, status |-> "live"]
                               ELSE NoLink]
    /\ recent = {}
    /\ treq = [s \in Slots |-> NoTokenRequest]
    /\ done = [i \in Links |-> 0]
    /\ admitted = {}

TokenStart(s, r) == treq[s].phase = "idle" /\ treq' = [treq EXCEPT ![s] = r]
TokenEnd(s) == treq' = [treq EXCEPT ![s] = NoTokenRequest]

\* register_organization: organisation and MLRO in one transaction, rolled back when
\* the address turns out to be taken; the verification link is issued afterwards.
Register(s, e) ==
    /\ owner[e] = "absent"
    /\ owner' = [owner EXCEPT ![e] = "unverified"]
    /\ TokenStart(s, [NoTokenRequest EXCEPT !.phase = "issue", !.kind = "verify", !.email = e])
    /\ UNCHANGED <<lockedOut, identity, link, recent, done, admitted>>

\* resend_verification: silently nothing within the cool-down.
ResendVerification(s, e) ==
    /\ owner[e] = "unverified" /\ e \notin recent
    /\ TokenStart(s, [NoTokenRequest EXCEPT !.phase = "issue", !.kind = "verify", !.email = e])
    /\ UNCHANGED <<owner, lockedOut, identity, link, recent, done, admitted>>

\* The attempt that locks the account mails a link (_mail_unlock_link).
LockOut(s, e) ==
    /\ owner[e] = "verified" /\ e \notin lockedOut
    /\ lockedOut' = lockedOut \cup {e}
    /\ TokenStart(s, [NoTokenRequest EXCEPT !.phase = "issue", !.kind = "unlock", !.email = e])
    /\ UNCHANGED <<owner, identity, link, recent, done, admitted>>

\* Mutation: an earlier link stays valid beside the new one.
NothingVoided(kind, e) == link
Voided(kind, e) ==
    [i \in Links |-> IF link[i].kind = kind /\ link[i].email = e /\ link[i].status # "none"
                     THEN [link[i] EXCEPT !.status = "used"] ELSE link[i]]

\* create_email_verify_token, create_unlock_token: void and insert in one transaction.
Issue(s) ==
    LET e == treq[s].email
        free == {i \in Links : link[i].status = "none"}
    IN  /\ treq[s].phase = "issue" /\ free # {}
        /\ link' = [Voided(treq[s].kind, e) EXCEPT ![Min(free)] =
               [kind |-> treq[s].kind, email |-> e, status |-> "live"]]
        /\ recent' = IF treq[s].kind = "verify" THEN recent \cup {e} ELSE recent
        /\ TokenEnd(s)
        /\ UNCHANGED <<owner, lockedOut, identity, done, admitted>>

\* create_uaepass_state, for an operator signing in.
IssueState ==
    LET free == {i \in Links : link[i].status = "none"} IN
    /\ free # {}
    /\ link' = [link EXCEPT ![Min(free)] = [kind |-> "state", email |-> None, status |-> "live"]]
    /\ UNCHANGED <<owner, lockedOut, identity, recent, treq, done, admitted>>

\* The checks made in autocommit: unused, unexpired and, for a set-up link, an
\* address that has no account.  A deactivated operator is left to Sessions.
RedeemRead(s, i, e) ==
    /\ link[i].status = "live"
    /\ link[i].email # None => e = link[i].email
    /\ link[i].kind = "setup" => owner[e] = "absent"
    /\ TokenStart(s, [NoTokenRequest EXCEPT !.phase = "claim", !.kind = link[i].kind,
                                            !.link = i, !.email = e])
    /\ UNCHANGED <<owner, lockedOut, identity, link, recent, done, admitted>>

\* UPDATE ... WHERE used_at IS NULL; a token that expired since it was read passes.
\* Mutation: the claim trusts what was read.
UnusedAsRead(i) == link[i].status # "none"
Unused(i) == link[i].status \in {"live", "expired"}

Spend(s, kind, free) ==
    LET i == treq[s].link IN
    /\ treq[s].phase = "claim" /\ treq[s].kind = kind
    /\ IF free THEN link' = [link EXCEPT ![i].status = "used"] /\ done' = [done EXCEPT ![i] = @ + 1]
       ELSE UNCHANGED <<link, done>>

\* complete_initial_setup: the address may be taken by now, and the refused INSERT
\* rolls the claim back.
ClaimSetup(s) ==
    LET free == Unused(treq[s].link) /\ owner[treq[s].email] = "absent" IN
    /\ Spend(s, "setup", free)
    /\ owner' = IF free THEN [owner EXCEPT ![treq[s].email] = "verified"] ELSE owner
    /\ TokenEnd(s)
    /\ UNCHANGED <<lockedOut, identity, recent, admitted>>

\* consume_email_verify_token
ClaimVerify(s) ==
    LET free == Unused(treq[s].link) IN
    /\ Spend(s, "verify", free)
    /\ owner' = IF free THEN [owner EXCEPT ![treq[s].email] = "verified"] ELSE owner
    /\ TokenEnd(s)
    /\ UNCHANGED <<lockedOut, identity, recent, admitted>>

\* consume_unlock_token
ClaimUnlock(s) ==
    LET free == Unused(treq[s].link) IN
    /\ Spend(s, "unlock", free)
    /\ lockedOut' = IF free THEN lockedOut \ {treq[s].email} ELSE lockedOut
    /\ TokenEnd(s)
    /\ UNCHANGED <<owner, identity, recent, admitted>>

\* consume_uaepass_state; then the provider is asked who signed in.
ClaimState(s) ==
    LET free == Unused(treq[s].link) IN
    /\ Spend(s, "state", free)
    /\ IF free THEN treq' = [treq EXCEPT ![s].phase = "resolve"] ELSE TokenEnd(s)
    /\ UNCHANGED <<owner, lockedOut, identity, recent, admitted>>

\* resolve_uaepass_operator: an account already linked to the identity, or a verified
\* account of the same address when the identity is of a tier that proves it.
Admit(s, e, uuid) == admitted' = admitted \cup {<<e, uuid>>} /\ TokenEnd(s)

ResolveLinked(s, uuid) ==
    /\ treq[s].phase = "resolve"
    /\ \E e \in Emails : /\ identity[e] = uuid
                         /\ IF e \in lockedOut THEN TokenEnd(s) /\ UNCHANGED admitted
                            ELSE Admit(s, e, uuid)
    /\ UNCHANGED <<owner, lockedOut, identity, link, recent, done>>

ResolveByEmail(s, uuid) ==
    LET e == treq[s].email IN
    /\ treq[s].phase = "resolve"
    /\ \A f \in Emails : identity[f] # uuid
    /\ IF owner[e] = "verified"
       THEN treq' = [treq EXCEPT ![s].phase = "bind", ![s].uuid = uuid]
       ELSE TokenEnd(s)
    /\ UNCHANGED <<owner, lockedOut, identity, link, recent, done, admitted>>

\* UPDATE ... WHERE uaepass_uuid IS NULL.
\* Mutation: the UPDATE replaces whatever identity is linked.
FreeToBindAlways(e) == TRUE
FreeToBind(e) == identity[e] = None

Bind(s) ==
    LET e == treq[s].email IN
    /\ treq[s].phase = "bind"
    /\ identity' = IF FreeToBind(e) THEN [identity EXCEPT ![e] = treq[s].uuid] ELSE identity
    /\ treq' = [treq EXCEPT ![s].phase = "recheck"]
    /\ UNCHANGED <<owner, lockedOut, link, recent, done, admitted>>

\* Whether the UPDATE won or not, only the identity that is linked now gets in; the
\* password lock is read after it.
Recheck(s) ==
    LET e == treq[s].email IN
    /\ treq[s].phase = "recheck"
    /\ IF identity[e] = treq[s].uuid /\ e \notin lockedOut
       THEN Admit(s, e, treq[s].uuid)
       ELSE TokenEnd(s) /\ UNCHANGED admitted
    /\ UNCHANGED <<owner, lockedOut, identity, link, recent, done>>

TokenElapse ==
    /\ \/ \E i \in Links : /\ link[i].status = "live"
                           /\ link' = [link EXCEPT ![i].status = "expired"]
                           /\ UNCHANGED <<recent, lockedOut>>
       \/ \E e \in recent : recent' = recent \ {e} /\ UNCHANGED <<link, lockedOut>>
       \/ \E e \in lockedOut : lockedOut' = lockedOut \ {e} /\ UNCHANGED <<link, recent>>
    /\ UNCHANGED <<owner, identity, treq, done, admitted>>

TokenDie(s) ==
    /\ treq[s].phase # "idle"
    /\ TokenEnd(s)
    /\ UNCHANGED <<owner, lockedOut, identity, link, recent, done, admitted>>

-------------------------------------------------------------------------------
\* The routes: each looks a link of its kind up and redeems it.

Redeem(s, kind) ==
    \E i \in Links, e \in Emails : link[i].kind = kind /\ RedeemRead(s, i, e)

setup_submit(s) == Redeem(s, "setup") \/ ClaimSetup(s)
verify_email(s) == Redeem(s, "verify") \/ ClaimVerify(s)
self_unlock(s) == Redeem(s, "unlock") \/ ClaimUnlock(s)

uaepass_operator_callback(s) ==
    \/ Redeem(s, "state") \/ ClaimState(s)
    \/ \E uuid \in Identities : ResolveLinked(s, uuid) \/ ResolveByEmail(s, uuid)
    \/ Bind(s) \/ Recheck(s)

TokenStep(s) ==
    \/ \E e \in Emails : Register(s, e) \/ ResendVerification(s, e) \/ LockOut(s, e)
    \/ Issue(s)
    \/ setup_submit(s) \/ verify_email(s) \/ self_unlock(s)
    \/ uaepass_operator_callback(s)
    \/ TokenDie(s)

TokensNext == (\E s \in Slots : TokenStep(s)) \/ IssueState \/ TokenElapse

TokensSpec == TokensInit /\ [][TokensNext]_tokenVars

-------------------------------------------------------------------------------
\* Properties

\* Types of the rows, the requests and the histories.
TokensTypeOK ==
    /\ owner \in [Emails -> {"absent", "unverified", "verified"}]
    /\ lockedOut \subseteq Emails /\ recent \subseteq Emails
    /\ identity \in [Emails -> Identities \cup {None}]
    /\ link \in [Links -> Link]
    /\ treq \in [Slots -> TokenRequest]
    /\ done \in [Links -> Nat]
    /\ admitted \subseteq Emails \X Identities

\* However redemptions overlap or die, a token does its work at most once, and a
\* set-up link or a state is spent exactly when it did: a set-up whose account cannot
\* be created leaves the link usable.
SpentOnceByWork ==
    \A i \in Links :
        /\ done[i] <= 1
        /\ done[i] = 1 => link[i].status = "used"
        /\ link[i].status = "used" /\ link[i].kind \in {"setup", "state"} => done[i] = 1

\* However requests for a new link overlap, an account has one live verification link
\* and one live unlock link at most.
OneLiveLink ==
    \A e \in Emails : \A kind \in {"verify", "unlock"} : Cardinality(LiveLinks(kind, e)) <= 1

\* However first sign-ins overlap, whoever was let in through UAE PASS came with the
\* one identity linked to the account, and the link of an account never changes.
AdmittedIsLinked == \A p \in admitted : identity[p[1]] = p[2]
===============================================================================
