------------------------------- MODULE Onboarding -------------------------------
(***************************************************************************)
(* Taking a customer on: the plan's limit (billing/limits.py), onboard()   *)
(* of cases/manager.py with its web and mobile callers, and the owner that *)
(* is added to a customer later.                                           *)
(*                                                                         *)
(* onboard() is many transactions: the customer, each screening, each      *)
(* owner and the rating commit one after the other, and a refusal or a     *)
(* crash in between leaves what was committed.                             *)
(***************************************************************************)
EXTENDS Requests, Integers, FiniteSets

CONSTANTS
    Applicants,         \* customer references
    CustomerCap,   \* customers the plan allows
    MaxOwners      \* bound: owners named at onboarding

ASSUME OnboardingAssumption == CustomerCap \in Nat /\ MaxOwners \in Nat

VARIABLES
    client,        \* client[c]: the row of customers, its rating and what was found
    subscription,  \* the plan of the organisation
    onreq          \* onreq[s]: the request in slot s

onboardingVars == <<client, subscription, onreq>>

-------------------------------------------------------------------------------
\* Vocabulary

\* The names of a customer; all its owners count as one.
Names == {"latin", "arabic", "owner"}

\* 'listed' and 'unsearched' are history: a screening of the onboarding raised a
\* sanctions alert; a name had no searchable token and no answer has said so.
Client == [status : {"absent", "active", "closed"}, rating : {"none", "normal", "high"},
           listed : BOOLEAN, unsearched : SUBSET Names, answer : {"none", "refused", "done"}]
NoClient == [status |-> "absent", rating |-> "none", listed |-> FALSE, unsearched |-> {},
             answer |-> "none"]

\* The date is the end of the trial or of the paid period: ahead, within the days of
\* grace after it, or past them.
Subscription == [plan : {"trial", "starter", "retired"},
                 status : {"active", "past_due", "pending_payment"},
                 date : {"none", "ahead", "grace", "over"}]

\* What a screening found: a sanctions hit among others, and the highest score.  A name
\* without searchable tokens finds nothing.
Outcome == {found \in [searched : BOOLEAN, listed : BOOLEAN, score : 0..2] :
                /\ found.listed => found.score > 0
                /\ ~found.searched => found.score = 0}
Clear == [searched |-> TRUE, listed |-> FALSE, score |-> 0]

OnboardingRequest ==
    [phase : {"idle", "insert", "latin", "arabic", "owner", "screenOwner", "rate",
              "reopen", "later", "screenLater"},
     file : Applicants \cup {None}, arabic : BOOLEAN, owners : 0..MaxOwners, self : BOOLEAN,
     kept : Outcome, ownerListed : BOOLEAN, unnamed : SUBSET Names]
NoOnboarding == [phase |-> "idle", file |-> None, arabic |-> FALSE, owners |-> 0, self |-> FALSE,
                 kept |-> Clear, ownerListed |-> FALSE, unnamed |-> {}]

Exists_(c) == client[c].status # "absent"

\* usage: closed relationships do not count.
Counted == {c \in Applicants : client[c].status = "active"}
\* org_state
Legacy(p) == p.plan = "retired" \/ (p.plan = "trial" /\ p.date = "none")
WriteBlocked(p) == p.date = "over" /\ (p.plan = "trial" \/ p.status = "past_due")

\* check_limit, of the plan of a deployment with billing.
check_limit ==
    \/ subscription.status # "pending_payment" /\ Legacy(subscription)
    \/ /\ subscription.status # "pending_payment"
       /\ ~WriteBlocked(subscription)
       /\ Cardinality(Counted) < CustomerCap

-------------------------------------------------------------------------------
OnboardingInit ==
    /\ client = [c \in Applicants |-> NoClient]
    /\ subscription \in Subscription
    /\ onreq = [s \in Slots |-> NoOnboarding]

GoTo(s, r) == onreq' = [onreq EXCEPT ![s] = r]
Finish(s) == GoTo(s, NoOnboarding)
Idle == \E s \in Slots : onreq[s].phase = "idle"

\* Everything that is checked before the first write: fresh lists, the plan, the sum of
\* the stakes and the form of every field.  A refused request changes nothing.
OnboardCheck(s, c, arabic, owners, self) ==
    /\ onreq[s].phase = "idle" /\ check_limit
    /\ GoTo(s, [NoOnboarding EXCEPT !.phase = "insert", !.file = c, !.arabic = arabic,
                                    !.owners = owners, !.self = self])
    /\ UNCHANGED <<client, subscription>>

\* The reference is unique: the loser of two inserts is refused with nothing written.
OnboardInsert(s) ==
    LET c == onreq[s].file IN
    /\ onreq[s].phase = "insert"
    /\ IF Exists_(c) THEN Finish(s) /\ UNCHANGED client
       ELSE /\ client' = [client EXCEPT ![c] = [NoClient EXCEPT !.status = "active"]]
            /\ onreq' = [onreq EXCEPT ![s].phase = "latin"]
    /\ UNCHANGED subscription

\* screen() commits the screening with its alerts.
Unsearched(name, found) == IF found.searched THEN {} ELSE {name}
Screened(c, name, found) ==
    client' = [client EXCEPT ![c].listed = @ \/ found.listed,
                             ![c].unsearched = @ \cup Unsearched(name, found)]

\* Mutation: a name that could not be searched counts as clear.
NeverUnscreenable(name, found) == {}
Unscreenable(name, found) == Unsearched(name, found)

ScreenLatin(s, found) ==
    /\ onreq[s].phase = "latin"
    /\ Screened(onreq[s].file, "latin", found)
    /\ onreq' = [onreq EXCEPT ![s].phase = IF onreq[s].arabic THEN "arabic" ELSE "owner",
                              ![s].kept = found, ![s].unnamed = Unscreenable("latin", found)]
    /\ UNCHANGED subscription

\* Only the script with the stronger hit is kept for the rating.
ScreenArabic(s, found) ==
    /\ onreq[s].phase = "arabic"
    /\ Screened(onreq[s].file, "arabic", found)
    /\ onreq' = [onreq EXCEPT ![s].phase = "owner",
                              ![s].kept = IF found.score > @.score THEN found ELSE @,
                              ![s].unnamed = @ \cup Unscreenable("arabic", found)]
    /\ UNCHANGED subscription

\* add_ubo refuses an owner of the customer's own name: the customer stays, unrated.
OnboardOwner(s) ==
    /\ onreq[s].phase = "owner" /\ onreq[s].owners > 0
    /\ IF onreq[s].self
       THEN /\ client' = [client EXCEPT ![onreq[s].file].answer = "refused"]
            /\ Finish(s)
       ELSE /\ onreq' = [onreq EXCEPT ![s].phase = "screenOwner", ![s].owners = @ - 1]
            /\ UNCHANGED client
    /\ UNCHANGED subscription

ScreenOwner(s, found) ==
    /\ onreq[s].phase = "screenOwner"
    /\ Screened(onreq[s].file, "owner", found)
    /\ onreq' = [onreq EXCEPT ![s].phase = "owner",
                              ![s].unnamed = @ \cup Unscreenable("owner", found),
                              ![s].ownerListed = @ \/ found.listed]
    /\ UNCHANGED subscription

\* The rating (RiskRating) and the answer, which names what could not be searched.
OnboardRate(s, others) ==
    LET r == onreq[s]
        hit == r.kept.listed \/ r.ownerListed
    IN  /\ r.phase = "owner" /\ r.owners = 0
        /\ client' = [client EXCEPT ![r.file].rating = IF hit THEN "high" ELSE others,
                                    ![r.file].answer = "done",
                                    ![r.file].unsearched = @ \ r.unnamed]
        /\ Finish(s)
        /\ UNCHANGED subscription

\* An owner added later is inserted, then screened, and the client is told.
AddOwnerLater(s, c) ==
    /\ onreq[s].phase = "idle" /\ Exists_(c)
    /\ GoTo(s, [NoOnboarding EXCEPT !.phase = "screenLater", !.file = c])
    /\ UNCHANGED <<client, subscription>>

ScreenLater(s, found) ==
    /\ onreq[s].phase = "screenLater"
    /\ client' = [client EXCEPT ![onreq[s].file].unsearched =
           @ \cup (Unsearched("owner", found) \ Unscreenable("owner", found))]
    /\ Finish(s)
    /\ UNCHANGED subscription

\* Retention models the closing; a reactivation is checked against the plan too.
CloseFile(c) ==
    /\ Idle /\ client[c].status = "active"
    /\ client' = [client EXCEPT ![c].status = "closed"]
    /\ UNCHANGED <<subscription, onreq>>

ReopenCheck(s, c) ==
    /\ onreq[s].phase = "idle" /\ client[c].status = "closed" /\ check_limit
    /\ GoTo(s, [NoOnboarding EXCEPT !.phase = "reopen", !.file = c])
    /\ UNCHANGED <<client, subscription>>

Reopen(s) ==
    /\ onreq[s].phase = "reopen"
    /\ client' = [client EXCEPT ![onreq[s].file].status = "active"]
    /\ Finish(s)
    /\ UNCHANGED subscription

\* Billing changes the plan; the date passes.
PlanChanges ==
    /\ Idle
    /\ subscription' \in Subscription
    /\ UNCHANGED <<client, onreq>>

OnboardingDies(s) ==
    /\ onreq[s].phase # "idle"
    /\ Finish(s)
    /\ UNCHANGED <<client, subscription>>

OnboardingStep(s) ==
    \/ \E c \in Applicants :
          \/ AddOwnerLater(s, c) \/ ReopenCheck(s, c)
          \/ \E arabic, self \in BOOLEAN, owners \in 0..MaxOwners :
                OnboardCheck(s, c, arabic, owners, self)
    \/ OnboardInsert(s) \/ OnboardOwner(s) \/ Reopen(s) \/ OnboardingDies(s)
    \/ \E found \in Outcome :
          ScreenLatin(s, found) \/ ScreenArabic(s, found) \/ ScreenOwner(s, found) \/ ScreenLater(s, found)
    \/ \E others \in {"normal", "high"} : OnboardRate(s, others)

OnboardingNext ==
    (\E s \in Slots : OnboardingStep(s)) \/ (\E c \in Applicants : CloseFile(c)) \/ PlanChanges

OnboardingSpec == OnboardingInit /\ [][OnboardingNext]_onboardingVars

-------------------------------------------------------------------------------
\* Properties

\* Types of the rows and of the requests.
OnboardingTypeOK ==
    /\ client \in [Applicants -> Client]
    /\ subscription \in Subscription
    /\ onreq \in [Slots -> OnboardingRequest]

\* An onboarding that was answered as done has rated the customer, and its answer
\* names every name, of either script and of every owner, that could not be searched:
\* silence means that all of them were searched.
DoneIsComplete ==
    \A c \in Applicants : client[c].answer = "done" => client[c].rating # "none" /\ client[c].unsearched = {}

\* "a sanctions hit forces the rating to high regardless of every other factor"
\* (cases/manager.py:351): of a customer whose onboarding was answered as done.
HitIsHigh ==
    \A c \in Applicants : client[c].answer = "done" /\ client[c].listed => client[c].rating = "high"
===============================================================================
