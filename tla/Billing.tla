--------------------------------- MODULE Billing ---------------------------------
(***************************************************************************)
(* Subscriptions of one organisation: the checkout route (api/billing.py)  *)
(* and the webhook that applies Stripe's events (billing/service.py).      *)
(*                                                                         *)
(* Stripe is outside: it keeps the subscriptions, and delivers each event  *)
(* in any order, more than once, two copies at a time, and again after a   *)
(* refusal, until it is answered with success.  handle_event looks the     *)
(* event up in autocommit; from its INSERT on it is one transaction.       *)
(***************************************************************************)
EXTENDS Requests, Integers, Sequences, FiniteSets

CONSTANTS
    Subs,         \* subscriptions a checkout may open
    Tiers,        \* plans with a price
    MaxEvents,    \* bound: events sent
    MaxTime       \* bound: seconds

ASSUME BillingAssumption ==
    MaxEvents \in Nat /\ MaxTime \in Nat \ {0} /\ IsFiniteSet(Subs) /\ None \notin Subs

VARIABLES
    org,        \* the billing columns of organizations
    sub,        \* sub[k]: Stripe's subscription k
    sent,       \* events, in the order they came about
    inbox,      \* inbox[e]: the row of billing_events: "none", "processed" or "stored"
    breq,       \* breq[s]: the webhook request in slot s
    processed,  \* history: how often each event was processed for the organisation
    seconds     \* the clock

billingVars == <<org, sub, sent, inbox, breq, processed, seconds>>

-------------------------------------------------------------------------------
\* Vocabulary

\* _STATUS_MAP folds Stripe's statuses into these.
LiveStatuses == {"trialing", "active", "past_due"}
Lapsed == {"past_due", "unpaid"}
\* 'held' is billing_subscription_id, 'customer' billing_customer_id, 'last'
\* billing_last_event_created.  A customer is named after its first subscription.
Organization == [plan : Tiers \cup {"none"}, held : Subs \cup {None},
                 customer : Subs \cup {None}, last : 0..MaxTime,
                 status : LiveStatuses \cup {"pending_payment", "unpaid", "canceled"}]

Events == 1..MaxEvents
SubscriptionTypes == {"created", "updated", "deleted"}
Invoices == {"failed", "paid"}
Event == [type : SubscriptionTypes \cup Invoices \cup {"checkout"}, sub : Subs,
          status : LiveStatuses \cup {"unpaid", "canceled"}, tier : Tiers, created : 1..MaxTime]

NoWebhook == [phase |-> "idle", event |-> None]

\* _find_org: checkout and subscription events carry the id of the organisation, an
\* invoice only a customer and a subscription, one of which must be known by then.
Attributed(event) ==
    event.type \in Invoices =>
        org.customer = sub[event.sub].customer \/ org.held = event.sub

\* An event older than the newest applied one.  Mutation: the comparison is left out.
NeverStale(created) == FALSE
Stale(created) == created < org.last

Superseded(event) == event.type # "created" /\ org.held \notin {None, event.sub}

\* _process: checkout.session.completed ...
CheckoutCompleted(event) ==
    [org EXCEPT !.held = event.sub, !.customer = sub[event.sub].customer,
                !.plan = IF org.status = "pending_payment" THEN event.tier ELSE @,
                !.status = IF @ = "pending_payment" THEN "trialing" ELSE @]

\* ... apply_subscription, which finds a plan in the metadata that the checkout left with
\* the subscription where the price is unknown; its table has every status of Stripe ...
SubscriptionChanged(event) ==
    IF Stale(event.created) \/ Superseded(event) THEN org
    ELSE [plan |-> event.tier, held |-> event.sub, customer |-> sub[event.sub].customer,
          last |-> event.created,
          status |-> IF event.type = "deleted" THEN "canceled" ELSE event.status]

\* ... and the invoices, which are applied in whatever order they come.
Processed(event) ==
    CASE event.type = "checkout" -> CheckoutCompleted(event)
      [] event.type \in SubscriptionTypes -> SubscriptionChanged(event)
      [] event.type = "failed" -> [org EXCEPT !.status = "past_due"]
      [] event.type = "paid" -> [org EXCEPT !.status = IF @ \in Lapsed THEN "active" ELSE @]

-------------------------------------------------------------------------------
BillingInit ==
    /\ org = [plan |-> "none", status |-> "pending_payment", held |-> None,
              customer |-> None, last |-> 0]
    /\ sub = [k \in Subs |-> [status |-> "none", customer |-> None]]
    /\ sent = <<>>
    /\ inbox = [e \in Events |-> "none"]
    /\ breq = [s \in Slots |-> NoWebhook]
    /\ processed = [e \in Events |-> 0]
    /\ seconds = 1

\* Stripe's side of a change of subscription k: one event of each type.
Send(k, status, tier, types) ==
    /\ Len(sent) + Len(types) <= MaxEvents
    /\ sub' = [sub EXCEPT ![k].status = status]
    /\ sent' = sent \o [i \in DOMAIN types |-> [type |-> types[i], sub |-> k, status |-> status,
                                               tier |-> tier, created |-> seconds]]
    /\ UNCHANGED <<org, inbox, breq, processed, seconds>>

\* billing_checkout refuses an organisation that it knows to have a subscription.
Checkout(k) ==
    /\ sub[k].status = "none"
    /\ ~(org.held # None /\ org.status \in LiveStatuses)
    /\ sub' = [sub EXCEPT ![k] = [status |-> "offered", customer |->
           IF org.customer = None THEN k ELSE org.customer]]
    /\ UNCHANGED <<org, sent, inbox, breq, processed, seconds>>

\* An incomplete first payment counts as past_due; "active" stands for a trial too.
Pay(k, tier, status) ==
    sub[k].status = "offered" /\ Send(k, status, tier, <<"checkout", "created">>)

ChangeTier(k, tier) == sub[k].status = "active" /\ Send(k, "active", tier, <<"updated">>)

Charge(k, tier) ==
    \/ sub[k].status = "active" /\ Send(k, "past_due", tier, <<"failed", "updated">>)
    \/ sub[k].status = "past_due" /\ Send(k, "active", tier, <<"paid", "updated">>)
    \/ sub[k].status = "past_due" /\ Send(k, "unpaid", tier, <<"updated">>)

Cancel(k, tier) ==
    /\ sub[k].status \in LiveStatuses \cup {"unpaid"}
    /\ Send(k, "canceled", tier, <<"deleted">>)

SecondPasses ==
    /\ seconds < MaxTime
    /\ seconds' = seconds + 1
    /\ UNCHANGED <<org, sub, sent, inbox, breq, processed>>

\* billing_webhook, handle_event: an event with a row is answered as a duplicate.
Deliver(s, e) ==
    /\ breq[s].phase = "idle" /\ inbox[e] = "none"
    /\ breq' = [breq EXCEPT ![s] = [phase |-> "insert", event |-> e]]
    /\ UNCHANGED <<org, sub, sent, inbox, processed, seconds>>

\* The INSERT meets the unique stripe_event_id of a copy that was quicker.
\* Mutation: the collision is ignored.
NeverTaken(e) == FALSE
Taken(e) == inbox[e] # "none"

\* An event of nobody known is stored and answered with success like the others, so
\* Stripe does not send it again: what it says is never applied.
HandleEvent(s) ==
    LET e == breq[s].event IN
    /\ breq[s].phase = "insert"
    /\ breq' = [breq EXCEPT ![s] = NoWebhook]
    /\ \/ Taken(e) /\ UNCHANGED <<org, inbox, processed>>
       \/ /\ ~Taken(e) /\ Attributed(sent[e])
          /\ org' = Processed(sent[e])
          /\ inbox' = [inbox EXCEPT ![e] = "processed"]
          /\ processed' = [processed EXCEPT ![e] = @ + 1]
       \/ /\ ~Taken(e) /\ ~Attributed(sent[e])
          /\ inbox' = [inbox EXCEPT ![e] = "stored"]
          /\ UNCHANGED <<org, processed>>
    /\ UNCHANGED <<sub, sent, seconds>>

\* An exception rolls the inbox row back too, as does a crash.
\* Mutation: the event is filed as processed before it is applied.
FiledFirst(e) == "processed"
RolledBack(e) == inbox[e]

Fail(s) ==
    /\ breq[s].phase = "insert"
    /\ inbox' = [inbox EXCEPT ![breq[s].event] = RolledBack(breq[s].event)]
    /\ breq' = [breq EXCEPT ![s] = NoWebhook]
    /\ UNCHANGED <<org, sub, sent, processed, seconds>>

BillingNext ==
    \/ SecondPasses
    \/ \E k \in Subs : \/ Checkout(k)
                       \/ \E tier \in Tiers : \/ \E status \in {"active", "past_due"} : Pay(k, tier, status)
                                              \/ ChangeTier(k, tier)
                                              \/ Charge(k, tier) \/ Cancel(k, tier)
    \/ \E s \in Slots : \/ HandleEvent(s) \/ Fail(s)
                        \/ \E e \in 1..Len(sent) : Deliver(s, e)

BillingSpec == BillingInit /\ [][BillingNext]_billingVars

\* Stripe delivers again what was not answered with success, and of the attempts not
\* every one fails.
BillingFair ==
    \A e \in Events :
        /\ SF_billingVars(e <= Len(sent) /\ \E s \in Slots : Deliver(s, e))
        /\ SF_billingVars(\E s \in Slots : breq[s].event = e /\ HandleEvent(s))

-------------------------------------------------------------------------------
\* Properties

\* However its copies overlap, fail and are repeated, an event is processed at most once,
\* and filed as processed exactly when it was.  (A change that is stale or of a superseded
\* subscription is processed by leaving the organisation as it is.)
ProcessedOnce ==
    \A e \in Events : processed[e] = IF inbox[e] = "processed" THEN 1 ELSE 0

Opened == {k \in Subs : sub[k].status # "none"}
AppliedChanges == {e \in 1..Len(sent) : inbox[e] = "processed" /\ sent[e].type \in SubscriptionTypes}

\* In whatever order they are delivered, once a change of the only subscription has
\* been processed, plan and status are those of the newest such change, or of one of
\* the same second; only an invoice may have altered the status since.
NewestChangeWins ==
    Cardinality(Opened) = 1 /\ AppliedChanges # {} =>
        \E e \in AppliedChanges :
            /\ \A f \in AppliedChanges : sent[f].created <= sent[e].created
            /\ org.plan = sent[e].tier
            /\ \/ org.status = sent[e].status
               \/ \E i \in 1..Len(sent) : inbox[i] = "processed" /\ sent[i].type \in Invoices

\* Whenever Stripe falls silent (MaxEvents), every checkout and every change of a
\* subscription that it has sent is processed in the end, through failures, crashes and
\* duplicates.  An invoice is processed too, or it came when the organisation knew neither
\* its customer nor its subscription: then it is stored, acknowledged, and without effect.
EveryEventIsProcessed ==
    <>[](\A e \in 1..Len(sent) :
            processed[e] > 0 \/ (inbox[e] = "stored" /\ sent[e].type \in Invoices))
===============================================================================
