----------------------------- MODULE BillingProofs -----------------------------
(***************************************************************************)
(* Proofs about Billing for any subscriptions, plans, events and           *)
(* deliveries at a time: an event is processed once, and the newest change   *)
(* of the only subscription wins in whatever order changes are delivered.  *)
(***************************************************************************)
EXTENDS Billing, FiniteSetTheorems, TLAPS

USE BillingAssumption

-------------------------------------------------------------------------------
\* The inductive invariant

Subscription == [status : LiveStatuses \cup {"none", "offered", "unpaid", "canceled"},
                 customer : Subs \cup {None}]

StripeOK ==
    /\ sub \in [Subs -> Subscription]
    /\ sent \in Seq(Event) /\ Len(sent) <= MaxEvents
    /\ seconds \in 1..MaxTime

TablesOK ==
    /\ org \in Organization
    /\ inbox \in [Events -> {"none", "processed", "stored"}]
    /\ processed \in [Events -> Nat]

WebhooksOK ==
    /\ breq \in [Slots -> [phase : {"idle", "insert"}, event : Events \cup {None}]]
    /\ \A s \in Slots : breq[s].phase = "insert" => breq[s].event \in 1..Len(sent)

TypeInv == StripeOK /\ TablesOK /\ WebhooksOK

\* What is sent is about an opened subscription and carries a second that has come;
\* what is processed was sent; what the organisation holds is open.
SourceInv ==
    /\ \A e \in 1..Len(sent) :
          /\ sent[e].sub \in Opened
          /\ sent[e].created <= seconds
          /\ sent[e].type = "deleted" => sent[e].status = "canceled"
    /\ \A e \in Events : inbox[e] = "processed" => e <= Len(sent)
    /\ org.held # None => org.held \in Opened

\* No two subscriptions have been opened.
Single == \A j, k \in Opened : j = k

InvoiceApplied ==
    \E i \in 1..Len(sent) : inbox[i] = "processed" /\ sent[i].type \in Invoices

\* The organisation shows change e, which none of the applied ones is newer than.
Shows(e) ==
    /\ \A f \in AppliedChanges : sent[f].created <= sent[e].created
    /\ org.last = sent[e].created
    /\ org.plan = sent[e].tier
    /\ org.status = sent[e].status \/ InvoiceApplied

\* NewestChangeWins, and what makes it inductive: billing_last_event_created is the
\* second of the newest applied change, and a checkout that comes after a change finds
\* the payment no longer pending.
NewestInv ==
    Single => IF AppliedChanges = {} THEN org.last = 0
              ELSE org.status # "pending_payment" /\ \E e \in AppliedChanges : Shows(e)

BillingInv == TypeInv /\ SourceInv /\ ProcessedOnce /\ NewestInv

-------------------------------------------------------------------------------
LEMMA InitInv == BillingInit => BillingInv
<1> SUFFICES ASSUME BillingInit PROVE BillingInv OBVIOUS
<1>1. TypeInv
  BY DEF BillingInit, TypeInv, StripeOK, TablesOK, WebhooksOK, Subscription, Organization,
     Events, NoWebhook
<1>2. SourceInv
  BY DEF BillingInit, SourceInv, Events
<1>3. ProcessedOnce
  BY DEF BillingInit, ProcessedOnce, Events
<1>4. NewestInv
  BY DEF BillingInit, NewestInv, AppliedChanges
<1> QED BY <1>1, <1>2, <1>3, <1>4 DEF BillingInv
-------------------------------------------------------------------------------
\* What Stripe sends

EventTypes == SubscriptionTypes \cup Invoices \cup {"checkout"}

\* sent is only appended to, and what is new is about subscription k.
Sends(k) ==
    /\ k \in Subs /\ sub[k].status # "none"
    /\ sub' \in [Subs -> Subscription]
    /\ \A j \in Subs : sub'[j].status = "none" <=> sub[j].status = "none"
    /\ sent' \in Seq(Event) /\ Len(sent') <= MaxEvents /\ Len(sent) <= Len(sent')
    /\ \A i \in 1..Len(sent) : sent'[i] = sent[i]
    /\ \A i \in (Len(sent) + 1)..Len(sent') :
          /\ sent'[i].sub = k /\ sent'[i].created = seconds
          /\ sent'[i].type = "deleted" => sent'[i].status = "canceled"
    /\ UNCHANGED <<org, inbox, breq, processed, seconds>>

LEMMA Appended ==
  ASSUME NEW s \in Seq(Event), NEW t \in Seq(Event)
  PROVE  /\ s \o t \in Seq(Event) /\ Len(s \o t) = Len(s) + Len(t)
         /\ \A i \in 1..Len(s) : (s \o t)[i] = s[i]
         /\ \A i \in (Len(s) + 1)..Len(s \o t) : (s \o t)[i] = t[i - Len(s)]
OBVIOUS

LEMMA SendSends ==
  ASSUME TypeInv, NEW k \in Subs, NEW tier \in Tiers, sub[k].status # "none",
         NEW status \in LiveStatuses \cup {"unpaid", "canceled"},
         NEW types \in Seq(EventTypes),
         \A i \in DOMAIN types : types[i] = "deleted" => status = "canceled",
         Send(k, status, tier, types)
  PROVE  Sends(k)
<1> DEFINE event(type) == [type |-> type, sub |-> k, status |-> status,
                           tier |-> tier, created |-> seconds]
           new == [i \in DOMAIN types |-> event(types[i])]
<1>1. \A type \in EventTypes : event(type) \in Event
  BY DEF Event, EventTypes, SubscriptionTypes, Invoices, TypeInv, StripeOK
<1>2. new \in Seq(Event) /\ Len(new) = Len(types) /\ \A i \in 1..Len(types) : new[i] = event(types[i])
  <2>1. DOMAIN types = 1..Len(types) /\ Len(types) \in Nat OBVIOUS
  <2>2. \A i \in 1..Len(types) : event(types[i]) \in Event BY <1>1
  <2> HIDE DEF event
  <2>3. new \in [1..Len(types) -> Event] BY <2>1, <2>2
  <2> QED BY <2>1, <2>3
<1>3. sent' = sent \o new /\ Len(sent) + Len(types) <= MaxEvents
  BY DEF Send
<1>4. sent \in Seq(Event) BY DEF TypeInv, StripeOK
<1>5. /\ sent' \in Seq(Event) /\ Len(sent') = Len(sent) + Len(types)
      /\ \A i \in 1..Len(sent) : sent'[i] = sent[i]
      /\ \A i \in (Len(sent) + 1)..Len(sent') : sent'[i] = new[i - Len(sent)]
  <2>1. new \in Seq(Event) /\ Len(new) = Len(types) BY <1>2
  <2>2. sent' = sent \o new BY <1>3
  <2> HIDE DEF new
  <2>3. /\ sent \o new \in Seq(Event) /\ Len(sent \o new) = Len(sent) + Len(new)
        /\ \A i \in 1..Len(sent) : (sent \o new)[i] = sent[i]
        /\ \A i \in (Len(sent) + 1)..Len(sent \o new) : (sent \o new)[i] = new[i - Len(sent)]
    BY <1>4, <2>1, Appended
  <2> QED BY <2>1, <2>2, <2>3
<1>6. \A i \in (Len(sent) + 1)..Len(sent') :
          /\ sent'[i].sub = k /\ sent'[i].created = seconds
          /\ sent'[i].type = "deleted" => sent'[i].status = "canceled"
  <2> SUFFICES ASSUME NEW i \in (Len(sent) + 1)..Len(sent')
      PROVE /\ sent'[i].sub = k /\ sent'[i].created = seconds
            /\ sent'[i].type = "deleted" => sent'[i].status = "canceled"
    OBVIOUS
  <2>1. i - Len(sent) \in 1..Len(types) BY <1>4, <1>5
  <2>2. sent'[i] = event(types[i - Len(sent)]) BY <1>2, <1>5, <2>1
  <2>3. i - Len(sent) \in DOMAIN types BY <2>1
  <2> QED BY <2>2, <2>3
<1>7. /\ sub' \in [Subs -> Subscription]
      /\ \A j \in Subs : sub'[j].status = "none" <=> sub[j].status = "none"
  BY DEF Send, TypeInv, StripeOK, Subscription, LiveStatuses
<1> QED BY <1>3, <1>4, <1>5, <1>6, <1>7 DEF Sends, Send

\* The types of the events sent together; a deletion is announced alone.
LEMMA SentTogether ==
  \A types \in {<<"checkout", "created">>, <<"failed", "updated">>, <<"paid", "updated">>,
                <<"updated">>} :
     types \in Seq(EventTypes) /\ \A i \in DOMAIN types : types[i] # "deleted"
<1> DEFINE Kept == EventTypes \ {"deleted"}
<1>1. /\ <<"checkout", "created">> \in Seq(Kept) /\ <<"failed", "updated">> \in Seq(Kept)
      /\ <<"paid", "updated">> \in Seq(Kept) /\ <<"updated">> \in Seq(Kept)
  BY DEF EventTypes, SubscriptionTypes, Invoices
<1>2. \A types \in Seq(Kept) : types \in Seq(EventTypes) /\ \A i \in DOMAIN types : types[i] # "deleted"
  OBVIOUS
<1> QED BY <1>1, <1>2

LEMMA StatusesSent == {"active", "past_due", "unpaid"} \subseteq LiveStatuses \cup {"unpaid", "canceled"}
BY DEF LiveStatuses

\* Every step of Stripe that sends sends as above.
LEMMA StripeSends ==
  ASSUME TypeInv, NEW k \in Subs, NEW tier \in Tiers,
         \/ \E status \in {"active", "past_due"} : Pay(k, tier, status)
         \/ ChangeTier(k, tier) \/ Charge(k, tier) \/ Cancel(k, tier)
  PROVE  Sends(k)
<1>1. ASSUME NEW status \in {"active", "past_due", "unpaid"}, sub[k].status # "none",
             NEW types \in {<<"checkout", "created">>, <<"failed", "updated">>,
                            <<"paid", "updated">>, <<"updated">>},
             Send(k, status, tier, types)
      PROVE  Sends(k)
  BY <1>1, SentTogether, StatusesSent, SendSends
<1>2. ASSUME NEW status \in {"active", "past_due"}, Pay(k, tier, status) PROVE Sends(k)
  <2>1. sub[k].status # "none" /\ Send(k, status, tier, <<"checkout", "created">>)
    BY <1>2 DEF Pay
  <2> HIDE DEF Send
  <2> QED BY <1>1, <2>1
<1>3. CASE ChangeTier(k, tier)
  BY <1>1, <1>3 DEF ChangeTier
<1>4. CASE Charge(k, tier)
  BY <1>1, <1>4 DEF Charge
<1>5. CASE Cancel(k, tier)
  <2>1. <<"deleted">> \in Seq(EventTypes) BY DEF EventTypes, SubscriptionTypes, Invoices
  <2>2. sub[k].status # "none" /\ Send(k, "canceled", tier, <<"deleted">>)
    BY <1>5 DEF Cancel, LiveStatuses
  <2>3. "canceled" \in LiveStatuses \cup {"unpaid", "canceled"} OBVIOUS
  <2> QED BY <2>1, <2>2, <2>3, SendSends
<1> QED BY <1>2, <1>3, <1>4, <1>5

\* What was applied before stays what it is, so the organisation still shows it.
LEMMA SendsInv ==
  ASSUME BillingInv, NEW k \in Subs, Sends(k)
  PROVE  BillingInv'
<1> USE DEF BillingInv
<1>1. Opened' = Opened
  BY DEF Sends, Opened
<1>2. TypeInv'
  <2>1. StripeOK' BY DEF Sends, TypeInv, StripeOK
  <2>2. TablesOK' BY DEF Sends, TypeInv, TablesOK
  <2>3. WebhooksOK'
    BY DEF Sends, TypeInv, StripeOK, WebhooksOK
  <2> QED BY <2>1, <2>2, <2>3 DEF TypeInv
<1>3. SourceInv'
  <2>1. ASSUME NEW e \in 1..Len(sent')
        PROVE  /\ sent'[e].sub \in Opened
               /\ sent'[e].created <= seconds
               /\ sent'[e].type = "deleted" => sent'[e].status = "canceled"
    <3>1. CASE e \in 1..Len(sent) BY <3>1 DEF Sends, SourceInv
    <3>2. CASE e \in (Len(sent) + 1)..Len(sent')
      BY <3>2 DEF Sends, Opened, TypeInv, StripeOK
    <3> QED BY <2>1, <3>1, <3>2 DEF Sends, TypeInv, StripeOK
  <2>2. \A e \in Events : inbox'[e] = "processed" => e <= Len(sent')
    BY DEF Sends, SourceInv, TypeInv, StripeOK, Events
  <2>3. org'.held # None => org'.held \in Opened BY DEF Sends, SourceInv
  <2> QED BY <1>1, <2>1, <2>2, <2>3 DEF SourceInv, Sends
<1>4. ProcessedOnce' BY DEF Sends, ProcessedOnce
<1>5. NewestInv'
  <2>1. AppliedChanges' = AppliedChanges
    BY DEF Sends, AppliedChanges, SourceInv, TypeInv, StripeOK, Events
  <2>2. \A e \in AppliedChanges : sent'[e] = sent[e]
    BY DEF Sends, AppliedChanges
  <2>3. InvoiceApplied => InvoiceApplied'
    BY DEF Sends, InvoiceApplied, TypeInv, StripeOK
  <2>4. \A e \in AppliedChanges : Shows(e) => Shows(e)'
    BY <2>1, <2>2, <2>3 DEF Shows, Sends
  <2> QED BY <1>1, <2>1, <2>4 DEF NewestInv, Single, Sends
<1> QED BY <1>2, <1>3, <1>4, <1>5

-------------------------------------------------------------------------------
LEMMA SentType ==
  ASSUME TypeInv
  PROVE  \A e \in 1..Len(sent) : sent[e] \in Event /\ sent[e].created \in Nat \ {0}
<1>1. \A e \in 1..Len(sent) : sent[e] \in Event BY DEF TypeInv, StripeOK
<1>2. \A event \in Event : event.created \in 1..MaxTime BY DEF Event
<1>3. \A second \in 1..MaxTime : second \in Nat \ {0} OBVIOUS
<1> QED BY <1>1, <1>2, <1>3

\* The steps that apply nothing

LEMMA CheckoutInv ==
  ASSUME BillingInv, NEW k \in Subs, Checkout(k)
  PROVE  BillingInv'
<1> USE DEF BillingInv
<1>1. /\ sub' \in [Subs -> Subscription]
      /\ \A j \in Subs : sub[j].status # "none" => sub'[j].status # "none"
      /\ UNCHANGED <<org, sent, inbox, breq, processed, seconds>>
  BY DEF Checkout, TypeInv, StripeOK, TablesOK, Organization, Subscription
<1>2. Opened \subseteq Opened'
  BY <1>1 DEF Opened
<1>3. AppliedChanges' = AppliedChanges /\ (Single' => Single)
  BY <1>1, <1>2 DEF AppliedChanges, Single
<1>4. TypeInv'
  BY <1>1 DEF TypeInv, StripeOK, TablesOK, WebhooksOK
<1>5. SourceInv'
  BY <1>1, <1>2 DEF SourceInv
<1>6. ProcessedOnce'
  BY <1>1 DEF ProcessedOnce
<1>7. NewestInv'
  BY <1>1, <1>3 DEF NewestInv, Shows, InvoiceApplied
<1> QED BY <1>4, <1>5, <1>6, <1>7

\* The steps of the clock and of the webhook up to its INSERT, its failures, and the
\* steps that find a quicker copy or nobody whom the event is about.
Applying(s) == ~Taken(breq[s].event) /\ Attributed(sent[breq[s].event])
Idles == \/ SecondPasses
         \/ \E s \in Slots : \/ \E e \in 1..Len(sent) : Deliver(s, e)
                             \/ Fail(s)
                             \/ HandleEvent(s) /\ ~Applying(s)

LEMMA IdleInv ==
  ASSUME BillingInv, Idles
  PROVE  BillingInv'
<1> USE DEF BillingInv
<1>1. /\ UNCHANGED <<org, sub, sent, processed>>
      /\ seconds \in 1..MaxTime /\ seconds' \in 1..MaxTime /\ seconds <= seconds'
  BY DEF Idles, Applying, SecondPasses, Deliver, Fail, HandleEvent, TypeInv, StripeOK
<1>2. /\ inbox' \in [Events -> {"none", "processed", "stored"}]
      /\ \A e \in Events : inbox'[e] = "processed" <=> inbox[e] = "processed"
  <2>1. ASSUME NEW s \in Slots, HandleEvent(s), ~Taken(breq[s].event), ~Attributed(sent[breq[s].event])
        PROVE  inbox[breq[s].event] = "none" /\ inbox' = [inbox EXCEPT ![breq[s].event] = "stored"]
    BY <2>1 DEF HandleEvent, Taken
  <2>2. \/ inbox' = inbox
        \/ \E e : inbox[e] = "none" /\ inbox' = [inbox EXCEPT ![e] = "stored"]
    BY <2>1 DEF Idles, Applying, SecondPasses, Deliver, Fail, HandleEvent, RolledBack, TypeInv, TablesOK
  <2> QED BY <2>2 DEF TypeInv, TablesOK
<1>8. 1..Len(sent) \subseteq Events
  BY DEF TypeInv, StripeOK, Events
<1>3. WebhooksOK'
  <2>1. CASE SecondPasses BY <2>1 DEF SecondPasses, TypeInv, WebhooksOK
  <2>2. ASSUME NEW s \in Slots, NEW e \in 1..Len(sent), Deliver(s, e) PROVE WebhooksOK'
    <3>1. e \in Events BY DEF TypeInv, StripeOK, Events
    <3> QED BY <2>2, <3>1 DEF Deliver, TypeInv, WebhooksOK
  <2>3. ASSUME NEW s \in Slots, breq' = [breq EXCEPT ![s] = NoWebhook] PROVE WebhooksOK'
    BY <1>1, <2>3 DEF NoWebhook, TypeInv, WebhooksOK
  <2> QED BY <2>1, <2>2, <2>3 DEF Idles, Fail, HandleEvent
<1>4. TypeInv'
  BY <1>1, <1>2, <1>3 DEF TypeInv, StripeOK, TablesOK
<1>5. SourceInv'
  <2>1. \A e \in 1..Len(sent) : sent[e].created <= seconds'
    BY <1>1, SentType DEF SourceInv
  <2> QED BY <1>1, <1>2, <2>1 DEF SourceInv, Opened
<1>6. ProcessedOnce'
  BY <1>1, <1>2 DEF ProcessedOnce
<1>7. NewestInv'
  <2>1. AppliedChanges' = AppliedChanges /\ (InvoiceApplied' <=> InvoiceApplied)
    BY <1>1, <1>2, <1>8 DEF AppliedChanges, InvoiceApplied
  <2> QED BY <1>1, <2>1 DEF NewestInv, Single, Opened, Shows
<1> QED BY <1>4, <1>5, <1>6, <1>7
-------------------------------------------------------------------------------
\* The step that applies an event

\* The transaction of event e.
Applies(e) ==
    /\ inbox[e] = "none"
    /\ org' = Processed(sent[e])
    /\ inbox' = [inbox EXCEPT ![e] = "processed"]
    /\ processed' = [processed EXCEPT ![e] = @ + 1]
    /\ UNCHANGED <<sub, sent, seconds>>

LEMMA ProcessedType ==
  ASSUME TypeInv, NEW event \in Event
  PROVE  Processed(event) \in Organization
<1>1. sub[event.sub].customer \in Subs \cup {None} /\ org \in Organization
  BY DEF TypeInv, StripeOK, TablesOK, Subscription, Event
<1>2. CheckoutCompleted(event) \in Organization
  BY <1>1 DEF CheckoutCompleted, Organization, Event, LiveStatuses
<1>3. SubscriptionChanged(event) \in Organization
  BY <1>1 DEF SubscriptionChanged, Organization, Event, LiveStatuses
<1>4. /\ [org EXCEPT !.status = "past_due"] \in Organization
      /\ [org EXCEPT !.status = IF @ \in Lapsed THEN "active" ELSE @] \in Organization
  BY <1>1 DEF Organization, LiveStatuses
<1>5. event.type \in SubscriptionTypes \cup Invoices \cup {"checkout"}
  BY DEF Event
<1> QED BY <1>2, <1>3, <1>4, <1>5 DEF Processed, SubscriptionTypes, Invoices

\* What the step leaves in the inbox.
LEMMA AppliedThen ==
  ASSUME BillingInv, NEW e \in 1..Len(sent), Applies(e)
  PROVE  /\ AppliedChanges' = AppliedChanges \cup
                {f \in {e} : sent[f].type \in SubscriptionTypes}
         /\ InvoiceApplied => InvoiceApplied'
         /\ sent[e].type \in Invoices => InvoiceApplied'
         /\ e \in Events
<1>1. e \in Events /\ 1..Len(sent) \subseteq Events
  BY DEF BillingInv, TypeInv, StripeOK, Events
<1>2. \A f \in Events : inbox'[f] = IF f = e THEN "processed" ELSE inbox[f]
  BY <1>1 DEF Applies, BillingInv, TypeInv, TablesOK
<1> QED BY <1>1, <1>2 DEF Applies, AppliedChanges, InvoiceApplied

\* A change of the only subscription: an older one is skipped, any other is shown.
LEMMA ChangeApplied ==
  ASSUME BillingInv, NEW e \in 1..Len(sent), Applies(e), Single,
         sent[e].type \in SubscriptionTypes
  PROVE  org'.status # "pending_payment" /\ \E w \in AppliedChanges' : Shows(w)'
<1>1. /\ AppliedChanges' = AppliedChanges \cup {e}
      /\ InvoiceApplied => InvoiceApplied'
      /\ sent' = sent
  BY AppliedThen DEF Applies
<1>2. org' = SubscriptionChanged(sent[e])
  BY DEF Applies, Processed, SubscriptionTypes
<1>3. /\ sent[e] \in Event /\ org \in Organization
      /\ \A f \in AppliedChanges : sent[f].created \in Nat
      /\ sent[e].created \in Nat \ {0} /\ org.last \in Nat
  <2>1. org \in Organization /\ org.last \in Nat
    BY DEF BillingInv, TypeInv, TablesOK, Organization
  <2> QED BY <2>1, SentType DEF BillingInv, AppliedChanges
<1>4. /\ ~Superseded(sent[e])
      /\ sent[e].type = "deleted" => sent[e].status = "canceled"
  BY DEF Superseded, BillingInv, SourceInv, Single
<1>5. CASE Stale(sent[e].created)
  <2>1. AppliedChanges # {}
    BY <1>3, <1>5 DEF Stale, BillingInv, NewestInv
  <2>2. PICK w \in AppliedChanges : Shows(w)
    BY <2>1 DEF BillingInv, NewestInv
  <2>3. org' = org BY <1>2, <1>5 DEF SubscriptionChanged
  <2>4. \A f \in AppliedChanges' : sent[f].created <= sent[w].created
    BY <1>1, <1>3, <1>5, <2>2 DEF Shows, Stale
  <2>5. Shows(w)'
    BY <1>1, <2>2, <2>3, <2>4 DEF Shows
  <2> QED BY <1>1, <2>1, <2>3, <2>5 DEF BillingInv, NewestInv
<1>6. CASE ~Stale(sent[e].created)
  <2>1. /\ org'.plan = sent[e].tier /\ org'.last = sent[e].created
        /\ org'.status = sent[e].status
    BY <1>2, <1>4, <1>6 DEF SubscriptionChanged
  <2>2. \A f \in AppliedChanges : sent[f].created <= org.last
    <3>1. CASE AppliedChanges = {} BY <3>1
    <3>2. CASE AppliedChanges # {} BY <3>2 DEF BillingInv, NewestInv, Shows
    <3> QED BY <3>1, <3>2
  <2>3. \A f \in AppliedChanges' : sent[f].created <= sent[e].created
    BY <1>1, <1>3, <1>6, <2>2 DEF Stale
  <2>4. Shows(e)' BY <1>1, <2>1, <2>3 DEF Shows
  <2>5. org'.status # "pending_payment"
    BY <1>3, <2>1 DEF Event, LiveStatuses
  <2> QED BY <1>1, <2>4, <2>5
<1> QED BY <1>5, <1>6

\* A checkout or an invoice leaves the newest change as it was.
LEMMA OtherApplied ==
  ASSUME BillingInv, NEW e \in 1..Len(sent), Applies(e), Single,
         sent[e].type \notin SubscriptionTypes
  PROVE  NewestInv'
<1>1. /\ AppliedChanges' = AppliedChanges
      /\ InvoiceApplied => InvoiceApplied'
      /\ sent[e].type \in Invoices => InvoiceApplied'
      /\ sent' = sent
  BY AppliedThen DEF Applies
<1>2. org \in Organization /\ sent[e] \in Event
  BY DEF BillingInv, TypeInv, StripeOK, TablesOK
<1>3. org'.last = org.last
  BY <1>2 DEF Applies, Processed, CheckoutCompleted, Organization, Event, SubscriptionTypes, Invoices
<1>4. ASSUME org.status # "pending_payment"
      PROVE  /\ org'.plan = org.plan /\ org'.status # "pending_payment"
             /\ org'.status = org.status \/ InvoiceApplied'
  <2>1. CASE sent[e].type = "checkout"
    BY <1>2, <1>4, <2>1 DEF Applies, Processed, CheckoutCompleted, Organization
  <2>2. CASE sent[e].type \in Invoices
    BY <1>1, <1>2, <1>4, <2>2 DEF Applies, Processed, Organization, SubscriptionTypes, Invoices
  <2> QED BY <1>2, <2>1, <2>2 DEF Event
<1>5. CASE AppliedChanges = {}
  BY <1>1, <1>3, <1>5 DEF BillingInv, NewestInv
<1>6. CASE AppliedChanges # {}
  <2>1. PICK w \in AppliedChanges : Shows(w) /\ org.status # "pending_payment"
    BY <1>6 DEF BillingInv, NewestInv
  <2>2. Shows(w)'
    BY <1>1, <1>3, <1>4, <2>1 DEF Shows
  <2> QED BY <1>1, <1>4, <2>1, <2>2 DEF NewestInv
<1> QED BY <1>5, <1>6

LEMMA AppliesInv ==
  ASSUME BillingInv, NEW s \in Slots, HandleEvent(s), Applying(s)
  PROVE  BillingInv'
<1> DEFINE e == breq[s].event
<1>1. e \in 1..Len(sent) /\ breq' = [breq EXCEPT ![s] = NoWebhook]
  BY DEF HandleEvent, BillingInv, TypeInv, WebhooksOK
<1>2. e \in Events
  BY <1>1 DEF BillingInv, TypeInv, StripeOK, Events
<1>3. Applies(e)
  BY <1>2 DEF HandleEvent, Applying, Taken, Applies
<1> HIDE DEF e
<1>4. sent[e] \in Event /\ Opened' = Opened
  BY <1>1, <1>3 DEF BillingInv, TypeInv, StripeOK, Applies, Opened
<1>5. TypeInv'
  <2>1. org' \in Organization
    BY <1>3, <1>4, ProcessedType DEF Applies, BillingInv, TypeInv, TablesOK
  <2>2. TablesOK'
    BY <1>2, <1>3, <2>1 DEF Applies, BillingInv, TypeInv, TablesOK
  <2>3. WebhooksOK'
    BY <1>1, <1>3 DEF Applies, BillingInv, TypeInv, WebhooksOK, NoWebhook
  <2> QED BY <1>3, <2>2, <2>3 DEF Applies, BillingInv, TypeInv, StripeOK
<1>6. SourceInv'
  <2>1. org' = org \/ org'.held \in {org.held, sent[e].sub}
    <3>1. org \in Organization BY DEF BillingInv, TypeInv, TablesOK
    <3> QED BY <1>3, <1>4, <3>1 DEF Applies, Processed, CheckoutCompleted, SubscriptionChanged,
          Organization, Event, SubscriptionTypes, Invoices
  <2>2. org'.held # None => org'.held \in Opened
    BY <1>1, <2>1 DEF BillingInv, SourceInv
  <2>3. \A f \in Events : inbox'[f] = "processed" => f <= Len(sent)
    BY <1>1, <1>2, <1>3 DEF Applies, BillingInv, SourceInv, TypeInv, StripeOK, TablesOK
  <2> QED BY <1>3, <1>4, <2>2, <2>3 DEF Applies, BillingInv, SourceInv
<1>7. ProcessedOnce'
  BY <1>2, <1>3 DEF Applies, BillingInv, TypeInv, TablesOK, ProcessedOnce
<1>8. NewestInv'
  <2>1. Single' = Single BY <1>4 DEF Single
  <2>2. CASE ~Single BY <2>1, <2>2 DEF NewestInv
  <2>3. CASE Single /\ sent[e].type \in SubscriptionTypes
    BY <1>1, <1>3, <2>3, ChangeApplied DEF NewestInv
  <2>4. CASE Single /\ sent[e].type \notin SubscriptionTypes
    BY <1>1, <1>3, <2>4, OtherApplied
  <2> QED BY <2>2, <2>3, <2>4
<1> QED BY <1>5, <1>6, <1>7, <1>8 DEF BillingInv
-------------------------------------------------------------------------------
LEMMA NextInv == BillingInv /\ [BillingNext]_billingVars => BillingInv'
<1> SUFFICES ASSUME BillingInv, [BillingNext]_billingVars PROVE BillingInv' OBVIOUS
<1>1. CASE Idles BY <1>1, IdleInv
<1>2. ASSUME NEW k \in Subs, Checkout(k) PROVE BillingInv'
  BY <1>2, CheckoutInv
<1>3. ASSUME NEW k \in Subs, NEW tier \in Tiers,
             \/ \E status \in {"active", "past_due"} : Pay(k, tier, status)
             \/ ChangeTier(k, tier) \/ Charge(k, tier) \/ Cancel(k, tier)
      PROVE  BillingInv'
  BY <1>3, StripeSends, SendsInv DEF BillingInv
<1>4. ASSUME NEW s \in Slots, HandleEvent(s), Applying(s) PROVE BillingInv'
  BY <1>4, AppliesInv
<1>5. CASE UNCHANGED billingVars
  BY <1>5 DEF billingVars, BillingInv, TypeInv, StripeOK, TablesOK, WebhooksOK, SourceInv,
     ProcessedOnce, NewestInv, Single, Opened, AppliedChanges, Shows, InvoiceApplied
<1> QED BY <1>1, <1>2, <1>3, <1>4, <1>5 DEF BillingNext, Idles

\* One subscription opened is no two.
LEMMA OnlyOne == Cardinality(Opened) = 1 => Single
<1>1. IsFiniteSet(Opened) BY FS_Subset DEF Opened
<1> QED BY <1>1, FS_Singleton DEF Single

LEMMA InvariantHolds == BillingSpec => []BillingInv
BY InitInv, NextInv, PTL DEF BillingSpec

\* However deliveries of an event overlap, fail and are repeated, handle_event processes
\* it at most once, and its row says processed exactly when it did.
THEOREM ProcessedOnceCorrect == BillingSpec => []ProcessedOnce
<1>1. BillingInv => ProcessedOnce BY DEF BillingInv
<1> QED BY <1>1, InvariantHolds, PTL

\* In whatever order the events of the only subscription are delivered, apply_subscription
\* leaves the plan and status of the newest change (of one of that second), unless an
\* invoice altered the status.
THEOREM NewestChangeCorrect == BillingSpec => []NewestChangeWins
<1>1. BillingInv => NewestChangeWins
  BY OnlyOne DEF BillingInv, NewestInv, Shows, NewestChangeWins, InvoiceApplied
<1> QED BY <1>1, InvariantHolds, PTL
===============================================================================
