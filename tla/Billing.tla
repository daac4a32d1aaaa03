-------------------------------- MODULE Billing --------------------------------
(***************************************************************************)
(* The Pro plan by card (apps/api/okwan_api/billing.py): Checkout creates  *)
(* a subscription at Stripe, Stripe's events come to the webhook, and the  *)
(* webhook writes the billing record and then the plan, in two             *)
(* transactions.  One root tenant.                                         *)
(*                                                                         *)
(* Stripe is external: it keeps the subscriptions, makes an event of every *)
(* change with the subscription as it then was, and delivers the events in *)
(* any order, several at once, each until a delivery of it is acknowledged *)
(* and perhaps again.  Nothing keeps the owner from paying two checkouts   *)
(* that were both opened on the free plan.                                 *)
(***************************************************************************)
EXTENDS Absent, Naturals, Sequences

CONSTANTS
  Subs,        \* the checkout sessions the owner may open; each makes one subscription
  Handlers,    \* webhook requests served at once
  MaxEvents    \* bound: how many events Stripe sends

SubStatuses == {"none", "open", "active", "past_due", "unpaid", "canceled"}

ASSUME BillingAssumption ==
  /\ Subs \subseteq Nat /\ MaxEvents \in Nat
  /\ None \notin [sub: Subs, status: SubStatuses]

\* PAID: past_due is Stripe retrying a failed payment; the plan holds meanwhile.
PAID == {"active", "trialing", "past_due"}

VARIABLES
  status,     \* [subscription -> its status at Stripe; "open" is an unpaid checkout page]
  events,     \* the events sent, in order
  acked,      \* the events (by place) a delivery of which was acknowledged
  serving,    \* [handler -> the event it serves, or None]
  doing,      \* [handler -> "idle", "known", "save", "plan"]
  known,      \* [handler -> the record a checkout's delivery read, or None]
  record,     \* the billing row: the subscription and its status, or None
  plan,       \* the plan stored: "free" or "pro"
  newest,     \* history: the newest event a delivery of which wrote the record, or 0
  disordered, \* history: the record was last written with what a newer event had overtaken
  torn        \* history: the record's last write was beside another delivery's plan,
              \* or its delivery died after another had acknowledged the event

billingVars == <<status, events, acked, serving, doing, known, record, plan, newest, disordered, torn>>
histories   == <<newest, disordered, torn>>

BillingInit ==
  /\ status = [s \in Subs |-> "none"]
  /\ events = <<>>
  /\ acked = {}
  /\ serving = [h \in Handlers |-> None]
  /\ doing = [h \in Handlers |-> "idle"]
  /\ known = [h \in Handlers |-> None]
  /\ record = None
  /\ plan = "free"
  /\ newest = 0 /\ disordered = FALSE /\ torn = FALSE

-----------------------------------------------------------------------------
(* The owner, and Stripe.                                                    *)

\* POST /v1/billing/checkout: refused on a paid plan.
Checkout(s) ==
  /\ plan = "free"
  /\ status[s] = "none"
  /\ \A t \in Subs : t < s => status[t] # "none"
  /\ status' = [status EXCEPT ![s] = "open"]
  /\ UNCHANGED <<events, acked, serving, doing, known, record, plan, histories>>

SentOf(kind, s) == [kind |-> kind, sub |-> s, status |-> status'[s]]
Sends(sent) == Len(events) + Len(sent) <= MaxEvents /\ events' = events \o sent

\* The card is charged.  The two events of it come in either order.
Pay(s) ==
  /\ status[s] = "open"
  /\ status' = [status EXCEPT ![s] = "active"]
  /\ \/ Sends(<<SentOf("created", s), SentOf("checkout", s)>>)
     \/ Sends(<<SentOf("checkout", s), SentOf("created", s)>>)
  /\ UNCHANGED <<acked, serving, doing, known, record, plan, histories>>

Becomes == [active   |-> {"past_due", "canceled"},
            past_due |-> {"active", "unpaid", "canceled"},
            unpaid   |-> {"active", "canceled"}]

\* A payment fails, is made good, or the subscription ends.
Change(s) ==
  /\ status[s] \in DOMAIN Becomes
  /\ \E next \in Becomes[status[s]] :
       /\ status' = [status EXCEPT ![s] = next]
       /\ Sends(<<SentOf(IF next = "canceled" THEN "deleted" ELSE "updated", s)>>)
  /\ UNCHANGED <<acked, serving, doing, known, record, plan, histories>>

-----------------------------------------------------------------------------
(* The webhook.                                                              *)

FirstStep(event) == IF event.kind = "checkout" THEN "known" ELSE "save"

\* A delivery comes in: of any event, whatever was delivered of it or of others.
Receive(h) ==
  /\ doing[h] = "idle"
  /\ \E i \in DOMAIN events :
       /\ serving' = [serving EXCEPT ![h] = i]
       /\ doing' = [doing EXCEPT ![h] = FirstStep(events[i])]
  /\ UNCHANGED <<status, events, acked, known, record, plan, histories>>

EventOf(h) == events[serving[h]]
Said(i)    == [sub |-> events[i].sub, status |-> events[i].status]

Drop(h) ==
  /\ serving' = [serving EXCEPT ![h] = None]
  /\ doing' = [doing EXCEPT ![h] = "idle"]
  /\ known' = [known EXCEPT ![h] = None]

Acknowledge(h) == acked' = acked \cup {serving[h]} /\ Drop(h)

\* Mutant: a checkout is applied whatever is known of its subscription.
CheckKnownNot(h) ==
  /\ doing[h] = "known"
  /\ doing' = [doing EXCEPT ![h] = "save"]
  /\ known' = [known EXCEPT ![h] = record]
  /\ UNCHANGED <<status, events, acked, serving, record, plan, histories>>

\* A late retry of a checkout whose subscription already ended is dropped.
CheckKnown(h) ==
  /\ doing[h] = "known"
  /\ IF record # None /\ record.sub = EventOf(h).sub /\ record.status \notin PAID
     THEN Acknowledge(h)
     ELSE /\ doing' = [doing EXCEPT ![h] = "save"]
          /\ known' = [known EXCEPT ![h] = record]
          /\ UNCHANGED <<acked, serving>>
  /\ UNCHANGED <<status, events, record, plan, histories>>

\* The record says what the newest event applied says; or a checkout came late to
\* a record of its own subscription, which had not changed since it was read.
Latest(i) == IF i > newest THEN i ELSE newest
InTurn(h) == Said(serving[h]) = Said(Latest(serving[h]))
Retried(h) ==
  /\ EventOf(h).kind = "checkout" /\ record # None
  /\ record.sub = EventOf(h).sub /\ record = known[h]

\* save_billing, with the status the event carries.
SaveBilling(h) ==
  /\ doing[h] = "save"
  /\ record' = Said(serving[h])
  /\ doing' = [doing EXCEPT ![h] = "plan"]
  /\ newest' = Latest(serving[h])
  /\ disordered' = (~InTurn(h) /\ (Retried(h) => disordered))
  /\ torn' = \E g \in Handlers \ {h} : doing[g] = "plan"
  /\ UNCHANGED <<status, events, acked, serving, known, plan>>

PlanOf(event) == IF event.status \in PAID THEN "pro" ELSE "free"

\* set_plan, then the answer.
SetPlan(h) ==
  /\ doing[h] = "plan"
  /\ plan' = PlanOf(EventOf(h))
  /\ Acknowledge(h)
  /\ UNCHANGED <<status, events, record, histories>>

\* Mutant: a delivery that fails is acknowledged.
FailAcknowledged(h) ==
  /\ doing[h] # "idle"
  /\ Acknowledge(h)
  /\ UNCHANGED <<status, events, record, plan, histories>>

\* The process or the database fails under the request: Stripe sends it again,
\* unless another delivery of the event was acknowledged.
Fail(h) ==
  /\ doing[h] # "idle"
  /\ Drop(h)
  /\ torn' = (torn \/ (doing[h] = "plan" /\ serving[h] \in acked))
  /\ UNCHANGED <<status, events, acked, record, plan, newest, disordered>>

Webhook(h) == Receive(h) \/ CheckKnown(h) \/ SaveBilling(h) \/ SetPlan(h) \/ Fail(h)

BillingNext ==
  \/ \E s \in Subs : Checkout(s) \/ Pay(s) \/ Change(s)
  \/ \E h \in Handlers : Webhook(h)

BillingSpec == BillingInit /\ [][BillingNext]_billingVars

-----------------------------------------------------------------------------
\* Every event sent was answered, and no delivery is being served.
Quiet == DOMAIN events = acked /\ \A h \in Handlers : doing[h] = "idle"

\* What the dashboard shows of the subscription and the plan agree when Stripe
\* has told everything, wherever deliveries died between the two writes and in
\* whatever order they came: unless the record was last written while another
\* delivery had its plan still to set, or by one that died after the event was
\* acknowledged to another.
PlanFollowsRecord == Quiet /\ record # None /\ ~torn => plan = PlanOf(record)

\* "Pro while the subscription is active (or retrying a failed payment)", "free
\* once it is cancelled or unpaid": when Stripe has told everything, the plan is
\* what the last event's subscription pays for at Stripe, however many deliveries
\* failed, came twice, or came late, as long as the newest news applied is not
\* overwritten with older news; and a checkout that comes late to its own
\* subscription's record overwrites none.
PlanIsPaidFor ==
  Quiet /\ ~disordered /\ ~torn =>
    IF record = None THEN plan = "free" /\ \A s \in Subs : status[s] \notin PAID
    ELSE /\ record.sub = events[Len(events)].sub
         /\ plan = "pro" <=> status[record.sub] \in PAID

\* billing.py:13-16: "the plan follows: Pro while the subscription is active (or
\* retrying a failed payment), Free once it is cancelled or unpaid": whatever the
\* order in which Stripe's events come.
ProWhilePaid == Quiet => (plan = "pro" <=> \E s \in Subs : status[s] \in PAID)
=============================================================================
