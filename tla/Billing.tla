------------------------------- MODULE Billing -------------------------------
(***************************************************************************)
(* The billing module: checkout and portal requests of the API, the        *)
(* customers and subscriptions they lead to at Stripe, and the webhook     *)
(* that copies what Stripe says into the Subscription row of the tenant.   *)
(*                                                                         *)
(* Stripe is external: it is modelled as far as BillingService and         *)
(* StripeBillingProvider rely on it.  It logs an event for every change    *)
(* and delivers it until it gets a 2xx: more than once, late, and in any   *)
(* order.  Of the billing period only its presence is modelled, and the    *)
(* queries that change nothing are left out.                               *)
(***************************************************************************)
EXTENDS Naturals, Sequences

CONSTANTS
  Orgs,       \* tenants
  Plans,      \* rows of table plan
  Priced,     \* the plans that have a Stripe price for the interval asked for
  Customers,  \* identifiers of Stripe customers
  Subs,       \* identifiers of Stripe subscriptions
  Requests,   \* checkout and portal requests in flight
  Hooks,      \* webhook deliveries being handled at the same time
  MaxEvents,  \* bound: the events Stripe logs
  None

ASSUME BillingAssumption ==
  /\ Priced \subseteq Plans
  /\ MaxEvents \in Nat
  /\ None \notin Orgs \union Plans \union Customers \union Subs

VARIABLES
  dated,      \* its events carry current_period_end where upsertSubscription looks,
              \* as those of API versions before 2025-03-31 do
  offered,    \* the plans with isActive
  row,        \* table subscription: the row of each tenant, organizationId is unique
  customer,   \* metadata.orgId of each Stripe customer
  stripeSub,  \* the Stripe subscriptions
  sessions,   \* checkout sessions a payer may still complete
  events,     \* Stripe's log of events
  acked,      \* the events that were answered with 200
  request,    \* the checkout or portal request in each slot
  hook,       \* the webhook delivery in each slot
  written,    \* history: the events whose statement has run
  late        \* history: the tenants for which the statement of an event ran after
              \* that of a later event of theirs

stripe == <<customer, stripeSub, sessions, events>>
history == <<written, late>>
vars == <<dated, offered, row, customer, stripeSub, sessions, events, acked, request, hook,
          written, late>>

\* What Stripe knows and the row's status column may hold.
RowStatuses == {"trialing", "active", "past_due", "canceled", "incomplete", "paused"}
StripeStatuses == RowStatuses \union {"unpaid"}
EventTypes == {"subscription.created", "subscription.updated", "subscription.deleted",
               "payment.succeeded", "payment.failed"}

NoRow == [plan |-> None, status |-> "absent", sub |-> None, customer |-> None]
NoSub == [org |-> None, customer |-> None, plan |-> None, status |-> "absent"]
Idle  == [at |-> "idle", org |-> None, plan |-> None, customer |-> None]
Free  == [at |-> "idle", event |-> 0, plan |-> None]

Init ==
  /\ dated \in BOOLEAN
  /\ offered \in SUBSET Plans
  /\ row = [o \in Orgs |-> NoRow]
  /\ customer = [k \in Customers |-> None]
  /\ stripeSub = [s \in Subs |-> NoSub]
  /\ sessions = {}
  /\ events = <<>>
  /\ acked = {}
  /\ request = [q \in Requests |-> Idle]
  /\ hook = [h \in Hooks |-> Free]
  /\ written = {} /\ late = {}

-----------------------------------------------------------------------------
(* POST /billing/stripe/checkout: createCheckout and ensureCustomer.       *)

Resume(q, l) == request' = [request EXCEPT ![q] = l]
Asks(at, o, p, k) == [at |-> at, org |-> o, plan |-> p, customer |-> k]

\* The plan, on sale or not, has a price; without one the answer is 400.  The two
\* tables read, of plans and of organizations, are written by nothing here.
CheckoutStart(q, o) ==
  /\ request[q].at = "idle"
  /\ \E p \in Priced :
       Resume(q, Asks("customer.search", o, p, None))
  /\ UNCHANGED <<dated, offered, history, row, stripe, acked, hook>>

MutTagged(o) == {k \in Customers : customer[k] # None}
Tagged(o) == {k \in Customers : customer[k] = o}

\* customers.search finds one customer that carries the tenant's id, or none:
\* Stripe's index may not have a new one yet.
CheckoutSearch(q) ==
  LET l == request[q] IN
  /\ l.at = "customer.search"
  /\ \/ Resume(q, Asks("customer.create", l.org, l.plan, None))
     \/ \E k \in Tagged(l.org) : Resume(q, Asks("session.create", l.org, l.plan, k))
  /\ UNCHANGED <<dated, offered, history, row, stripe, acked, hook>>

CheckoutCustomer(q) ==
  LET l == request[q] IN
  /\ l.at = "customer.create"
  /\ \E k \in Customers :
       /\ customer[k] = None
       /\ customer' = [customer EXCEPT ![k] = l.org]
       /\ Resume(q, Asks("session.create", l.org, l.plan, k))
  /\ UNCHANGED <<dated, offered, history, row, stripeSub, sessions, events, acked, hook>>

CheckoutSession(q) ==
  LET l == request[q] IN
  /\ l.at = "session.create"
  /\ sessions' = sessions \union {[org |-> l.org, customer |-> l.customer, plan |-> l.plan]}
  /\ Resume(q, Idle)
  /\ UNCHANGED <<dated, offered, history, row, customer, stripeSub, events, acked, hook>>

-----------------------------------------------------------------------------
(* POST /billing/stripe/portal: createPortal.                              *)

\* A tenant that never subscribed gets 404.
PortalStart(q, o) ==
  /\ request[q].at = "idle"
  /\ row[o] # NoRow
  /\ Resume(q, Asks("portal.create", o, None, row[o].customer))
  /\ UNCHANGED <<dated, offered, history, row, stripe, acked, hook>>

\* What the payer does in the portal is SubscriptionChanges and Deleted below.
PortalSession(q) ==
  /\ request[q].at = "portal.create"
  /\ Resume(q, Idle)
  /\ UNCHANGED <<dated, offered, history, row, stripe, acked, hook>>

\* A call to Stripe rejects, after it took effect or not, or the process dies.
RequestFails(q) ==
  /\ request[q].at # "idle"
  /\ Resume(q, Idle)
  /\ \/ UNCHANGED customer
     \/ /\ request[q].at = "customer.create"
        /\ \E k \in Customers : /\ customer[k] = None
                                /\ customer' = [customer EXCEPT ![k] = request[q].org]
  /\ UNCHANGED <<dated, offered, history, row, stripeSub, sessions, events, acked, hook>>

-----------------------------------------------------------------------------
(* Stripe.                                                                 *)

\* The event is a snapshot of the subscription.  Its price may name a plan; an
\* expanded price is an object, and its text is the price id of no plan.
Log(type, s, readable) ==
  /\ Len(events) < MaxEvents
  /\ events' = Append(events,
       [type |-> type, sub |-> s, org |-> stripeSub'[s].org, customer |-> stripeSub'[s].customer,
        status |-> stripeSub'[s].status,
        price |-> IF readable THEN stripeSub'[s].plan ELSE None])

Subscription(o, k, p, status) == [org |-> o, customer |-> k, plan |-> p, status |-> status]

\* The payer completes a checkout session; every subscription starts on trial.
SubscriptionCreated(s) ==
  /\ stripeSub[s] = NoSub
  /\ \E session \in sessions, readable \in BOOLEAN :
       /\ sessions' = sessions \ {session}
       /\ stripeSub' = [stripeSub EXCEPT ![s] =
                          Subscription(session.org, session.customer, session.plan, "trialing")]
       /\ Log("subscription.created", s, readable)
  /\ UNCHANGED <<dated, offered, history, row, customer, acked, request, hook>>

\* A trial ends, a payment is due, the payer changes the plan in the portal...
SubscriptionChanges(s) ==
  /\ stripeSub[s].status \notin {"absent", "canceled"}
  /\ \E status \in StripeStatuses \ {"canceled"}, p \in Priced, readable \in BOOLEAN :
       /\ stripeSub' = [stripeSub EXCEPT ![s] = Subscription(@.org, @.customer, p, status)]
       /\ stripeSub' # stripeSub
       /\ Log("subscription.updated", s, readable)
  /\ UNCHANGED <<dated, offered, history, row, customer, sessions, acked, request, hook>>

SubscriptionDeleted(s) ==
  /\ stripeSub[s].status \notin {"absent", "canceled"}
  /\ stripeSub' = [stripeSub EXCEPT ![s] = Subscription(@.org, @.customer, @.plan, "canceled")]
  /\ Log("subscription.deleted", s, FALSE)
  /\ UNCHANGED <<dated, offered, history, row, customer, sessions, acked, request, hook>>

\* An invoice is paid or not.  It may or may not carry the metadata.
InvoiceEvent(s) ==
  /\ stripeSub[s].status \notin {"absent", "canceled"}
  /\ Len(events) < MaxEvents
  /\ \E type \in {"payment.succeeded", "payment.failed"}, org \in {stripeSub[s].org, None} :
       events' = Append(events, [type |-> type, sub |-> s, org |-> org,
                                 customer |-> stripeSub[s].customer, status |-> "absent",
                                 price |-> None])
  /\ UNCHANGED <<dated, offered, history, row, customer, stripeSub, sessions, acked, request, hook>>

-----------------------------------------------------------------------------
(* POST /billing/stripe/webhook: handleWebhook and processWebhookEvent.    *)

Upserts(event) == event.type \in {"subscription.created", "subscription.updated"}

Handling(at, e, p) == [at |-> at, event |-> e, plan |-> p]

MutDeliverOnce(h, e) ==
  /\ hook[h] = Free
  /\ events[e].org # None /\ e \notin acked
  /\ hook' = [hook EXCEPT ![h] =
       Handling(IF Upserts(events[e]) THEN "plan" ELSE "write", e, None)]
  /\ acked' = acked \union {e}
  /\ UNCHANGED <<dated, offered, history, row, stripe, request>>

\* The signature is good and the event has a type the handler knows.  Without
\* an orgId it is answered at once; others go on to their first query.
Deliver(h, e) ==
  /\ hook[h] = Free
  /\ \/ /\ events[e].org = None
        /\ acked' = acked \union {e}
        /\ UNCHANGED hook
     \/ /\ events[e].org # None
        /\ hook' = [hook EXCEPT ![h] =
             Handling(IF Upserts(events[e]) THEN "plan" ELSE "write", e, None)]
        /\ UNCHANGED acked
  /\ UNCHANGED <<dated, offered, history, row, stripe, request>>

\* resolvePlanId: the plan with this price, or else any plan on sale, or ''.
Resolved(event) ==
  IF event.price # None THEN {event.price}
  ELSE IF offered # {} THEN offered ELSE {None}

ResolvePlan(h) ==
  /\ hook[h].at = "plan"
  /\ \E p \in Resolved(events[hook[h].event]) :
       hook' = [hook EXCEPT ![h] = Handling("write", @.event, p)]
  /\ UNCHANGED <<dated, offered, history, row, stripe, acked, request>>

MutNormaliseStatus(status) == status
\* normaliseStatus: a status it does not list counts as active.
NormaliseStatus(status) == IF status \in RowStatuses THEN status ELSE "active"

\* upsert by organizationId: an update leaves plan and interval alone.
Upserted(old, event, plan) ==
  IF old = NoRow
  THEN [plan |-> plan, status |-> NormaliseStatus(event.status), sub |-> event.sub,
        customer |-> event.customer]
  ELSE [old EXCEPT !.status = NormaliseStatus(event.status), !.sub = event.sub,
                   !.customer = event.customer]

\* updateMany by organizationId: no row, no effect; which subscription the event
\* is about is not looked at.
StatusOf(event) ==
  CASE event.type = "subscription.deleted" -> "canceled"
    [] event.type = "payment.succeeded"    -> "active"
    [] event.type = "payment.failed"       -> "past_due"
    [] OTHER                               -> NormaliseStatus(event.status)

Marked(old, event) == IF old = NoRow THEN old ELSE [old EXCEPT !.status = StatusOf(event)]

\* An upsert needs the period, whose absence makes an invalid date, and a new row
\* needs a plan: '' is refused by the foreign key.
Writable(h) ==
  LET event == events[hook[h].event] IN
  Upserts(event) => dated /\ (row[event.org] = NoRow => hook[h].plan # None)

Release(h) == hook' = [hook EXCEPT ![h] = Free]

\* The statement commits; the 200 reaches Stripe or is lost.
HookWrites(h) ==
  LET e == hook[h].event
      event == events[e] IN
  /\ hook[h].at = "write" /\ Writable(h)
  /\ row' = [row EXCEPT ![event.org] =
       IF Upserts(event) THEN Upserted(@, event, hook[h].plan) ELSE Marked(@, event)]
  /\ acked' \in {acked, acked \union {e}}
  /\ Release(h)
  /\ written' = written \union {e}
  /\ late' = late \union (IF \E d \in written : d > e /\ events[d].org = event.org
                         THEN {event.org} ELSE {})
  /\ UNCHANGED <<dated, offered, stripe, request>>

\* A query rejects, the foreign key refuses, or the process dies: no 2xx.
MutHookFails(h) ==
  /\ hook[h].at # "idle"
  /\ acked' = acked \union {hook[h].event}
  /\ Release(h)
  /\ UNCHANGED <<dated, offered, history, row, stripe, request>>
HookFails(h) ==
  /\ hook[h].at # "idle"
  /\ Release(h)
  /\ UNCHANGED <<dated, offered, history, row, stripe, acked, request>>

-----------------------------------------------------------------------------
Api(q) ==
  \/ \E o \in Orgs : CheckoutStart(q, o) \/ PortalStart(q, o)
  \/ CheckoutSearch(q) \/ CheckoutCustomer(q) \/ CheckoutSession(q)
  \/ PortalSession(q) \/ RequestFails(q)

Stripe(s) ==
  SubscriptionCreated(s) \/ SubscriptionChanges(s) \/ SubscriptionDeleted(s) \/ InvoiceEvent(s)

Webhook(h) ==
  \/ \E e \in DOMAIN events : Deliver(h, e)
  \/ ResolvePlan(h) \/ HookWrites(h) \/ HookFails(h)

Next ==
  \/ \E q \in Requests : Api(q)
  \/ \E s \in Subs : Stripe(s)
  \/ \E h \in Hooks : Webhook(h)

Safety == Init /\ [][Next]_vars

\* "Providers are expected to retry on 5xx": Stripe delivers an event that was
\* not answered with 200 again and again, and not every attempt to handle it
\* fails.  A handler ends, one way or the other.
Retries(e) == e \in DOMAIN events \ acked /\ \E h \in Hooks : Deliver(h, e)
Resolves(e) == \E h \in Hooks : hook[h].event = e /\ ResolvePlan(h)
Acknowledges(e) == e \notin acked /\ (\E h \in Hooks : HookWrites(h)) /\ e \in acked'

Fairness ==
  /\ \A h \in Hooks : WF_vars(ResolvePlan(h) \/ HookWrites(h) \/ HookFails(h))
  /\ \A e \in 1 .. MaxEvents :
       SF_vars(Retries(e)) /\ SF_vars(Resolves(e)) /\ SF_vars(Acknowledges(e))

Spec == Safety /\ Fairness

-----------------------------------------------------------------------------
(* Properties.                                                             *)

Rows ==
  [plan : Plans, status : RowStatuses, sub : Subs, customer : Customers] \union {NoRow}
StripeSubs ==
  [org : Orgs, customer : Customers, plan : Plans, status : StripeStatuses] \union {NoSub}
Events ==
  [type : EventTypes, sub : Subs, org : Orgs \union {None}, customer : Customers,
   status : StripeStatuses \union {"absent"}, price : Plans \union {None}]

\* Every variable has its type; a row always has a plan, a status of its own
\* vocabulary and the two Stripe ids.
TypeOK ==
  /\ dated \in BOOLEAN /\ offered \subseteq Plans
  /\ row \in [Orgs -> Rows]
  /\ customer \in [Customers -> Orgs \union {None}]
  /\ stripeSub \in [Subs -> StripeSubs]
  /\ sessions \subseteq [org : Orgs, customer : Customers, plan : Plans]
  /\ events \in Seq(Events)
  /\ acked \subseteq DOMAIN events
  /\ request \in [Requests -> [at : {"idle", "customer.search", "customer.create",
                                     "session.create", "portal.create"},
                               org : Orgs \union {None}, plan : Plans \union {None},
                               customer : Customers \union {None}]]
  /\ hook \in [Hooks -> [at : {"idle", "plan", "write"}, event : 0 .. MaxEvents,
                         plan : Plans \union {None}]]
  /\ written \subseteq DOMAIN events /\ late \subseteq Orgs

EventsOf(o) == {e \in DOMAIN events : events[e].org = o}

\* The tenants' billing never mixes: the subscription and customer a row names
\* belong together and to the row's tenant, its status is one an event of that
\* tenant stands for, canceled only if the tenant has canceled a subscription
\* (not always the one the row names), and the customer of every checkout or
\* portal session about to be made is the tenant's, whatever deliveries are late,
\* repeated or concurrent.
BillingStaysInTenant ==
  /\ \A o \in Orgs : row[o] # NoRow =>
       /\ stripeSub[row[o].sub].org = o
       /\ stripeSub[row[o].sub].customer = row[o].customer
       /\ customer[row[o].customer] = o
       /\ \E e \in EventsOf(o) : row[o].status = StatusOf(events[e])
       /\ row[o].status = "canceled" =>
            \E s \in Subs : stripeSub[s].org = o /\ stripeSub[s].status = "canceled"
  /\ \A q \in Requests : request[q].customer # None =>
       customer[request[q].customer] = request[q].org

IsLast(e, S) == e \in S /\ \A d \in S : d <= e

\* Only an event that is written after a later one of its tenant makes a row stale.
\* However deliveries fail, are repeated, lose their 200 or overlap, once all events
\* of a tenant that none has come late to are acknowledged, its row shows the status
\* the last one stands for and names the subscription the last upsert is about.
RowFollowsEvents ==
  \A o \in Orgs \ late : EventsOf(o) \subseteq acked =>
    /\ \A e \in DOMAIN events : IsLast(e, EventsOf(o)) => row[o].status = StatusOf(events[e])
    /\ \A e \in DOMAIN events :
         IsLast(e, {d \in EventsOf(o) : Upserts(events[d])}) => row[o].sub = events[e].sub

\* A subscription that was bought is recorded in the end, provided there is a
\* plan on sale and the event is dated: every failed delivery is answered 5xx and
\* tried again.
SubscriptionRecorded ==
  \A s \in Subs, o \in Orgs :
    (stripeSub[s].org = o /\ offered # {} /\ dated) ~> (row[o] # NoRow)
=============================================================================
