----------------------------- MODULE BillingProofs -----------------------------
(***************************************************************************)
(* Proofs about Billing for any number of tenants, plans, customers,       *)
(* subscriptions, requests, concurrent deliveries and events.              *)
(***************************************************************************)
EXTENDS Billing, TLAPS

-----------------------------------------------------------------------------
(* Type correctness.                                                       *)

Bounded == Len(events) <= MaxEvents

\* A delivery being handled is one of an event in the log that names a tenant.
HooksHold ==
  \A h \in Hooks : hook[h].at # "idle" =>
    hook[h].event \in DOMAIN events /\ events[hook[h].event].org # None

\* A request under way is of a tenant, for a plan, and names its customer once it
\* has one; one that is over has left nothing.
RequestsHold ==
  \A q \in Requests :
    LET l == request[q] IN
    /\ l.at # "idle" => l.org \in Orgs
    /\ l.at \in {"customer.search", "customer.create"} => l.plan \in Plans /\ l.customer = None
    /\ l.at = "session.create" => l.plan \in Plans /\ l.customer \in Customers
    /\ l.at = "idle" => l.customer = None

Typed == TypeOK /\ Bounded /\ HooksHold /\ RequestsHold

NonEvents ==
  /\ row \in [Orgs -> Rows]
  /\ customer \in [Customers -> Orgs \union {None}]
  /\ stripeSub \in [Subs -> StripeSubs]
  /\ sessions \subseteq [org : Orgs, customer : Customers, plan : Plans]

RequestRecords ==
  [at : {"idle", "customer.search", "customer.create", "session.create", "portal.create"},
   org : Orgs \union {None}, plan : Plans \union {None}, customer : Customers \union {None}]

Requested == request \in [Requests -> RequestRecords]

Hooked ==
  hook \in [Hooks -> [at : {"idle", "plan", "write"}, event : 0 .. MaxEvents,
                      plan : Plans \union {None}]]

Logged ==
  events \in Seq(Events) /\ acked \subseteq DOMAIN events /\ written \subseteq DOMAIN events

\* TypeOK in parts, so that a step need look at those it changes only.
LEMMA TypeParts ==
  TypeOK <=> /\ late \subseteq Orgs /\ dated \in BOOLEAN /\ offered \subseteq Plans
             /\ NonEvents /\ Requested /\ Hooked /\ Logged
BY DEF TypeOK, NonEvents, Requested, RequestRecords, Hooked, Logged

LEMMA TypePartsNext ==
  TypeOK' <=> /\ late' \subseteq Orgs /\ dated' \in BOOLEAN /\ offered' \subseteq Plans
              /\ NonEvents' /\ Requested' /\ Hooked' /\ Logged'
BY DEF TypeOK, NonEvents, Requested, RequestRecords, Hooked, Logged

\* The log only grows: what is in it stays where it is.
LEMMA LogGrows ==
  ASSUME events \in Seq(Events), Bounded, NEW e \in Events, Len(events) < MaxEvents,
         events' = Append(events, e)
  PROVE  /\ events' \in Seq(Events) /\ Bounded'
         /\ Len(events') = Len(events) + 1
         /\ DOMAIN events' = DOMAIN events \union {Len(events')}
         /\ events'[Len(events')] = e
         /\ \A i \in DOMAIN events : i \in DOMAIN events' /\ events'[i] = events[i]
<1>1. MaxEvents \in Nat /\ Len(events) \in Nat
  BY BillingAssumption
<1>2. events' \in Seq(Events) /\ Len(events') = Len(events) + 1
  OBVIOUS
<1>3. DOMAIN events = 1 .. Len(events) /\ DOMAIN events' = 1 .. Len(events) + 1
  BY <1>1, <1>2
<1>4. \A i \in DOMAIN events : events'[i] = events[i]
  BY <1>1, <1>3
<1>5. events'[Len(events')] = e
  BY <1>1, <1>2
<1> QED
  BY <1>1, <1>2, <1>3, <1>4, <1>5 DEF Bounded

LEMMA EventInRange ==
  ASSUME events \in Seq(Events), Bounded, NEW e \in DOMAIN events
  PROVE  e \in 1 .. MaxEvents /\ events[e] \in Events
<1>1. MaxEvents \in Nat /\ Len(events) \in Nat /\ DOMAIN events = 1 .. Len(events)
  BY BillingAssumption
<1> QED
  BY <1>1 DEF Bounded

LEMMA InitTyped == Init => Typed
<1> SUFFICES ASSUME Init PROVE Typed
  OBVIOUS
<1>1. NonEvents
  BY DEF Init, NonEvents, Rows, StripeSubs
<1>2. Requested /\ Hooked
  BY BillingAssumption DEF Init, Requested, RequestRecords, Hooked, Idle, Free
<1>3. Logged /\ Bounded
  BY BillingAssumption DEF Init, Logged, Bounded
<1>4. HooksHold
  BY DEF Init, HooksHold, Free
<1>5. RequestsHold
  BY DEF Init, RequestsHold, Idle
<1> QED
  BY <1>1, <1>2, <1>3, <1>4, <1>5, TypeParts DEF Typed, Init

\* A request that goes on with typed locals leaves the requests typed.
LEMMA ResumeTyped ==
  ASSUME Requested, RequestsHold, NEW q \in Requests,
         NEW at \in {"customer.search", "customer.create", "session.create", "portal.create"},
         NEW o \in Orgs, NEW p \in Plans \union {None}, NEW k \in Customers \union {None},
         at # "portal.create" => p \in Plans /\ (k = None <=> at # "session.create"),
         Resume(q, Asks(at, o, p, k))
  PROVE  Requested' /\ RequestsHold'
<1>1. Requested'
  BY DEF Requested, RequestRecords, Resume, Asks
<1>2. request'[q] = [at |-> at, org |-> o, plan |-> p, customer |-> k]
      /\ \A r \in Requests \ {q} : request'[r] = request[r]
  BY DEF Requested, Resume, Asks
<1>3. k = None \/ k \in Customers
  OBVIOUS
<1>4. RequestsHold'
  BY <1>2, <1>3 DEF RequestsHold
<1> QED
  BY <1>1, <1>4

LEMMA ResumeIdle ==
  ASSUME Requested, RequestsHold, NEW q \in Requests, Resume(q, Idle)
  PROVE  Requested' /\ RequestsHold'
BY DEF Requested, RequestRecords, RequestsHold, Resume, Idle

LEMMA ApiTyped ==
  ASSUME Typed, NEW q \in Requests, Api(q)
  PROVE  Typed'
<1> DEFINE Rest == UNCHANGED <<dated, offered, history, row, stripeSub, events, acked, hook>>
           Goal == Rest /\ NonEvents' /\ Requested' /\ RequestsHold'
           l == request[q]
<1>0. /\ TypeOK /\ Bounded /\ HooksHold /\ RequestsHold
      /\ NonEvents /\ Requested /\ Hooked /\ Logged
      /\ late \subseteq Orgs /\ dated \in BOOLEAN /\ offered \subseteq Plans
  BY TypeParts DEF Typed
<1>1. l \in RequestRecords /\ l.org \in Orgs \union {None}
  BY <1>0 DEF Requested, RequestRecords
<1>2. ASSUME Goal PROVE Typed'
  <2>1. HooksHold' /\ Bounded' /\ Logged' /\ Hooked'
    BY <1>0, <1>2 DEF HooksHold, Bounded, Logged, Hooked, history
  <2> QED
    BY <1>0, <1>2, <2>1, TypePartsNext DEF Typed, history
<1>3. ASSUME NEW o \in Orgs, CheckoutStart(q, o) PROVE Goal
  <2>1. PICK p \in Priced : Resume(q, Asks("customer.search", o, p, None))
    BY <1>3 DEF CheckoutStart
  <2>2. p \in Plans
    BY BillingAssumption
  <2>3. Requested' /\ RequestsHold'
    BY <1>0, <2>1, <2>2, ResumeTyped
  <2> QED
    BY <1>0, <1>3, <2>3 DEF CheckoutStart, stripe, NonEvents
<1>4. ASSUME NEW o \in Orgs, PortalStart(q, o) PROVE Goal
  <2>1. row[o].customer \in Customers
    BY <1>0, <1>4 DEF PortalStart, NonEvents, Rows
  <2>2. Requested' /\ RequestsHold'
    BY <1>0, <1>4, <2>1, ResumeTyped DEF PortalStart
  <2> QED
    BY <1>0, <1>4, <2>2 DEF PortalStart, stripe, NonEvents
<1>5. ASSUME CheckoutSearch(q) PROVE Goal
  <2>1. /\ Tagged(l.org) \subseteq Customers
        /\ l.org \in Orgs /\ l.plan \in Plans /\ l.customer = None
    BY <1>0, <1>5 DEF Tagged, CheckoutSearch, RequestsHold
  <2>2. Requested' /\ RequestsHold'
    <3>1. CASE Resume(q, Asks("customer.create", l.org, l.plan, None))
      BY <1>0, <2>1, <3>1, ResumeTyped
    <3>2. ASSUME NEW k \in Tagged(l.org), Resume(q, Asks("session.create", l.org, l.plan, k))
          PROVE  Requested' /\ RequestsHold'
      BY <1>0, <2>1, <3>2, ResumeTyped, BillingAssumption
    <3> QED
      BY <1>5, <3>1, <3>2 DEF CheckoutSearch
  <2> QED
    BY <1>0, <1>5, <2>2 DEF CheckoutSearch, stripe, NonEvents
<1>6. ASSUME CheckoutCustomer(q) PROVE Goal
  <2>1. PICK k \in Customers : /\ customer' = [customer EXCEPT ![k] = l.org]
                               /\ Resume(q, Asks("session.create", l.org, l.plan, k))
    BY <1>6 DEF CheckoutCustomer
  <2>2. l.org \in Orgs /\ l.plan \in Plans /\ k # None
    BY <1>0, <1>6, BillingAssumption DEF CheckoutCustomer, RequestsHold
  <2>3. Requested' /\ RequestsHold'
    BY <1>0, <2>1, <2>2, ResumeTyped
  <2> QED
    BY <1>0, <1>1, <1>6, <2>1, <2>3 DEF CheckoutCustomer, NonEvents
<1>7. ASSUME CheckoutSession(q) PROVE Goal
  <2>1. l.org \in Orgs /\ l.plan \in Plans /\ l.customer \in Customers
    BY <1>0, <1>7 DEF CheckoutSession, RequestsHold
  <2>2. Requested' /\ RequestsHold'
    BY <1>0, <1>7, ResumeIdle DEF CheckoutSession
  <2> QED
    BY <1>0, <1>7, <2>1, <2>2 DEF CheckoutSession, NonEvents
<1>8. ASSUME PortalSession(q) \/ RequestFails(q) PROVE Goal
  <2>1. Requested' /\ RequestsHold'
    BY <1>0, <1>8, ResumeIdle DEF PortalSession, RequestFails
  <2>2. customer' \in [Customers -> Orgs \union {None}]
    BY <1>0, <1>1, <1>8 DEF PortalSession, RequestFails, NonEvents, stripe
  <2> QED
    BY <1>0, <1>8, <2>1, <2>2 DEF PortalSession, RequestFails, NonEvents, stripe
<1> QED
  BY <1>2, <1>3, <1>4, <1>5, <1>6, <1>7, <1>8 DEF Api

\* What Stripe does leaves requests, deliveries and rows alone and appends an event.
LEMMA LoggedTyped ==
  ASSUME Typed, NEW e \in Events, Len(events) < MaxEvents, events' = Append(events, e),
         UNCHANGED <<dated, offered, history, row, customer, acked, request, hook>>,
         stripeSub' \in [Subs -> StripeSubs],
         sessions' \subseteq [org : Orgs, customer : Customers, plan : Plans]
  PROVE  Typed'
<1>0. /\ TypeOK /\ Bounded /\ HooksHold /\ RequestsHold
      /\ NonEvents /\ Requested /\ Hooked /\ Logged
      /\ late \subseteq Orgs /\ dated \in BOOLEAN /\ offered \subseteq Plans
  BY TypeParts DEF Typed
<1>1. /\ events' \in Seq(Events) /\ Bounded'
      /\ \A i \in DOMAIN events : i \in DOMAIN events' /\ events'[i] = events[i]
  BY <1>0, LogGrows DEF Logged
<1>2. Logged' /\ late' \subseteq Orgs
  BY <1>0, <1>1 DEF Logged, history
<1>3. NonEvents' /\ Requested' /\ RequestsHold' /\ Hooked'
  BY <1>0 DEF NonEvents, Requested, RequestsHold, Hooked
<1>4. HooksHold'
  BY <1>0, <1>1 DEF HooksHold
<1> QED
  BY <1>0, <1>1, <1>2, <1>3, <1>4, TypePartsNext DEF Typed

\* The subscription an event is about, as that event leaves it.
LEMMA EventTyped ==
  ASSUME NEW s \in Subs, NEW type \in EventTypes, NEW readable \in BOOLEAN,
         stripeSub'[s] \in [org : Orgs, customer : Customers, plan : Plans, status : StripeStatuses],
         Log(type, s, readable)
  PROVE  \E e \in Events :
           /\ Len(events) < MaxEvents /\ events' = Append(events, e)
           /\ e.sub = s /\ e.type = type /\ e.org = stripeSub'[s].org
           /\ e.customer = stripeSub'[s].customer /\ e.status = stripeSub'[s].status
<1> DEFINE e == [type |-> type, sub |-> s, org |-> stripeSub'[s].org,
                 customer |-> stripeSub'[s].customer, status |-> stripeSub'[s].status,
                 price |-> IF readable THEN stripeSub'[s].plan ELSE None]
<1>1. e \in Events
  BY DEF Events
<1> QED
  BY <1>1 DEF Log

LEMMA InvoiceTyped ==
  ASSUME Typed, NEW s \in Subs, InvoiceEvent(s)
  PROVE  \E e \in Events :
           /\ Len(events) < MaxEvents /\ events' = Append(events, e)
           /\ e.sub = s /\ e.type \in {"payment.succeeded", "payment.failed"}
           /\ e.org \in {stripeSub[s].org, None} /\ e.customer = stripeSub[s].customer
<1>1. stripeSub[s] \in [org : Orgs, customer : Customers, plan : Plans, status : StripeStatuses]
  BY DEF Typed, TypeOK, InvoiceEvent, StripeSubs, NoSub
<1>2. PICK type \in {"payment.succeeded", "payment.failed"}, org \in {stripeSub[s].org, None} :
        events' = Append(events, [type |-> type, sub |-> s, org |-> org,
                                  customer |-> stripeSub[s].customer, status |-> "absent",
                                  price |-> None])
  BY DEF InvoiceEvent
<1>3. [type |-> type, sub |-> s, org |-> org, customer |-> stripeSub[s].customer,
       status |-> "absent", price |-> None] \in Events
  BY <1>1 DEF Events, EventTypes
<1> QED
  BY <1>2, <1>3 DEF InvoiceEvent

SubRecords == [org : Orgs, customer : Customers, plan : Plans, status : StripeStatuses]

\* A subscription that changes keeps its tenant and its customer.
LEMMA ChangedSub ==
  ASSUME Typed, NEW s \in Subs, SubscriptionChanges(s) \/ SubscriptionDeleted(s)
  PROVE  /\ stripeSub' \in [Subs -> StripeSubs]
         /\ stripeSub[s] \in SubRecords /\ stripeSub'[s] \in SubRecords
         /\ stripeSub'[s].org = stripeSub[s].org
         /\ stripeSub'[s].customer = stripeSub[s].customer
         /\ stripeSub[s].status # "canceled"
         /\ SubscriptionDeleted(s) => stripeSub'[s].status = "canceled"
         /\ SubscriptionChanges(s) => stripeSub'[s].status # "canceled"
         /\ \A t \in Subs \ {s} : stripeSub'[t] = stripeSub[t]
<1> DEFINE Kept == /\ stripeSub' \in [Subs -> StripeSubs] /\ stripeSub'[s] \in SubRecords
                   /\ stripeSub'[s].org = stripeSub[s].org
                   /\ stripeSub'[s].customer = stripeSub[s].customer
                   /\ \A t \in Subs \ {s} : stripeSub'[t] = stripeSub[t]
<1>1. stripeSub \in [Subs -> StripeSubs]
  BY DEF Typed, TypeOK
<1>2. stripeSub[s].status \notin {"absent", "canceled"}
  BY DEF SubscriptionChanges, SubscriptionDeleted
<1>3. stripeSub[s] \in SubRecords
  BY <1>1, <1>2 DEF StripeSubs, NoSub, SubRecords
<1>4. ASSUME NEW p \in Plans, NEW status \in StripeStatuses,
             stripeSub' = [stripeSub EXCEPT ![s] = Subscription(@.org, @.customer, p, status)]
      PROVE  Kept /\ stripeSub'[s].status = status
  BY <1>1, <1>3, <1>4 DEF Subscription, SubRecords, StripeSubs
<1>5. SubscriptionChanges(s) => Kept /\ stripeSub'[s].status # "canceled"
  BY <1>4, BillingAssumption DEF SubscriptionChanges
<1>6. SubscriptionDeleted(s) => Kept /\ stripeSub'[s].status = "canceled"
  <2>1. stripeSub[s].plan \in Plans /\ "canceled" \in StripeStatuses
    BY <1>3 DEF SubRecords, StripeStatuses, RowStatuses
  <2> QED
    BY <1>4, <2>1 DEF SubscriptionDeleted
<1> QED
  BY <1>2, <1>3, <1>5, <1>6

\* A new subscription is that of a session.
LEMMA CreatedSub ==
  ASSUME Typed, NEW s \in Subs, SubscriptionCreated(s)
  PROVE  /\ stripeSub' \in [Subs -> StripeSubs] /\ stripeSub'[s] \in SubRecords
         /\ stripeSub[s] = NoSub /\ stripeSub'[s].status = "trialing"
         /\ \A t \in Subs \ {s} : stripeSub'[t] = stripeSub[t]
         /\ sessions' \subseteq sessions
         /\ \E x \in sessions : stripeSub'[s].org = x.org /\ stripeSub'[s].customer = x.customer
<1>1. stripeSub \in [Subs -> StripeSubs]
      /\ sessions \subseteq [org : Orgs, customer : Customers, plan : Plans]
  BY DEF Typed, TypeOK
<1>2. PICK x \in sessions :
        /\ sessions' = sessions \ {x}
        /\ stripeSub' = [stripeSub EXCEPT ![s] = Subscription(x.org, x.customer, x.plan, "trialing")]
  BY DEF SubscriptionCreated
<1>3. /\ Subscription(x.org, x.customer, x.plan, "trialing") \in SubRecords
      /\ Subscription(x.org, x.customer, x.plan, "trialing").org = x.org
      /\ Subscription(x.org, x.customer, x.plan, "trialing").customer = x.customer
      /\ Subscription(x.org, x.customer, x.plan, "trialing").status = "trialing"
  BY <1>1 DEF Subscription, SubRecords, StripeStatuses, RowStatuses
<1>4. stripeSub[s] = NoSub
  BY DEF SubscriptionCreated
<1>5. stripeSub'[s] = Subscription(x.org, x.customer, x.plan, "trialing")
      /\ \A t \in Subs \ {s} : stripeSub'[t] = stripeSub[t]
  BY <1>1, <1>2
<1>6. stripeSub' \in [Subs -> StripeSubs]
  BY <1>1, <1>2, <1>3 DEF SubRecords, StripeSubs
<1> QED
  BY <1>2, <1>3, <1>4, <1>5, <1>6

LEMMA StripeTyped ==
  ASSUME Typed, NEW s \in Subs, Stripe(s)
  PROVE  Typed'
<1>0. sessions \subseteq [org : Orgs, customer : Customers, plan : Plans]
      /\ stripeSub \in [Subs -> StripeSubs]
  BY DEF Typed, TypeOK
<1>1. CASE SubscriptionCreated(s)
  <2>1. \E readable \in BOOLEAN : Log("subscription.created", s, readable)
    BY <1>1 DEF SubscriptionCreated
  <2>2. \E e \in Events : Len(events) < MaxEvents /\ events' = Append(events, e)
    BY <1>1, <2>1, CreatedSub, EventTyped DEF EventTypes, SubRecords
  <2> QED
    BY <1>0, <1>1, <2>2, CreatedSub, LoggedTyped DEF SubscriptionCreated
<1>2. CASE SubscriptionChanges(s)
  <2>1. \E readable \in BOOLEAN : Log("subscription.updated", s, readable)
    BY <1>2 DEF SubscriptionChanges
  <2>2. \E e \in Events : Len(events) < MaxEvents /\ events' = Append(events, e)
    BY <1>2, <2>1, ChangedSub, EventTyped DEF EventTypes, SubRecords
  <2> QED
    BY <1>0, <1>2, <2>2, ChangedSub, LoggedTyped DEF SubscriptionChanges
<1>3. CASE SubscriptionDeleted(s)
  <2>1. Log("subscription.deleted", s, FALSE)
    BY <1>3 DEF SubscriptionDeleted
  <2>2. \E e \in Events : Len(events) < MaxEvents /\ events' = Append(events, e)
    BY <1>3, <2>1, ChangedSub, EventTyped DEF EventTypes, SubRecords
  <2> QED
    BY <1>0, <1>3, <2>2, ChangedSub, LoggedTyped DEF SubscriptionDeleted
<1>4. CASE InvoiceEvent(s)
  <2>1. \E e \in Events : Len(events) < MaxEvents /\ events' = Append(events, e)
    BY <1>4, InvoiceTyped
  <2> QED
    BY <1>0, <1>4, <2>1, LoggedTyped DEF InvoiceEvent
<1> QED
  BY <1>1, <1>2, <1>3, <1>4 DEF Stripe

\* What a delivery has in hand when it writes.
LEMMA HandledEvent ==
  ASSUME Typed, NEW h \in Hooks, hook[h].at # "idle"
  PROVE  LET event == events[hook[h].event] IN
         /\ hook[h].event \in DOMAIN events /\ event \in Events
         /\ event.org \in Orgs /\ event.sub \in Subs /\ event.customer \in Customers
         /\ event.type \in EventTypes
<1>1. /\ hook[h].event \in DOMAIN events /\ events[hook[h].event].org # None
      /\ events \in Seq(Events) /\ Bounded
  BY DEF Typed, TypeOK, HooksHold
<1>2. events[hook[h].event] \in Events
  BY <1>1, EventInRange
<1> QED
  BY <1>1, <1>2 DEF Events

\* What the upsert and the updates make of a row.
LEMMA Written ==
  ASSUME NEW old \in Rows, NEW event \in Events, NEW plan \in Plans \union {None},
         old = NoRow => plan # None
  PROVE  /\ Upserted(old, event, plan) \in Rows \ {NoRow}
         /\ Upserted(old, event, plan).sub = event.sub
         /\ Upserted(old, event, plan).customer = event.customer
         /\ Upserted(old, event, plan).status = NormaliseStatus(event.status)
         /\ Marked(old, event) \in Rows
         /\ old = NoRow => Marked(old, event) = NoRow
         /\ old # NoRow => /\ Marked(old, event) # NoRow
                           /\ Marked(old, event).sub = old.sub
                           /\ Marked(old, event).customer = old.customer
                           /\ Marked(old, event).status = StatusOf(event)
<1>1. event.sub \in Subs /\ event.customer \in Customers
  BY DEF Events
<1>2. NormaliseStatus(event.status) \in RowStatuses /\ StatusOf(event) \in RowStatuses
  BY DEF NormaliseStatus, StatusOf, RowStatuses
<1>3. CASE old = NoRow
  BY <1>1, <1>2, <1>3 DEF Upserted, Marked, Rows, NoRow, RowStatuses
<1>4. CASE old # NoRow
  <2>1. old \in [plan : Plans, status : RowStatuses, sub : Subs, customer : Customers]
    BY <1>4 DEF Rows
  <2>2. old.plan \in Plans /\ old.sub \in Subs /\ old.customer \in Customers
    BY <2>1
  <2>3. Upserted(old, event, plan) = [plan |-> old.plan, status |-> NormaliseStatus(event.status),
                                      sub |-> event.sub, customer |-> event.customer]
    BY <1>4, <2>1 DEF Upserted
  <2>4. Marked(old, event) = [plan |-> old.plan, status |-> StatusOf(event), sub |-> old.sub,
                              customer |-> old.customer]
    BY <1>4, <2>1 DEF Marked
  <2> QED
    BY <1>1, <1>2, <1>4, <2>2, <2>3, <2>4 DEF Rows, NoRow, RowStatuses
<1> QED
  BY <1>3, <1>4

\* A delivery, its writes and failures leave requests and Stripe alone.
LEMMA HookKeeps ==
  ASSUME Typed, Hooked', HooksHold', row' \in [Orgs -> Rows], acked' \subseteq DOMAIN events,
         written' \subseteq DOMAIN events, late' \subseteq Orgs,
         UNCHANGED <<dated, offered, stripe, request>>
  PROVE  Typed'
<1>1. /\ Bounded /\ RequestsHold /\ NonEvents /\ Requested /\ Logged
      /\ late \subseteq Orgs /\ dated \in BOOLEAN /\ offered \subseteq Plans
  BY TypeParts DEF Typed
<1>2. /\ Bounded' /\ RequestsHold' /\ NonEvents' /\ Requested' /\ Logged'
      /\ late' \subseteq Orgs /\ dated' \in BOOLEAN /\ offered' \subseteq Plans
  BY <1>1 DEF stripe, Bounded, RequestsHold, NonEvents, Requested, Logged
<1> QED
  BY <1>2, TypePartsNext DEF Typed

LEMMA HookTyped ==
  ASSUME Typed, NEW h \in Hooks, Webhook(h)
  PROVE  Typed'
<1>0. /\ HooksHold /\ Hooked /\ row \in [Orgs -> Rows] /\ acked \subseteq DOMAIN events
      /\ events \in Seq(Events) /\ Bounded /\ offered \subseteq Plans
      /\ written \subseteq DOMAIN events /\ late \subseteq Orgs
  BY DEF Typed, TypeOK, Hooked
<1>1. ASSUME Release(h) PROVE Hooked' /\ (events' = events => HooksHold')
  BY <1>0, <1>1, BillingAssumption DEF Release, Hooked, HooksHold, Free
<1>2. ASSUME NEW e \in DOMAIN events, Deliver(h, e) PROVE Typed'
  <2>1. e \in 0 .. MaxEvents
    BY <1>0, EventInRange
  <2>2. acked' \subseteq DOMAIN events
    BY <1>0, <1>2 DEF Deliver
  <2>3. Hooked' /\ HooksHold'
    <3>1. CASE UNCHANGED hook
      BY <1>0, <1>2, <3>1 DEF Deliver, Hooked, HooksHold, stripe
    <3>2. ASSUME NEW at \in {"plan", "write"}, events[e].org # None,
                 hook' = [hook EXCEPT ![h] = [at |-> at, event |-> e, plan |-> None]]
          PROVE  Hooked' /\ HooksHold'
      <4>1. Hooked'
        BY <1>0, <2>1, <3>2 DEF Hooked
      <4>2. hook'[h].event = e /\ \A g \in Hooks \ {h} : hook'[g] = hook[g]
        BY <1>0, <3>2 DEF Hooked
      <4> QED
        BY <1>0, <1>2, <3>2, <4>1, <4>2 DEF Deliver, HooksHold, stripe
    <3> QED
      BY <1>2, <3>1, <3>2 DEF Deliver, Handling
  <2> QED
    BY <1>0, <1>2, <2>2, <2>3, HookKeeps DEF Deliver, history
<1>3. CASE ResolvePlan(h)
  <2>1. hook[h].at # "idle"
    BY <1>3 DEF ResolvePlan
  <2>2. events[hook[h].event].price \in Plans \union {None}
    BY <2>1, HandledEvent DEF Events
  <2>3. PICK p \in Resolved(events[hook[h].event]) :
          hook' = [hook EXCEPT ![h] = Handling("write", @.event, p)]
    BY <1>3 DEF ResolvePlan
  <2>4. p \in Plans \union {None}
    BY <1>0, <2>2, <2>3 DEF Resolved
  <2>5. Hooked'
    BY <1>0, <2>3, <2>4 DEF Hooked, Handling
  <2>6. HooksHold'
    BY <1>0, <1>3, <2>1, <2>3 DEF HooksHold, Hooked, Handling, ResolvePlan, stripe
  <2> QED
    BY <1>0, <1>3, <2>5, <2>6, HookKeeps DEF ResolvePlan, history
<1>4. CASE HookWrites(h)
  <2> DEFINE event == events[hook[h].event]
  <2>1. hook[h].at # "idle" /\ Writable(h) /\ hook[h].plan \in Plans \union {None}
    BY <1>0, <1>4 DEF HookWrites, Hooked
  <2>2. event \in Events /\ event.org \in Orgs /\ hook[h].event \in DOMAIN events
    BY <2>1, HandledEvent
  <2>3. row[event.org] \in Rows
    BY <1>0, <2>2
  <2>4. Upserts(event) => Upserted(row[event.org], event, hook[h].plan) \in Rows
    BY <2>1, <2>2, <2>3, Written DEF Writable
  <2>5. ~Upserts(event) => Marked(row[event.org], event) \in Rows
    <3>1. CASE row[event.org] = NoRow
      BY <2>3, <3>1 DEF Marked
    <3>2. CASE row[event.org] # NoRow
      BY <2>1, <2>2, <2>3, <3>2, Written
    <3> QED
      BY <3>1, <3>2
  <2>6. row' \in [Orgs -> Rows]
    BY <1>0, <1>4, <2>2, <2>4, <2>5 DEF HookWrites
  <2>7. /\ acked' \subseteq DOMAIN events
        /\ written' \subseteq DOMAIN events /\ late' \subseteq Orgs
    BY <1>0, <1>4, <2>2 DEF HookWrites
  <2> QED
    BY <1>1, <1>4, <2>6, <2>7, HookKeeps DEF HookWrites, stripe
<1>5. CASE HookFails(h)
  BY <1>0, <1>1, <1>5, HookKeeps DEF HookFails, stripe, history
<1> QED
  BY <1>2, <1>3, <1>4, <1>5 DEF Webhook

LEMMA NextTyped == Typed /\ [Next]_vars => Typed'
<1> SUFFICES ASSUME Typed, [Next]_vars PROVE Typed'
  OBVIOUS
<1>1. CASE UNCHANGED vars
  BY <1>1 DEF vars, Typed, TypeOK, Bounded, HooksHold, RequestsHold
<1> QED
  BY <1>1, ApiTyped, StripeTyped, HookTyped DEF Next

\* Every variable keeps its type: a row always has a plan of the catalogue, a
\* status of its own vocabulary and the two Stripe ids.
THEOREM TypeCorrect == Safety => []TypeOK
<1>1. Typed => TypeOK
  BY DEF Typed
<1> QED
  BY <1>1, InitTyped, NextTyped, PTL DEF Safety

-----------------------------------------------------------------------------
(* Isolation.  What BillingStaysInTenant says of rows and requests is kept *)
(* because the same is true one step earlier: of subscriptions at Stripe,  *)
(* of the sessions they come from, and of every event in the log, however  *)
(* old and however often delivered.                                        *)

SubsOwned ==
  \A s \in Subs : stripeSub[s] # NoSub => customer[stripeSub[s].customer] = stripeSub[s].org

SessionsOwned == \A x \in sessions : customer[x.customer] = x.org

\* An event tells the tenant and the customer of its subscription; only the end of
\* the subscription tells that it is canceled.
EventTrue(e) ==
  LET sub == stripeSub[events[e].sub] IN
  /\ sub # NoSub
  /\ events[e].customer = sub.customer
  /\ events[e].org \in {sub.org, None}
  /\ events[e].type = "subscription.deleted" => sub.status = "canceled"
  /\ Upserts(events[e]) => events[e].status # "canceled"

EventsTrue == \A e \in DOMAIN events : EventTrue(e)

RowHolds(o) ==
  row[o] # NoRow =>
    /\ stripeSub[row[o].sub].org = o
    /\ stripeSub[row[o].sub].customer = row[o].customer
    /\ customer[row[o].customer] = o
    /\ \E e \in EventsOf(o) : row[o].status = StatusOf(events[e])
    /\ row[o].status = "canceled" =>
         \E s \in Subs : stripeSub[s].org = o /\ stripeSub[s].status = "canceled"

RequestsOwned ==
  \A q \in Requests : request[q].customer # None => customer[request[q].customer] = request[q].org

BillingInv ==
  /\ Typed /\ SubsOwned /\ SessionsOwned /\ EventsTrue
  /\ (\A o \in Orgs : RowHolds(o)) /\ RequestsOwned

\* What no step takes back: a customer's tenant, a subscription's tenant, customer
\* and end, and what was logged.
CustomersKept == \A k \in Customers : customer[k] # None => customer'[k] = customer[k]
SubsKept ==
  \A s \in Subs : stripeSub[s] # NoSub =>
    /\ stripeSub'[s] # NoSub
    /\ stripeSub'[s].org = stripeSub[s].org /\ stripeSub'[s].customer = stripeSub[s].customer
    /\ stripeSub[s].status = "canceled" => stripeSub'[s].status = "canceled"
LogKept == \A i \in DOMAIN events : i \in DOMAIN events' /\ events'[i] = events[i]

LEMMA InitOwned == Init => BillingInv
<1> SUFFICES ASSUME Init PROVE BillingInv
  OBVIOUS
<1>1. SubsOwned /\ SessionsOwned /\ \A o \in Orgs : RowHolds(o)
  BY DEF Init, SubsOwned, SessionsOwned, RowHolds
<1>2. EventsTrue
  BY DEF Init, EventsTrue
<1>3. RequestsOwned
  BY DEF Init, RequestsOwned, Idle
<1> QED
  BY <1>1, <1>2, <1>3, InitTyped DEF BillingInv

LEMMA NothingTakenBack ==
  ASSUME Typed, Next
  PROVE  CustomersKept /\ SubsKept /\ LogKept
<1>0. customer \in [Customers -> Orgs \union {None}] /\ stripeSub \in [Subs -> StripeSubs]
      /\ events \in Seq(Events) /\ Bounded
  BY DEF Typed, TypeOK
<1>1. ASSUME UNCHANGED stripe PROVE CustomersKept /\ SubsKept /\ LogKept
  BY <1>1 DEF stripe, CustomersKept, SubsKept, LogKept
<1>2. ASSUME NEW q \in Requests, Api(q) PROVE CustomersKept /\ SubsKept /\ LogKept
  <2>1. UNCHANGED <<stripeSub, events>>
    BY <1>2 DEF Api, CheckoutStart, PortalStart, CheckoutSearch, CheckoutCustomer,
                CheckoutSession, PortalSession, RequestFails, stripe
  <2>2. \/ UNCHANGED customer
        \/ \E k \in Customers, o \in Orgs \union {None} :
             customer[k] = None /\ customer' = [customer EXCEPT ![k] = o]
    <3>1. request[q].org \in Orgs \union {None}
      BY DEF Typed, TypeOK
    <3> QED
      BY <1>2, <3>1 DEF Api, CheckoutStart, PortalStart, CheckoutSearch, CheckoutCustomer,
                        CheckoutSession, PortalSession, RequestFails, stripe
  <2>3. CustomersKept
    BY <1>0, <2>2 DEF CustomersKept
  <2> QED
    BY <2>1, <2>3 DEF SubsKept, LogKept
<1>3. ASSUME NEW s \in Subs, Stripe(s) PROVE CustomersKept /\ SubsKept /\ LogKept
  <2>1. UNCHANGED customer
    BY <1>3 DEF Stripe, SubscriptionCreated, SubscriptionChanges, SubscriptionDeleted, InvoiceEvent
  <2>2. SubsKept
    <3>1. CASE SubscriptionCreated(s)
      BY <3>1, CreatedSub DEF SubsKept
    <3>2. CASE SubscriptionChanges(s) \/ SubscriptionDeleted(s)
      <4>1. stripeSub'[s] # NoSub
        BY <3>2, ChangedSub, BillingAssumption DEF SubRecords, NoSub
      <4> QED
        BY <3>2, <4>1, ChangedSub DEF SubsKept
    <3>3. CASE InvoiceEvent(s)
      BY <3>3 DEF InvoiceEvent, SubsKept
    <3> QED
      BY <1>3, <3>1, <3>2, <3>3 DEF Stripe
  <2>3. \E e : events' = Append(events, e)
    BY <1>3 DEF Stripe, SubscriptionCreated, SubscriptionChanges, SubscriptionDeleted, InvoiceEvent, Log
  <2>4. LogKept
    <3>1. Len(events) \in Nat /\ DOMAIN events = 1 .. Len(events)
      BY <1>0
    <3> QED
      BY <1>0, <2>3, <3>1 DEF LogKept
  <2> QED
    BY <2>1, <2>2, <2>4 DEF CustomersKept
<1>4. ASSUME NEW h \in Hooks, Webhook(h) PROVE CustomersKept /\ SubsKept /\ LogKept
  BY <1>1, <1>4 DEF Webhook, Deliver, ResolvePlan, HookWrites, HookFails
<1> QED
  BY <1>2, <1>3, <1>4 DEF Next

\* So everything that was true stays true; only what a step adds is left to show.
LEMMA StaysTrue ==
  ASSUME BillingInv, CustomersKept, SubsKept, LogKept
  PROVE  /\ \A s \in Subs : stripeSub[s] # NoSub =>
              customer'[stripeSub'[s].customer] = stripeSub'[s].org
         /\ \A x \in sessions : customer'[x.customer] = x.org
         /\ \A e \in DOMAIN events : EventTrue(e)'
         /\ \A o \in Orgs : row'[o] = row[o] => RowHolds(o)'
         /\ \A q \in Requests : request'[q] = request[q] =>
              (request'[q].customer # None => customer'[request'[q].customer] = request'[q].org)
<1>0. /\ Typed /\ SubsOwned /\ SessionsOwned /\ EventsTrue /\ RequestsOwned
      /\ \A o \in Orgs : RowHolds(o)
      /\ stripeSub \in [Subs -> StripeSubs] /\ events \in Seq(Events) /\ Bounded
      /\ sessions \subseteq [org : Orgs, customer : Customers, plan : Plans]
      /\ Requested /\ row \in [Orgs -> Rows]
  BY TypeParts DEF BillingInv, Typed, NonEvents, Logged
<1>1. ASSUME NEW s \in Subs, stripeSub[s] # NoSub
      PROVE  /\ customer'[stripeSub'[s].customer] = stripeSub'[s].org
             /\ stripeSub[s].customer \in Customers /\ stripeSub[s].org \in Orgs
  <2>1. stripeSub[s].customer \in Customers /\ stripeSub[s].org \in Orgs
    BY <1>0, <1>1 DEF StripeSubs
  <2> QED
    BY <1>0, <1>1, <2>1, BillingAssumption DEF SubsOwned, CustomersKept, SubsKept
<1>2. ASSUME NEW x \in sessions PROVE customer'[x.customer] = x.org
  <2>1. x.customer \in Customers /\ x.org \in Orgs
    BY <1>0
  <2> QED
    BY <1>0, <2>1, BillingAssumption DEF SessionsOwned, CustomersKept
<1>3. ASSUME NEW e \in DOMAIN events PROVE EventTrue(e)'
  <2>1. EventTrue(e) /\ events'[e] = events[e]
    BY <1>0 DEF EventsTrue, LogKept
  <2>2. events[e].sub \in Subs
    BY <1>0, EventInRange DEF Events
  <2> QED
    BY <2>1, <2>2 DEF EventTrue, SubsKept, Upserts
<1>4. ASSUME NEW o \in Orgs, row'[o] = row[o] PROVE RowHolds(o)'
  <2>0. CASE row[o] = NoRow
    BY <1>4, <2>0 DEF RowHolds
  <2>1. CASE row[o] # NoRow
    <3>1. row[o].sub \in Subs /\ row[o].customer \in Customers /\ RowHolds(o)
      BY <1>0, <2>1 DEF Rows
    <3>2. stripeSub[row[o].sub] # NoSub
      BY <2>1, <3>1, BillingAssumption DEF RowHolds, NoSub
    <3>3. /\ stripeSub'[row[o].sub].org = o
          /\ stripeSub'[row[o].sub].customer = row[o].customer
          /\ customer'[row[o].customer] = o
      BY <2>1, <3>1, <3>2, BillingAssumption DEF RowHolds, SubsKept, CustomersKept
    <3>4. \E e \in EventsOf(o)' : row[o].status = StatusOf(events'[e])
      BY <2>1, <3>1 DEF RowHolds, EventsOf, LogKept
    <3>5. row[o].status = "canceled" =>
            \E s \in Subs : stripeSub'[s].org = o /\ stripeSub'[s].status = "canceled"
      <4>1. SUFFICES ASSUME NEW s \in Subs, stripeSub[s].org = o, stripeSub[s].status = "canceled"
                     PROVE  stripeSub'[s].org = o /\ stripeSub'[s].status = "canceled"
        BY <2>1, <3>1 DEF RowHolds
      <4>2. stripeSub[s] # NoSub
        BY <4>1, BillingAssumption DEF NoSub
      <4> QED
        BY <4>1, <4>2 DEF SubsKept
    <3> QED
      BY <1>4, <3>3, <3>4, <3>5 DEF RowHolds
  <2> QED
    BY <2>0, <2>1
<1>5. ASSUME NEW q \in Requests, request'[q] = request[q], request[q].customer # None
      PROVE  customer'[request[q].customer] = request[q].org
  <2>1. request[q].customer \in Customers /\ request[q].org \in Orgs
    BY <1>0, <1>5 DEF Requested, RequestRecords, Typed, RequestsHold
  <2> QED
    BY <1>0, <1>5, <2>1, BillingAssumption DEF RequestsOwned, CustomersKept
<1> QED
  BY <1>1, <1>2, <1>3, <1>4, <1>5

\* A request names a customer it found by, or created with, its tenant's id, or the
\* one of its tenant's row; the session it makes is of both.
LEMMA ApiOwned ==
  ASSUME BillingInv, NEW q \in Requests, Api(q), Typed'
  PROVE  BillingInv'
<1>0. /\ Typed /\ Requested /\ RequestsHold /\ RequestsOwned
      /\ customer \in [Customers -> Orgs \union {None}]
      /\ \A o \in Orgs : RowHolds(o)
  BY TypeParts DEF BillingInv, Typed, NonEvents
<1>1. CustomersKept /\ SubsKept /\ LogKept
  BY <1>0, NothingTakenBack DEF Next
<1>2. UNCHANGED <<row, stripeSub, events>>
  BY DEF Api, CheckoutStart, PortalStart, CheckoutSearch, CheckoutCustomer, CheckoutSession,
         PortalSession, RequestFails, stripe
<1>3. SubsOwned' /\ EventsTrue' /\ \A o \in Orgs : RowHolds(o)'
  BY <1>1, <1>2, StaysTrue DEF SubsOwned, EventsTrue
<1>4. ASSUME NEW at, NEW o, NEW p, NEW k,
             Resume(q, Asks(at, o, p, k)) , k # None => customer'[k] = o
      PROVE  RequestsOwned'
  <2>1. request'[q] = [at |-> at, org |-> o, plan |-> p, customer |-> k]
        /\ \A r \in Requests \ {q} : request'[r] = request[r]
    BY <1>0, <1>4 DEF Resume, Asks, Requested
  <2> QED
    BY <1>1, <1>4, <2>1, StaysTrue DEF RequestsOwned
<1>5. ASSUME Resume(q, Idle) PROVE RequestsOwned'
  <2>1. request'[q] = Idle /\ \A r \in Requests \ {q} : request'[r] = request[r]
    BY <1>0, <1>5 DEF Resume, Requested
  <2> QED
    BY <1>1, <2>1, StaysTrue DEF RequestsOwned, Idle
<1>6. RequestsOwned'
  <2>1. ASSUME NEW o \in Orgs, CheckoutStart(q, o) PROVE RequestsOwned'
    BY <1>4, <2>1 DEF CheckoutStart
  <2>2. ASSUME NEW o \in Orgs, PortalStart(q, o) PROVE RequestsOwned'
    <3>1. customer'[row[o].customer] = o
      BY <1>0, <2>2 DEF PortalStart, stripe, RowHolds
    <3> QED
      BY <1>4, <2>2, <3>1 DEF PortalStart
  <2>3. CASE CheckoutSearch(q)
    BY <1>4, <2>3 DEF CheckoutSearch, Tagged, stripe
  <2>4. CASE CheckoutCustomer(q)
    <3>1. PICK k \in Customers : /\ customer' = [customer EXCEPT ![k] = request[q].org]
                                 /\ Resume(q, Asks("session.create", request[q].org, request[q].plan, k))
      BY <2>4 DEF CheckoutCustomer
    <3> QED
      BY <1>0, <1>4, <3>1
  <2>5. CASE CheckoutSession(q) \/ PortalSession(q) \/ RequestFails(q)
    BY <1>5, <2>5 DEF CheckoutSession, PortalSession, RequestFails
  <2> QED
    BY <2>1, <2>2, <2>3, <2>4, <2>5 DEF Api
<1>7. SessionsOwned'
  <2>1. CASE UNCHANGED sessions
    BY <1>1, <2>1, StaysTrue DEF SessionsOwned
  <2>2. CASE CheckoutSession(q)
    <3>1. request[q].customer # None /\ UNCHANGED customer
      BY <1>0, <2>2, BillingAssumption DEF CheckoutSession, RequestsHold
    <3>2. customer'[request[q].customer] = request[q].org
      BY <1>0, <3>1 DEF RequestsOwned
    <3> QED
      BY <1>1, <2>2, <3>2, StaysTrue DEF CheckoutSession, SessionsOwned
  <2> QED
    BY <2>1, <2>2 DEF Api, CheckoutStart, PortalStart, CheckoutSearch, CheckoutCustomer,
                      PortalSession, RequestFails, stripe
<1> QED
  BY <1>3, <1>6, <1>7 DEF BillingInv

\* A subscription is that of its session, and its events tell what it is.
LEMMA StripeOwned ==
  ASSUME BillingInv, NEW s \in Subs, Stripe(s), Typed'
  PROVE  BillingInv'
<1>0. /\ Typed /\ SessionsOwned /\ SubsOwned
      /\ events \in Seq(Events) /\ Bounded /\ stripeSub \in [Subs -> StripeSubs]
  BY DEF BillingInv, Typed, TypeOK
<1>1. CustomersKept /\ SubsKept /\ LogKept
  BY <1>0, NothingTakenBack DEF Next
<1>2. UNCHANGED <<row, request, customer>>
  BY DEF Stripe, SubscriptionCreated, SubscriptionChanges, SubscriptionDeleted, InvoiceEvent
<1>3. RequestsOwned' /\ \A o \in Orgs : RowHolds(o)'
  BY <1>1, <1>2, StaysTrue DEF RequestsOwned
<1>4. sessions' \subseteq sessions
  BY <1>0, CreatedSub DEF Stripe, SubscriptionChanges, SubscriptionDeleted, InvoiceEvent
<1>5. SessionsOwned'
  BY <1>1, <1>4, StaysTrue DEF SessionsOwned
<1>6. SubsOwned'
  <2>1. \A t \in Subs \ {s} : stripeSub'[t] = stripeSub[t]
    BY <1>0, CreatedSub, ChangedSub DEF Stripe, InvoiceEvent
  <2>2. stripeSub[s] = NoSub => customer'[stripeSub'[s].customer] = stripeSub'[s].org
                                \/ stripeSub'[s] = NoSub
    <3>1. CASE SubscriptionCreated(s)
      BY <1>0, <1>2, <3>1, CreatedSub DEF SessionsOwned
    <3>2. CASE SubscriptionChanges(s) \/ SubscriptionDeleted(s)
      BY <1>0, <3>2, ChangedSub, BillingAssumption DEF SubRecords, NoSub
    <3>3. CASE InvoiceEvent(s)
      BY <3>3 DEF InvoiceEvent
    <3> QED
      BY <3>1, <3>2, <3>3 DEF Stripe
  <2> QED
    BY <1>1, <2>1, <2>2, StaysTrue DEF SubsOwned
<1>7. ASSUME NEW e \in Events, Len(events) < MaxEvents, events' = Append(events, e),
             LET sub == stripeSub'[s] IN
             /\ sub # NoSub /\ e.sub = s /\ e.customer = sub.customer /\ e.org \in {sub.org, None}
             /\ e.type = "subscription.deleted" => sub.status = "canceled"
             /\ Upserts(e) => e.status # "canceled"
      PROVE  EventsTrue'
  <2>1. /\ DOMAIN events' = DOMAIN events \union {Len(events')}
        /\ events'[Len(events')] = e
    BY <1>0, <1>7, LogGrows
  <2>2. ASSUME NEW i, events'[i] = e PROVE EventTrue(i)'
    BY <1>7, <2>2 DEF EventTrue, Upserts
  <2> QED
    BY <1>1, <2>1, <2>2, StaysTrue DEF EventsTrue
<1>8. EventsTrue'
  <2>1. CASE SubscriptionCreated(s)
    <3>1. \E readable \in BOOLEAN : Log("subscription.created", s, readable)
      BY <2>1 DEF SubscriptionCreated
    <3>2. stripeSub'[s] \in SubRecords /\ stripeSub'[s].status = "trialing" /\ stripeSub'[s] # NoSub
      BY <1>0, <2>1, CreatedSub, BillingAssumption DEF SubRecords, NoSub
    <3>3. \E e \in Events :
            /\ Len(events) < MaxEvents /\ events' = Append(events, e)
            /\ e.sub = s /\ e.type = "subscription.created" /\ e.org = stripeSub'[s].org
            /\ e.customer = stripeSub'[s].customer /\ e.status = "trialing"
      BY <3>1, <3>2, EventTyped DEF EventTypes, SubRecords
    <3> QED
      BY <1>7, <3>2, <3>3
  <2>2. CASE SubscriptionChanges(s)
    <3>1. \E readable \in BOOLEAN : Log("subscription.updated", s, readable)
      BY <2>2 DEF SubscriptionChanges
    <3>2. stripeSub'[s] \in SubRecords /\ stripeSub'[s].status # "canceled" /\ stripeSub'[s] # NoSub
      BY <1>0, <2>2, ChangedSub, BillingAssumption DEF SubRecords, NoSub
    <3>3. \E e \in Events :
            /\ Len(events) < MaxEvents /\ events' = Append(events, e)
            /\ e.sub = s /\ e.type = "subscription.updated" /\ e.org = stripeSub'[s].org
            /\ e.customer = stripeSub'[s].customer /\ e.status = stripeSub'[s].status
      BY <3>1, <3>2, EventTyped DEF EventTypes, SubRecords
    <3> QED
      BY <1>7, <3>2, <3>3
  <2>3. CASE SubscriptionDeleted(s)
    <3>1. \E readable \in BOOLEAN : Log("subscription.deleted", s, readable)
      BY <2>3 DEF SubscriptionDeleted
    <3>2. stripeSub'[s] \in SubRecords /\ stripeSub'[s].status = "canceled" /\ stripeSub'[s] # NoSub
      BY <1>0, <2>3, ChangedSub, BillingAssumption DEF SubRecords, NoSub
    <3>3. \E e \in Events :
            /\ Len(events) < MaxEvents /\ events' = Append(events, e)
            /\ e.sub = s /\ e.type = "subscription.deleted" /\ e.org = stripeSub'[s].org
            /\ e.customer = stripeSub'[s].customer
      BY <3>1, <3>2, EventTyped DEF EventTypes, SubRecords
    <3> QED
      BY <1>7, <3>2, <3>3 DEF Upserts
  <2>4. CASE InvoiceEvent(s)
    <3>1. stripeSub[s] # NoSub /\ UNCHANGED stripeSub
      BY <2>4 DEF InvoiceEvent, NoSub
    <3> QED
      BY <1>0, <1>7, <2>4, <3>1, InvoiceTyped DEF Upserts
  <2> QED
    BY <2>1, <2>2, <2>3, <2>4 DEF Stripe
<1> QED
  BY <1>3, <1>5, <1>6, <1>8 DEF BillingInv

\* A delivery writes what its event tells, to the row of the tenant it names.
LEMMA HookOwned ==
  ASSUME BillingInv, NEW h \in Hooks, Webhook(h), Typed'
  PROVE  BillingInv'
<1>0. /\ Typed /\ RequestsOwned /\ SubsOwned /\ EventsTrue /\ \A o \in Orgs : RowHolds(o)
      /\ row \in [Orgs -> Rows] /\ Hooked /\ stripeSub \in [Subs -> StripeSubs]
  BY TypeParts DEF BillingInv, Typed, NonEvents
<1>1. CustomersKept /\ SubsKept /\ LogKept
  BY <1>0, NothingTakenBack DEF Next
<1>2. UNCHANGED <<stripe, request>>
  BY DEF Webhook, Deliver, ResolvePlan, HookWrites, HookFails
<1>3. SubsOwned' /\ SessionsOwned' /\ EventsTrue' /\ RequestsOwned'
  BY <1>1, <1>2, StaysTrue DEF stripe, SubsOwned, SessionsOwned, EventsTrue, RequestsOwned
<1>4. CASE UNCHANGED row
  BY <1>1, <1>3, <1>4, StaysTrue DEF BillingInv
<1>5. CASE HookWrites(h)
  <2> DEFINE event == events[hook[h].event]
             org == event.org
             sub == stripeSub[event.sub]
  <2>1. hook[h].at # "idle" /\ Writable(h) /\ hook[h].plan \in Plans \union {None}
    BY <1>0, <1>5 DEF HookWrites, Hooked
  <2>2. /\ hook[h].event \in DOMAIN events /\ event \in Events /\ org \in Orgs
        /\ event.sub \in Subs /\ event.customer \in Customers /\ event.type \in EventTypes
    BY <1>0, <2>1, HandledEvent
  <2>3. EventTrue(hook[h].event)
    BY <1>0, <2>2 DEF EventsTrue
  <2>4. /\ sub # NoSub /\ sub.org = org /\ event.customer = sub.customer
        /\ event.type = "subscription.deleted" => sub.status = "canceled"
        /\ Upserts(event) => event.status # "canceled"
    BY <2>2, <2>3, BillingAssumption DEF EventTrue
  <2>5. customer[event.customer] = org
    BY <1>0, <2>2, <2>4 DEF SubsOwned
  <2>6. /\ hook[h].event \in EventsOf(org)
        /\ StatusOf(event) = "canceled" => event.type = "subscription.deleted"
        /\ Upserts(event) => StatusOf(event) = NormaliseStatus(event.status)
    BY <2>2, <2>4, Zenon DEF EventsOf, StatusOf, Upserts, EventTypes, NormaliseStatus
  <2>7. /\ row'[org] = IF Upserts(event) THEN Upserted(row[org], event, hook[h].plan)
                                          ELSE Marked(row[org], event)
        /\ \A o \in Orgs \ {org} : row'[o] = row[o]
    BY <1>0, <1>5, <2>2 DEF HookWrites
  <2>8. /\ row[org] \in Rows
        /\ Upserts(event) => (row[org] = NoRow => hook[h].plan # None)
    BY <1>0, <2>1, <2>2 DEF Writable
  <2>9. row'[org] # NoRow => row'[org].status = StatusOf(event)
    <3>1. CASE Upserts(event)
      BY <2>1, <2>2, <2>6, <2>7, <2>8, <3>1, Written
    <3>2. CASE ~Upserts(event) /\ row[org] = NoRow
      BY <2>7, <3>2 DEF Marked
    <3>3. CASE ~Upserts(event) /\ row[org] # NoRow
      BY <2>1, <2>2, <2>7, <2>8, <3>3, Written
    <3> QED
      BY <3>1, <3>2, <3>3
  <2>10. row'[org] # NoRow => /\ stripeSub[row'[org].sub].org = org
                              /\ stripeSub[row'[org].sub].customer = row'[org].customer
                              /\ customer[row'[org].customer] = org
    <3>1. CASE Upserts(event)
      BY <2>1, <2>2, <2>4, <2>5, <2>7, <2>8, <3>1, Written
    <3>2. CASE ~Upserts(event) /\ row[org] = NoRow
      BY <2>7, <3>2 DEF Marked
    <3>3. CASE ~Upserts(event) /\ row[org] # NoRow
      <4>1. row'[org].sub = row[org].sub /\ row'[org].customer = row[org].customer
        BY <2>1, <2>2, <2>7, <2>8, <3>3, Written
      <4>2. RowHolds(org)
        BY <1>0, <2>2
      <4> QED
        BY <3>3, <4>1, <4>2 DEF RowHolds
    <3> QED
      BY <3>1, <3>2, <3>3
  <2>11. ASSUME NEW o \in Orgs, o = org PROVE RowHolds(o)'
    BY <1>2, <2>2, <2>4, <2>6, <2>9, <2>10, <2>11 DEF RowHolds, stripe, EventsOf
  <2>12. \A o \in Orgs : RowHolds(o)'
    BY <1>1, <2>7, <2>11, StaysTrue
  <2> QED
    BY <1>3, <2>12 DEF BillingInv
<1> QED
  BY <1>4, <1>5 DEF Webhook, Deliver, ResolvePlan, HookFails

LEMMA NextOwned == BillingInv /\ [Next]_vars => BillingInv'
<1> SUFFICES ASSUME BillingInv, [Next]_vars PROVE BillingInv'
  OBVIOUS
<1>1. Typed'
  BY NextTyped DEF BillingInv
<1>2. CASE UNCHANGED vars
  BY <1>1, <1>2 DEF vars, BillingInv, SubsOwned, SessionsOwned, EventsTrue, EventTrue, Upserts,
                    RowHolds, EventsOf, RequestsOwned
<1> QED
  BY <1>1, <1>2, ApiOwned, StripeOwned, HookOwned DEF Next

\* No subscription, customer or status reaches another tenant's row, request or
\* session, for any number of concurrent deliveries in any order, repeated or lost.
THEOREM BillingIsolated == Safety => []BillingStaysInTenant
<1>1. BillingInv => BillingStaysInTenant
  BY DEF BillingInv, RowHolds, RequestsOwned, BillingStaysInTenant
<1> QED
  BY <1>1, InitOwned, NextOwned, PTL DEF Safety

-----------------------------------------------------------------------------
(* What a row shows.  RowFollowsEvents speaks of the moments at which all  *)
(* events of a tenant are acknowledged; what holds all the time is that    *)
(* the row of a tenant that none came late to shows the last of those      *)
(* written.  A tenant's first event makes its row: a payment or an end     *)
(* that finds none leaves no trace.                                        *)

EventsAnnounced ==
  \A e \in DOMAIN events : events[e].org # None =>
    \E d \in 1 .. e : Upserts(events[d]) /\ events[d].org = events[e].org

SubsAnnounced ==
  \A s \in Subs : stripeSub[s] # NoSub =>
    \E d \in DOMAIN events : Upserts(events[d]) /\ events[d].org = stripeSub[s].org

WrittenOf(o) == {e \in written : events[e].org = o}

RowFollows(o) ==
  \A u \in WrittenOf(o) : Upserts(events[u]) =>
    /\ row[o] # NoRow
    /\ \A e \in DOMAIN events : IsLast(e, WrittenOf(o)) => row[o].status = StatusOf(events[e])
    /\ IsLast(u, {d \in WrittenOf(o) : Upserts(events[d])}) => row[o].sub = events[u].sub

\* A 200 is the answer to an event that was written, or that names no tenant.
AckedAreWritten == \A e \in acked : events[e].org # None => e \in written

OrderInv ==
  /\ BillingInv /\ EventsAnnounced /\ SubsAnnounced
  /\ AckedAreWritten /\ \A o \in Orgs \ late : RowFollows(o)

LEMMA InitFollows == Init => OrderInv
BY InitOwned
DEF Init, OrderInv, EventsAnnounced, SubsAnnounced, AckedAreWritten, RowFollows, WrittenOf

\* A longer log leaves what was announced announced.
LEMMA LogAnnounced ==
  ASSUME EventsAnnounced, SubsAnnounced, LogKept, events \in Seq(Events)
  PROVE  /\ \A e \in DOMAIN events : events'[e].org # None =>
              \E d \in 1 .. e : Upserts(events'[d]) /\ events'[d].org = events'[e].org
         /\ \A s \in Subs : stripeSub[s] # NoSub =>
              \E d \in DOMAIN events : Upserts(events'[d]) /\ events'[d].org = stripeSub[s].org
<1>1. ASSUME NEW e \in DOMAIN events, NEW d \in 1 .. e PROVE d \in DOMAIN events
  OBVIOUS
<1> QED
  BY <1>1 DEF EventsAnnounced, SubsAnnounced, LogKept

\* An event that Stripe logs is of a tenant announced already, or announces it.
LEMMA StripeAnnounces ==
  ASSUME OrderInv, NEW s \in Subs, Stripe(s)
  PROVE  EventsAnnounced' /\ SubsAnnounced' /\ LogKept /\ Len(events') = Len(events) + 1
<1>0. /\ Typed /\ EventsAnnounced /\ SubsAnnounced
      /\ events \in Seq(Events) /\ Bounded /\ stripeSub \in [Subs -> StripeSubs]
  BY DEF OrderInv, BillingInv, Typed, TypeOK
<1>1. LogKept /\ SubsKept
  BY <1>0, NothingTakenBack DEF Next
<1> DEFINE Speaks(e) ==
             /\ Len(events) < MaxEvents /\ events' = Append(events, e)
             /\ stripeSub'[s].org # None
             /\ e.org \in {stripeSub'[s].org, None}
             /\ \/ Upserts(e) /\ e.org = stripeSub'[s].org
                \/ stripeSub[s] # NoSub /\ stripeSub[s].org = stripeSub'[s].org
<1>2. /\ \E e \in Events : Speaks(e)
      /\ \A t \in Subs \ {s} : stripeSub'[t] = stripeSub[t]
  <2>1. CASE SubscriptionCreated(s)
    <3>1. \E readable \in BOOLEAN : Log("subscription.created", s, readable)
      BY <2>1 DEF SubscriptionCreated
    <3>2. \E e \in Events :
            /\ Len(events) < MaxEvents /\ events' = Append(events, e)
            /\ e.type = "subscription.created" /\ e.org = stripeSub'[s].org
      BY <1>0, <2>1, <3>1, CreatedSub, EventTyped DEF EventTypes, SubRecords
    <3>3. stripeSub'[s].org # None
      BY <1>0, <2>1, CreatedSub, BillingAssumption DEF SubRecords
    <3> QED
      BY <1>0, <2>1, <3>2, <3>3, CreatedSub DEF Upserts
  <2>2. CASE SubscriptionChanges(s) \/ SubscriptionDeleted(s)
    <3>1. \E type \in EventTypes, readable \in BOOLEAN : Log(type, s, readable)
      BY <2>2 DEF SubscriptionChanges, SubscriptionDeleted, EventTypes
    <3>2. \E e \in Events : Len(events) < MaxEvents /\ events' = Append(events, e)
                            /\ e.org = stripeSub'[s].org
      BY <1>0, <2>2, <3>1, ChangedSub, EventTyped DEF SubRecords
    <3>3. stripeSub'[s].org = stripeSub[s].org /\ stripeSub'[s].org # None /\ stripeSub[s] # NoSub
      BY <1>0, <2>2, ChangedSub, BillingAssumption DEF SubRecords, NoSub
    <3> QED
      BY <1>0, <2>2, <3>2, <3>3, ChangedSub
  <2>3. CASE InvoiceEvent(s)
    <3>1. stripeSub[s] # NoSub /\ UNCHANGED stripeSub
      BY <2>3 DEF InvoiceEvent, NoSub
    <3>2. stripeSub[s].org # None
      BY <1>0, <3>1, BillingAssumption DEF StripeSubs
    <3> QED
      BY <1>0, <2>3, <3>1, <3>2, InvoiceTyped
  <2> QED
    BY <2>1, <2>2, <2>3 DEF Stripe
<1>3. PICK e \in Events : Speaks(e)
  BY <1>2
<1>4. /\ Len(events') = Len(events) + 1 /\ Len(events') \in DOMAIN events'
      /\ DOMAIN events' = DOMAIN events \union {Len(events')}
      /\ events'[Len(events')] = e /\ Len(events) \in Nat /\ DOMAIN events = 1 .. Len(events)
  BY <1>0, <1>3, LogGrows
<1>5. \E d \in DOMAIN events' : Upserts(events'[d]) /\ events'[d].org = stripeSub'[s].org
  BY <1>0, <1>1, <1>3, <1>4, LogAnnounced
<1>6. SubsAnnounced'
  <2>1. \A d \in DOMAIN events : d \in DOMAIN events'
    BY <1>4
  <2> QED
    BY <1>0, <1>1, <1>2, <1>5, <2>1, LogAnnounced DEF SubsAnnounced, Upserts
<1>7. EventsAnnounced'
  <2>1. DOMAIN events' = 1 .. Len(events')
    BY <1>4
  <2>2. e.org # None => \E d \in 1 .. Len(events') :
                           Upserts(events'[d]) /\ events'[d].org = e.org
    BY <1>3, <1>5, <2>1
  <2> QED
    BY <1>0, <1>1, <1>4, <2>2, LogAnnounced DEF EventsAnnounced, Upserts
<1> QED
  BY <1>1, <1>4, <1>6, <1>7

\* Where rows, acknowledgements and what was written stay, a longer log changes
\* nothing.
LEMMA OthersFollow ==
  ASSUME OrderInv, UNCHANGED <<row, acked, history>>, LogKept
  PROVE  AckedAreWritten' /\ \A o \in Orgs \ late' : RowFollows(o)'
<1>0. acked \subseteq DOMAIN events /\ written \subseteq DOMAIN events
  BY DEF OrderInv, BillingInv, Typed, TypeOK
<1>1. \A e \in written : e \in DOMAIN events /\ e \in DOMAIN events' /\ events'[e] = events[e]
  BY <1>0 DEF LogKept
<1>2. AckedAreWritten'
  BY <1>0 DEF OrderInv, AckedAreWritten, LogKept, history
<1>3. ASSUME NEW o \in Orgs \ late' PROVE RowFollows(o)'
  <2>1. RowFollows(o) /\ written' = written /\ row' = row
    BY DEF OrderInv, history
  <2>2. WrittenOf(o)' = WrittenOf(o)
    BY <1>1, <2>1 DEF WrittenOf
  <2>3. \A d \in WrittenOf(o) : d \in DOMAIN events /\ events'[d] = events[d]
    BY <1>1 DEF WrittenOf
  <2>4. {d \in WrittenOf(o)' : Upserts(events'[d])} = {d \in WrittenOf(o) : Upserts(events[d])}
    BY <2>2, <2>3
  <2> QED
    BY <2>1, <2>2, <2>3, <2>4 DEF RowFollows, IsLast
<1> QED
  BY <1>2, <1>3

\* The statement of an event no later one was written before makes the row show it.
LEMMA WritesFollow ==
  ASSUME OrderInv, NEW h \in Hooks, HookWrites(h)
  PROVE  AckedAreWritten' /\ \A o \in Orgs \ late' : RowFollows(o)'
<1> DEFINE e == hook[h].event
           event == events[e]
           org == event.org
<1>0. /\ Typed /\ Hooked /\ row \in [Orgs -> Rows] /\ events \in Seq(Events) /\ Bounded
      /\ written \subseteq DOMAIN events /\ UNCHANGED events
  BY DEF OrderInv, BillingInv, Typed, TypeOK, Hooked, HookWrites, stripe
<1>1. hook[h].at # "idle" /\ Writable(h) /\ hook[h].plan \in Plans \union {None}
  BY <1>0 DEF HookWrites, Hooked
<1>2. /\ e \in DOMAIN events /\ event \in Events /\ org \in Orgs
      /\ event.type \in EventTypes
  BY <1>0, <1>1, HandledEvent
<1>3. /\ row' = [row EXCEPT ![org] = IF Upserts(event)
                                     THEN Upserted(row[org], event, hook[h].plan)
                                     ELSE Marked(row[org], event)]
      /\ written' = written \union {e}
      /\ late' = late \union (IF \E d \in written : d > e /\ events[d].org = org
                              THEN {org} ELSE {})
      /\ acked' \subseteq acked \union {e}
  BY DEF HookWrites
<1>4. row[org] \in Rows /\ DOMAIN events \subseteq Nat
  BY <1>0, <1>2
<1>5. AckedAreWritten'
  BY <1>0, <1>3 DEF OrderInv, AckedAreWritten
<1> DEFINE new == row'[org]
<1>6. /\ new = IF Upserts(event) THEN Upserted(row[org], event, hook[h].plan)
                                 ELSE Marked(row[org], event)
      /\ \A p \in Orgs \ {org} : row'[p] = row[p]
  BY <1>0, <1>2, <1>3
<1>7. Upserts(event) => /\ new # NoRow /\ new.sub = event.sub
                        /\ new.status = StatusOf(event)
  <2> SUFFICES ASSUME Upserts(event)
               PROVE  new # NoRow /\ new.sub = event.sub /\ new.status = StatusOf(event)
    OBVIOUS
  <2>1. /\ new # NoRow /\ new.sub = event.sub
        /\ new.status = NormaliseStatus(event.status)
    BY <1>1, <1>2, <1>4, <1>6, Written DEF Writable
  <2>2. StatusOf(event) = NormaliseStatus(event.status)
    BY Zenon DEF StatusOf, Upserts
  <2> QED
    BY <2>1, <2>2
<1>8. ~Upserts(event) /\ row[org] # NoRow =>
        new # NoRow /\ new.sub = row[org].sub /\ new.status = StatusOf(event)
  BY <1>1, <1>2, <1>4, <1>6, Written
<1> HIDE DEF new, event
<1>9. ASSUME NEW p \in Orgs \ late', p # org PROVE RowFollows(p)'
  <2>1. RowFollows(p) /\ row'[p] = row[p]
    BY <1>3, <1>6, <1>9 DEF OrderInv
  <2>2. WrittenOf(p)' = WrittenOf(p)
    BY <1>0, <1>3, <1>9 DEF WrittenOf, event
  <2> QED
    BY <1>0, <2>1, <2>2 DEF RowFollows
<1>10. ASSUME NEW p \in Orgs \ late', p = org PROVE RowFollows(p)'
  <2>1. RowFollows(p)
    BY <1>3, <1>10 DEF OrderInv
  <2>2. \A d \in WrittenOf(p) : d \in DOMAIN events /\ ~(d > e)
    BY <1>0, <1>3, <1>10 DEF WrittenOf
  <2>3. \A d \in WrittenOf(p) : d <= e
    BY <1>2, <1>4, <2>2
  <2>4. WrittenOf(p)' = WrittenOf(p) \union {e}
    BY <1>0, <1>3, <1>10 DEF WrittenOf, event
  <2>5. \A i \in DOMAIN events : IsLast(i, WrittenOf(p)') => i = e
    <3> SUFFICES ASSUME NEW i \in DOMAIN events, IsLast(i, WrittenOf(p)') PROVE i = e
      OBVIOUS
    <3>1. e <= i /\ (i = e \/ i <= e)
      BY <2>3, <2>4 DEF IsLast
    <3> QED
      BY <1>2, <1>4, <3>1
  <2>6. CASE Upserts(event)
    <3>1. ASSUME NEW u \in WrittenOf(p)',
                 IsLast(u, {d \in WrittenOf(p)' : Upserts(events'[d])})
          PROVE  u = e
      <4>1. e <= u /\ (u = e \/ u <= e)
        BY <1>0, <2>3, <2>4, <2>6, <3>1 DEF IsLast, event
      <4>2. u \in Nat /\ e \in Nat
        BY <1>2, <1>4, <2>2, <2>4
      <4> QED
        BY <4>1, <4>2
    <3> QED
      BY <1>0, <1>7, <1>10, <2>5, <2>6, <3>1 DEF RowFollows, event, new
  <2>7. CASE ~Upserts(event)
    <3>1. \A d \in WrittenOf(p)' : Upserts(events'[d]) => d \in WrittenOf(p)
      BY <1>0, <2>4, <2>7 DEF event
    <3>2. {d \in WrittenOf(p)' : Upserts(events'[d])}
            = {d \in WrittenOf(p) : Upserts(events[d])}
      BY <1>0, <2>4, <3>1
    <3> QED
      BY <1>0, <1>8, <1>10, <2>1, <2>5, <2>7, <3>1, <3>2 DEF RowFollows, event, new
  <2> QED
    BY <2>6, <2>7
<1> QED
  BY <1>5, <1>9, <1>10

LEMMA NextFollows == OrderInv /\ [Next]_vars => OrderInv'
<1> SUFFICES ASSUME OrderInv, [Next]_vars PROVE OrderInv'
  OBVIOUS
<1>0. BillingInv' /\ Typed /\ events \in Seq(Events)
  BY NextOwned DEF OrderInv, BillingInv, Typed, TypeOK
<1>1. CASE UNCHANGED <<stripeSub, events, row, acked, history>>
  BY <1>0, <1>1, OthersFollow
     DEF OrderInv, EventsAnnounced, SubsAnnounced, Upserts, LogKept
<1>2. ASSUME NEW s \in Subs, Stripe(s) PROVE OrderInv'
  <2>1. UNCHANGED <<row, acked, history>>
    BY <1>2 DEF Stripe, SubscriptionCreated, SubscriptionChanges, SubscriptionDeleted, InvoiceEvent
  <2> QED
    BY <1>0, <1>2, <2>1, StripeAnnounces, OthersFollow DEF OrderInv
<1>3. ASSUME NEW h \in Hooks, HookWrites(h) PROVE OrderInv'
  <2>1. EventsAnnounced' /\ SubsAnnounced'
    BY <1>3 DEF HookWrites, stripe, OrderInv, EventsAnnounced, SubsAnnounced, Upserts
  <2> QED
    BY <1>0, <1>3, <2>1, WritesFollow DEF OrderInv
<1>4. ASSUME NEW h \in Hooks, NEW e \in DOMAIN events, Deliver(h, e) PROVE OrderInv'
  <2>1. UNCHANGED <<stripeSub, events, row, history>>
        /\ (acked' = acked \/ (events[e].org = None /\ acked' = acked \union {e}))
    BY <1>4 DEF Deliver, stripe
  <2>2. AckedAreWritten'
    BY <2>1 DEF OrderInv, AckedAreWritten, history
  <2>3. \A o \in Orgs \ late' : RowFollows(o)'
    BY <2>1 DEF OrderInv, RowFollows, WrittenOf, IsLast, Upserts, StatusOf, NormaliseStatus, history
  <2> QED
    BY <1>0, <2>1, <2>2, <2>3 DEF OrderInv, EventsAnnounced, SubsAnnounced, Upserts
<1> QED
  BY <1>1, <1>2, <1>3, <1>4
  DEF Next, Api, CheckoutStart, PortalStart, CheckoutSearch, CheckoutCustomer, CheckoutSession,
      PortalSession, RequestFails, Webhook, ResolvePlan, HookFails, stripe, history, vars

\* However deliveries fail, are repeated, lose their 200, overlap or change places,
\* only a statement that ran after that of a later event of the tenant makes its row
\* stale: without one, once the tenant's events are acknowledged, the row shows the
\* status of the last and names the subscription of the last upsert.
THEOREM RowsFollow == Safety => []RowFollowsEvents
<1>1. OrderInv => RowFollowsEvents
  <2> SUFFICES ASSUME OrderInv, NEW o \in Orgs \ late, EventsOf(o) \subseteq acked,
                      NEW e \in DOMAIN events
               PROVE  /\ IsLast(e, EventsOf(o)) => row[o].status = StatusOf(events[e])
                      /\ IsLast(e, {d \in EventsOf(o) : Upserts(events[d])})
                           => row[o].sub = events[e].sub
    BY DEF RowFollowsEvents
  <2>1. /\ events \in Seq(Events) /\ written \subseteq DOMAIN events /\ None \notin Orgs
        /\ RowFollows(o) /\ AckedAreWritten /\ EventsAnnounced
    BY BillingAssumption DEF OrderInv, BillingInv, Typed, TypeOK
  <2>2. EventsOf(o) = WrittenOf(o)
    BY <2>1 DEF EventsOf, WrittenOf, AckedAreWritten
  <2>3. IsLast(e, EventsOf(o)) => \E u \in WrittenOf(o) : Upserts(events[u])
    <3> SUFFICES ASSUME e \in EventsOf(o) PROVE \E u \in EventsOf(o) : Upserts(events[u])
      BY <2>2 DEF IsLast
    <3>1. PICK d \in 1 .. e : Upserts(events[d]) /\ events[d].org = o
      BY <2>1 DEF EventsOf, EventsAnnounced
    <3>2. d \in DOMAIN events
      BY <2>1
    <3> QED
      BY <3>1, <3>2 DEF EventsOf
  <2>4. IsLast(e, EventsOf(o)) => row[o].status = StatusOf(events[e])
    BY <2>1, <2>2, <2>3 DEF RowFollows
  <2>5. IsLast(e, {d \in EventsOf(o) : Upserts(events[d])}) => row[o].sub = events[e].sub
    BY <2>1, <2>2 DEF RowFollows, IsLast
  <2> QED
    BY <2>4, <2>5
<1> QED
  BY <1>1, InitFollows, NextFollows, PTL DEF Safety
=============================================================================
