# wa-kijo in TLA+

A verification development for the wa-kijo monorepo: TLA+ modules that model the
parts of the system that hold state, configurations that check them with TLC, and
proofs that TLAPS checks for every value of the constants. Paths in this file are
relative to the repository; `CS` stands for
`apps/api/src/modules/conversations/conversations.service.ts`.

1. [The system](#1-the-system) — the inventory
2. [Modules](#2-modules) — which module models what, and how
3. [Runs](#3-runs) — what is checked, the bounds, the fairness
4. [Proofs](#4-proofs)
5. [Divergences](#5-divergences) — where code and documents disagree
6. [Not modelled](#6-not-modelled)
7. [Plan](#7-plan)

## 1. The system

A multi-tenant messaging back office. A NestJS API (`apps/api`) stores contacts,
conversations and messages of organizations (tenants) in PostgreSQL through Prisma,
queues outbound messages in Redis through BullMQ, authenticates with Better Auth and
bills with Stripe. A Next.js client (`apps/web`) talks to the API and directly to
Better Auth's endpoints. Node runs a handler without interruption from one `await` to
the next; between two awaits every other request of this process, and of the other
processes behind the load balancer, may run. Statements are atomic, and there is one
interactive transaction (`CS:157`).

| Component | State it keeps | Operations | Talks to |
|---|---|---|---|
| Conversations and messages (`modules/conversations`) | rows `conversation`, `message` | search, find, create, update, remove, list and send messages | contacts (read), members (read), queue (`add`) |
| Message queue (`queues/`) | BullMQ jobs; `message.status`, `externalId` | add, process, retry with backoff, stall, dead-letter, replay from Bull Board | PostgreSQL |
| Contacts and tags (`modules/contacts`) | rows `contact`, `tag`, `contact_tag` | create, update, remove, search of contacts; create, rename, delete, list of tags | – |
| Billing (`modules/billing`) | row `subscription` per tenant; at Stripe customers, sessions, subscriptions | checkout, portal, webhook, plan and subscription queries | Stripe, both ways |
| Tenant and role resolution (`auth/auth.service.ts`, `common/guards`) | none of its own: the request context | `AuthGuard`, `resolveContext`, walk up `parentOrgId`, `PermissionGuard` | session, `member`, `organization` |
| Roles and permissions (`packages/shared/src/auth`) | constants | `hasPermission`, `highestRole` | everything |
| Soft delete (`prisma.service.ts`) | `deletedAt` | filters reads, turns delete into update; not `update` by id | every repository |
| Lists (`base.repository.ts` and the `search` methods) | none; the client keeps a cursor | one page, from the row the cursor names on | every repository |
| Better Auth (`auth/auth.module.ts`) | users, sessions, active organization, members, invitations | sign-up, sign-in, links, organizations, invitations | e-mail |
| Web client (`apps/web`) | query cache, session copy, suspended handlers, toasts | the pages' handlers, organization switcher, sign-in and -out | Better Auth, API, Stripe's pages |
| E-mail, health, configuration, logging, seed | none to speak of | | Resend, Redis, PostgreSQL |

What is hard in it, and what correctness means for each part:

* **Conversations.** Every handler reads a row *scoped* to its tenant, suspends, and then
  writes *by id alone*. Isolation of tenants therefore rests on an argument about
  interleavings: the tenant of a row never changes, rows never disappear, and each copied
  `organizationId` comes from the context the earlier read was scoped by. Rows of
  conversation, contact and message must agree; nothing read may belong to another tenant;
  assignment needs its own permission, tested two awaits before the write. Status and
  membership may be stale at the write: what is written then is wrong, and it should need an
  overlap of two requests to get there.
* **Inbox.** A page starts at the row its cursor names, in an order that every message
  changes, and rows without a message sort first. Between two pages that row may move, leave
  the list or be deleted. A client that walks to the end should still have seen every
  conversation that stood still, and each once.
* **Queue.** At-least-once execution: an expired lock starts a job again while its first
  execution is alive; an update may commit and its acknowledgement be lost; the dead-letter
  queue is bounded. A completed job must have marked its message sent, a duplicate must
  have a cause, everything must come to rest.
* **API and queue.** Two stores without a common transaction: commit, then `add`. A message
  answered with 201 must have a job, a job must find its row, nobody may enqueue twice.
* **Contacts.** Uniqueness is checked by a read and decided by an index; the tag list is
  tested one await before it is written, while tags are renamed and deleted.
* **Billing.** Stripe repeats and reorders its events and two deliveries may be handled at
  once; customers are found by a search on metadata; some events cannot be stored (no plan on
  sale, no period) and come again. No tenant's billing may reach another.
* **Role resolution.** A recursion over a graph that may have cycles, each level two reads,
  while memberships change. It must end, never grant more than was held, and find the
  highest role of the chain it walks.
* **Web client.** Each handler suspends at its request while the user clicks on; answers
  come when the page is gone, or never; fetches in flight race with invalidations; other tabs
  change the session, and forms are filled anew when their copy of it changes. Lists must be
  those of their organization, own writes must show, no spinner may stay for ever, and timers
  of dismissed toasts must hit nothing else.

`PROJECT.json` lists the hazards one by one, at the line where each bites.

## 2. Modules

| Module | Models | Extends / instantiates |
|---|---|---|
| `Rbac` | roles, precedence, the permission catalogue | |
| `Conversations` | the conversations module as requests in flight | `Rbac` |
| `Races` | the same with a history of who wrote behind whose back | `Conversations` |
| `Pages` | one page of a list: cursor, `take + 1` rows, `hasMore` | |
| `Inbox` | a client that walks through `GET /conversations` while requests write | `Races`, `Pages` |
| `Delivery` | abstract: what a message goes through, and that an accepted one settles | |
| `MessageDispatch` | queue, processor, BullMQ | implements `Delivery` (`DeliverySpec`) |
| `Messaging` | both together | instances `Api` of `Conversations`, `Queue` of `MessageDispatch` |
| `Contacts` | contacts and tags | `Rbac` |
| `Billing` | checkout, portal, webhook, with Stripe around them | |
| `OrgAuth` | `AuthGuard` and `resolveContext` | `Rbac` |
| `Toasts` | the store of notifications | |
| `WebTab` | one tab of the client and the server it sees | `Rbac`, `Toasts` |
| `MC*` | instances for TLC: constants and symmetry | the module they are named after, `MCConversations` also `Races` |
| `ConversationsProofs`, `InboxProofs`, `MessageDispatchProofs`, `MessagingProofs`, `ContactsProofs`, `BillingProofs`, `OrgAuthProofs`, `WebTabProofs` | theorems and proofs; `InboxProofs` also of `Pages`, `WebTabProofs` also of `Toasts` | their component, `TLAPS`; `InboxProofs` also `ConversationsProofs`, `MessagingProofs` instances the proofs of its two parts |

**From code to actions.** In the API modules one step is one awaited call together with
the code that runs on its result. `pc[r]` names the await request `r` is suspended at,
`local[r]` its context, arguments and results. The handler `create`, say, is `CreateStart`
(permission guard, scoped contact read) – `CreateCheck` (read of open conversations) –
`CreateInsert`. `Fail` is a call that rejects for a reason of its own, or the process
dying: the request ends with 500 and what it wrote stays. `Answer` keeps of the locals
what the response shows, so that a property can speak of it. Error codes are those of
`http-exception.filter.ts` (P2002 → 409, P2025 → 404). The read filter of
`PrismaService` is `Live`, the soft deletion the `deleted` field. Text search and bodies
are abstracted: a search of `Conversations` returns the tenant's live rows of the status asked
for, all at once, and its other filters are left out (the pages are in `Inbox`). Foreign
keys, unique indexes and cascades of `schema.prisma` are guards of the writes.

`Races` adds to each request the conversations that other requests have written since it read
what it is going to rely on (`overtaken`). The history decides nothing; it lets the properties
tell a write that goes wrong because two requests overlap from one that goes wrong however the
calls come.

`Pages` is `findAll`, which the repositories' own lists repeat line by line: `From` is what
Prisma's cursor finds, `PageOf` the cut after `take` rows. A sorted table is the relation of
each row to those that sort below it, and the first `n` rows are those with fewer than `n`
above them. When the cursor's row no longer
matches, Prisma either finds nothing or what sorts after the place the row had; both are
outcomes. `Inbox` keeps `above`, the sort by `lastMessageAt`, newest first, then by
`createdAt`, which `Resort` updates with each write of `Conversations`: a message moves its
conversation (`Moved`) to the head of those that have one, and below all that have none, since
PostgreSQL sorts null first. `walk` is a client that asks for page after page; it remembers
the conversations nobody has written to since it began (`calm`) and which of them it was
shown (`shown`, `again`).

`MessageDispatch` has per message the row's status and the job's state. BullMQ is
external: `Claim`, `Complete`, `Stall`, `Replay` are what `queues.module.ts` and Bull Board
rely on. A stalled job leaves a `zombie`, the first execution that still runs and may
write or fail. `incidents` counts failures, stalls and replays; it is history, no action
reads it. `Messaging` conjoins the handlers' steps with the queue's: `SendCommit` with
`Persist`, `SendEnqueue` with `Add`, and the case the code has no answer for, an `add` that
Redis executed and the client never heard of (`SendEnqueueUnacknowledged`). `Add` looks at
nothing, as `messageQueue.add` does, so that the row is there before the job is a matter of the
order of two awaits and not of a guard; only where the queue stands alone is it assumed
(`Produce`). `data` is what the job carries beside the message's id; its three parts come from
the request context, the URL and a row read two awaits before.

`Billing` keeps Stripe's customers, subscriptions and event log beside the row. An event
may be delivered at any time, any number of times, to any free `Hook`, before or after
others; `dated`, chosen initially, is whether the events carry `current_period_end` where
`upsertSubscription` reads it. A handler is `ResolvePlan` – `HookWrites`, with `HookFails` at
either; `Writable` is what the statement needs to be accepted (a period, and for a new row a
plan). Two histories, `written` and `late`, keep which events' statements have run and for
which tenants one ran after that of a later event.

`OrgAuth` starts from every hierarchy, cycles included, and every membership. `window[r]`
collects the roles the user held while `r` was being resolved.

`WebTab` splits each handler of a page at its `await`: `Click` sends the request, `Serve`
is the server, and the `*Done` actions are the rest of the handler. What a page offers is the
operator with its name (`MembersPage`, `PlansGrid`, `MagicLinkForm`, ...), where shell and
doors lead is `Sidebar`, `UserMenu`, `SignInLinks` and so on, and any page has an address
(`OpenUrl`). `calls` records the suspended handlers: `here` is FALSE when the page that
started it is no longer mounted, `live` when the document is gone; a call is dropped as soon
as nothing depends on it. A request that gets no answer ends differently by client: `fetcher`
throws into the handlers' `catch` (`BillingDone`), while Better Auth's client rejects and the
rest of the handler is skipped (`Rejected`). `cache` and `fetch` are TanStack Query's per key;
data is an organization and a version number instead of rows, which is what tells stale from
fresh. `Elsewhere` is every other tab, member and Stripe. The cookie is shared (`signedIn`,
`active`), the copy the tab renders from (`me`) is refreshed by `RefreshSession` at any time; a
replaced copy refills the forms of profile and settings (`ProfileReset`, `SettingsReset`).
`calls` is indexed by the number of the input that started the call. `Can` reads the role of the active organization from that copy, as the comment in `use-can.ts`
says Better Auth provides it. Better Auth's five-minute cookie cache is left out: it makes
revoked sessions last longer, which `me` lagging behind already shows to the pages. `SendEmail`
is the e-mail service: a link arrives or does not, and nobody learns which. `Toasts` is the
store of `use-toast.ts`, with actions the pages' handlers call.

## 3. Runs

| Run | Question | Instance |
|---|---|---|
| `tenancy` | Does any row, read or assignment cross tenants or exceed a role? Does a closed or deleted conversation get written without a race? | 2 tenants, 1 contact each, 1 conversation, 1 message, 2 requests in flight, 4 contexts |
| `inbox` | What does a walk through the inbox show while requests write? Does create, call after call, open a second conversation? | 1 tenant, 1 contact, 3 conversations, 2 messages, 1 request; pages of 1, with and without a status filter |
| `dispatch` | Does the queue implement `Delivery`, liveness included? | 2 messages, 2 attempts, 1 stall and 1 replay each, dead-letter queue of 1 |
| `messaging` | Is 201 backed by a job that settles? Does a job tell what the tables hold? | 1 conversation on one of 2 channels, 1 message, 2 requests, 2 attempts |
| `contacts` | Do refusals, tags and writes depend on the own tenant only? | 2 tenants, 2 contacts, 2 tags, 1 phone number and 1 slug they all share, 2 requests, 4 contexts, one without an organization |
| `billing` | Does billing mix tenants; what makes a row stale? | 2 tenants, 2 customers, 2 subscriptions, 1 checkout at a time, 2 concurrent deliveries, 2 events |
| `billing_live` | Is a subscription recorded in the end? | 1 tenant, 2 subscriptions, 2 events |
| `org_auth` | Is the role right and the walk finite? | all hierarchies of 3 organizations, 1 change meanwhile |
| `web_tab` | Lists, own writes, spinners, toasts | 2 organizations, 3 inputs |
| `one_open_race`, `stored_forever`, `org_auth_gap` | expected violations, section 5 | smallest instance that shows it |

**Why these bounds are enough to mean something.** Two tenants and two requests are
what a crossing or a race needs: one handler suspended between read and write, another
doing anything at all, any number of times, since requests return to idle and start
again. One conversation and one message suffice for `tenancy` because the handlers only
ever relate one conversation to its contact and messages, and an identifier that is not
there yet is what a second tenant would collide with; the proofs remove this bound.
`inbox` has one writing request, which repeats without bound while the walk goes on: with two,
and the two conversations a second open one needs, the instance has more than six million
states and does not end in time. `SecondOpenIsRace` says there that no order of calls which do
not overlap makes a second open conversation by an insert; that overlapping ones do is the run
`one_open_race`, and that nothing else does, for any number of requests, is the theorem
`SecondOpensRace`. Three conversations and pages of
one row are the smallest inbox with a page before, at and after the row that moves; two
messages move two rows, or one row twice. In `contacts` everything collides on
purpose. Dispatch needs two messages for eviction, two attempts for a retry, and one stall
for a zombie that overlaps a second execution. In `billing` the two events, each delivered
repeatedly and concurrently, are every pair that begins with a subscription: created/updated,
created/deleted, created/payment, and two subscriptions of one tenant or of two. Hazards that
need three (the end of an old subscription after the start of a new one) are out of the run's
reach and not out of the theorems'; a third event takes both billing runs over their time. Three organizations are every hierarchy with
a gap in the middle of a chain; the depth cap is met there by cycles only, and a chain long
enough to meet it needs five. `MaxInputs = 3`
counts everything that comes from outside in `WebTab` together – pages opened, handlers
started, changes from elsewhere: three are a visit and two overlapping handlers, a handler
and leaving and returning, a click while another tab switches the organization, a checkout
retried, a sign-out and a sign-in; internal steps are not bounded.

`CHECK_DEADLOCK FALSE` is in the runs whose environment is bounded (`MaxEvents`,
`MaxInputs`, messages that all settled): the system then rests by design. The others
check deadlock.

**Mutants.** Each property of a passing run has a mutated definition of the code (a
dropped scope, a skipped check, a swapped order, an off-by-one) that violates it in the same
instance; the `Mut…` operators stand before the definition they mutate.

**Fairness.** It is stated in the modules and is what the code's scheduling gives:

* `MessageDispatch`: weak fairness of claiming, executing, completing and the backoff
  timer. A worker that runs takes jobs; an execution ends by writing or failing; the timers
  are Redis'. Nothing is assumed of producers, stalls, zombies or the operator.
* `Messaging`: the same, and a handler that is suspended resumes (the event loop). That a
  request fails instead counts as resuming.
* `Billing`: handlers end (weak); Stripe repeats an event that was not answered 200, and
  repeating it forever does not fail forever (strong, for retries, plan resolution and the
  acknowledged write). That is what `billing.service.ts:27` relies on.
* `OrgAuth`: a database read is answered or rejected (weak).
* `Conversations`, `Contacts` and `WebTab` have safety properties only, and no fairness.

## 4. Proofs

Eight modules of proofs, checked by TLAPS with Z3, Zenon and LS4. They hold for any number of
tenants, users, rows, requests, pages, attempts, stalls, replays, events, deliveries and
inputs. Every safety property that a passing run checks is a theorem. The assumptions are the
named ones of the modules: contacts belong to one tenant, priced plans are plans, the null
values are no identifiers, counters and bounds are natural numbers, and the inbox is finite
(`InboxAssumption`). `Messaging` takes the assumptions of its two parts and no other
(`MessagingAssumption`).

**Tenant isolation** (`ConversationsProofs`). `TenantAgreement` alone is not inductive: a
suspended handler could hold anything. `TenantInv` adds what each await's continuation relies
on (`ResumesInTenant`: the contact or conversation in the locals exists and is of the
request's tenant, the message to enqueue is the one stored, the assignee passed both
tests), what responses hold (`ReadsStayInTenant`) and the assignees (`AssigneeBelonged`).
The key lemma is `HandlersKeepRows`: no statement moves a conversation to another tenant
or contact, takes a row out of existence or changes a message. With it, a step of one
request cannot invalidate what another one knows (`OthersKeepKnowledge`), and a request
that suspends has just established what it will rely on (`StepsRenewKnowledge`). The
type invariant comes first, from two lemmas: every step is an `Await` with typed locals,
and the four writing statements leave typed rows. The action properties
`WritesStayInTenant` and `PermittedAssignment` follow from `TenantInv` at the before-state.

**Races** (`ConversationsProofs`). That a row is still open, not deleted or the only one when
it is written is false in general (`one_open_race`). What is true for any number of requests is
that nothing but another request makes it false: `ReadsStillTrue` says that what a suspended
handler read holds of every conversation not in its `overtaken`. It is inductive, for a
handler's own step establishes it (`StepsStayTrue`), and a step of another request changes only
what it is remembered for (`OthersStayTrue`). What the writing statements then find
(`WritesFindTrue`) gives `SendToClosedIsRace`, `WriteToDeletedIsRace` and `SecondOpenIsRace`.
The members and contacts that change beside the requests do not matter.

**The inbox** (`InboxProofs`). First the pages: in a strict total order of a finite set every
non-empty part has a first row (`FirstRow`, by the well-foundedness of set inclusion), so
`take` keeps every row above one it keeps (`FirstOfUpward`), rows are left out only if
`take + 1` rows were fetched (`FirstOfAll`), and a page is either all that is left or ends at
its cursor with all other rows below (`PageHolds`). Then the order: a step places at most one
row, which is new or got a message (`StepsPlaceOne`), and putting it where PostgreSQL sorts it
keeps the order total and the silent rows first (`ResortSorts`). `InboxInv` is the walk seen
from its cursor: rows shown are at it or above (`ShownAbove`), rows still due below it
(`RestBelow`), until a write to a cursor or its departure ends the one or the other. That
silent rows come first is needed here, not only for the type: a cursor that had a message
already moves up, so what was below it still is. That a walk adds no behaviour to the API
(`InboxStandsOnRaces`) lets the theorems about `Conversations` be used. `NothingMissed` and `NothingRepeated` follow,
for any number of concurrent requests, where the run has one.

**Dispatch** (`MessageDispatchProofs`). `DuplicatesExplained` compares two counters and needs
their balance: `DispatchInv` gives each message an account – the writes done, the zombies that
may still write and the execution the job still owes never exceed incidents plus one – together
with `CompletedMeansSent`. One step per action shows that the account balances; a step of one
message touches another only by evicting its failed job (`StepsAreLocal`).
`DeliveryKept` is the safety part of the refinement: every step of the queue is a step of
`Delivery` on `DeliveryPhase`, or a stutter.

**Sending as a whole** (`MessagingProofs`). That the requests of the whole are those of
`Conversations` holds by the way they are composed (`ApiStandsAlone`), but that its queue is
that of `MessageDispatch` does not: the queue alone assumes that a job is added for a stored
message, and `Add` does not ask. It takes `SendingInv`: `OneProducerPerMessage` together with
`StoresAgree`, which ties the row of a message to its status and both to its job, for a message
with a job but no row could be created again and queued a second time. Queue and invariant are
proved together, each from the other (`SendingInvariant`, `QueueStandsAlone`), and with them the
theorems about the parts are theorems about the whole (`TenantsStayApart`, `DispatchKept`).
`JobsMatch` says what only the whole can: no step changes the rows a job speaks of
(`StepsKeepRows`), and a handler that adds a job holds the tenant, conversation and channel of
the message it committed (`AddedJobMatches`), for its locals are what `ResumesInTenant` and the
read of the conversation made them. `SendingKeepsPromise` puts the refinements together: API,
queue and worker implement the safety part of `Delivery`.

**Contacts** (`ContactsProofs`). As in `ConversationsProofs` the invariant holds what
suspended handlers know: the contact or tag they name is their tenant's or gone, and tag ids
that were tested name tags of the tenant or none, since a deleted tag's identifier is not given
out again. `TagsStayInTenant` and `WritesStayInTenant` rest on it. For `RefusedMeansTaken` the
lemma is that a number, once taken, stays taken: deletion is soft.

**Billing** (`BillingProofs`). `BillingStaysInTenant` speaks of rows and requests; it is kept
because the same holds one step earlier, of subscriptions and sessions (their customer carries
the tenant's id) and of every event in the log (it tells tenant and customer of its
subscription, and only the end of one tells that it is canceled). `BillingInv` is all of it.
`NothingTakenBack` shows that no step moves a customer, a subscription or a logged event, so
that a late or repeated event is still true (`StaysTrue`); what is left is what each step adds.
The type invariant needs that a delivery in hand is one of a logged event with a tenant
(`HooksHold`), and that a request with a customer has a plan (`RequestsHold`).
`RowFollowsEvents` needs the same of the state between the acknowledgements. `OrderInv` speaks of
the events whose statement has run (`WrittenOf`), acknowledged or not: the row of a tenant for
which none ran late shows the last of them and names the subscription of the last upsert
(`RowFollows`). A statement that is repeated in its turn writes what is there already; one that
comes after a later event's takes the tenant out of the claim, and nothing else does. A 200 is
the answer to an event that was written (`AckedAreWritten`), so that once all are acknowledged
the last written is the last there is. The first event of a tenant is one that makes its row
(`EventsAnnounced`, `SubsAnnounced`): a payment or an end that found no row would leave no trace.

**Role resolution** (`OrgAuthProofs`). `Inv` describes the walk half way up: where it is
(`WalkHolds`: the organization in its locals is `depth + 1` levels above the tenant), that all
roles the user holds are in the request's history `window`, and that the role found so far is
`member` or in that history at a level of the chain (`SeenHolds`). No step changes a parent. While nothing has changed it says more, for `RoleIsHighestUnbroken`: the user
is a member at every level passed, and the role is the highest of those (`HighestHolds`). The
levels are the explicit `Level`, which `AboveIsLevel` proves equal to the recursive `Above`.

**The tab** (`WebTabProofs`). `TabInv` states for every call what the rest of its handler relies
on: which page started it, that the server has the version it was answered with (`Reached`),
that the list a live call started from is never empty again, so that an invalidation drops the
answer of a fetch under way (`Loading`), and that once a write shows, neither the cached list
nor the answer on its way to it is older than that write (`Shown`). Versions
only grow, and `NotOlder` is what invalidation and refetch keep. `ListsAreTheirOrgs` holds
because a list is cached under the key its request named; `SpinnersAreAwaited` because each
action that ends a call clears its flag, or the page that shows it is gone. `TimersMatchToasts`
rests on `ToastsKept`: ids are never given out twice, so a timer can hit no other toast.

Only model-checked, because it is liveness under fairness: the fairness part of `DeliverySpec`,
`AcceptedIsSettled`, `SubscriptionRecorded` and `RequestsResolve`. The three expected
violations are counterexamples and nothing to prove.

## 5. Divergences

With a run that shows them, listed under `findings`:

* *One open conversation per contact and channel* (`CS:64`): two concurrent creates make
  two (`one_open_race`). `SecondOpenIsRace` shows that create
  needs such an overlap.
* *A background job dispatches it* (`conversations.controller.ts:144`): a failure between
  commit and `add` leaves a queued message without a job (`stored_forever`).
* *The highest role across the org and all ancestors* (`auth.service.ts:107`): the walk
  stops at the first ancestor without a membership (`org_auth_gap`).

Seen while modelling, without a run of their own:

* A conversation that is reopened, or snoozed and sent to, becomes a second open one even
  without concurrency (`CS:118`, `CS:174` against `CS:64`).
* A close between the status test and the transaction of `sendMessage` is undone
  (`CS:157` against `CS:153`), and a conversation deleted meanwhile is written all the same;
  `SendToClosedIsRace` and `WriteToDeletedIsRace` say that only an overlap does it.
* A comment promises that `PermissionGuard` rejects an empty organization
  (`auth.service.ts:52`); it looks at the role only, which is then `member`. `Conversations` and
  `Contacts` have this context and show that it reaches no tenant's rows.
* Pages are not "stable under concurrent writes" (`docs/glossary.md:70`) nor "across writes"
  (`docs/api-conventions.md:205`). In the inbox a message moves its conversation: a cursor
  that moved to the head starts the list again (hence the premise of `NothingRepeated`), a
  cursor that left the list ends the walk early or skips, and a first message moves a
  conversation down, because null sorts first, past rows the next page then leaves out
  (`conversations.repository.ts:56`; hence the premise of `NothingMissed`).
* Messages are not deleted with their conversation (`conversations.controller.ts:112`
  against `CS:133`). Status `failed` is never written (`message-dispatch.processor.ts:28`
  against `CS:187`). The dead-letter queue evicts (`queues.module.ts:36` against
  `docs/decisions/0007-bullmq-for-background-jobs.md:34`). `attempts: 3` is two retries
  (`queues.module.ts:33` against `:18`).
* Webhook handlers never compare subscription ids before they write
  (`billing.service.ts:216`, `:246` against `:26`): a repeated or late event overwrites a
  later one, and the end of an old subscription cancels the row of the new one, even where the
  events come in their order. A changed
  plan is never copied (`:228` against `:22`). `RowFollowsEvents` therefore excepts
  the tenants an event came late to. Two checkouts at once make two customers, and so may two
  in a row: Stripe's search is of an index that lags (`stripe.billing-provider.ts:41`).
* `upsertSubscription` reads `current_period_end` from the subscription (`:214`). Stripe's API
  versions from 2025-03-31 on carry it on the items; the date is then invalid, the statement is
  refused, the answer is 500, and every retry ends alike. `SubscriptionRecorded` has the period
  as a premise.
* Billing page: the query key names the organization of the URL, the request none, so it
  shows, and charges, the session's active organization (`billing/page.tsx:131`).
  `ListsAreTheirOrgs` therefore speaks of members and invitations only. *Subscribe* is
  enabled while the subscription is loading or failed; leaving the page and returning
  allows a second checkout in flight; a late answer redirects whatever page is open.
* List queries cache an error as an empty list. `removeMember`, `cancelInvite` and the
  revocations ignore the error of the result. `invite` invalidates the members but not the
  invitations. The cache survives sign-out and sign-in in one tab, so the next user may see
  the former's lists for a minute. An invalidation while the list is not mounted can be
  undone by an older fetch in flight: `OwnWritesShow` requires that it was.
* When a request of Better Auth's client gets no answer its promise rejects, so that neither
  the error branch nor the navigation after it runs: no toast, no message. The button of a
  form comes back, but the flag of `deleteAccount` stays set (`settings/danger/page.tsx:35`),
  and the page shows a spinner until it is left. `SpinnersAreAwaited` excepts it. On that page
  `canDelete` compares with the empty string while there is no session, so it holds at once.
* Profile and settings refill their form whenever the copy of the session or the organization
  is replaced (`settings/profile/page.tsx:39`): unsaved input is lost, and the button is back
  while the request is under way.
* The error of one tab of the sign-in page shows under the other. A mail Resend refuses is
  only logged, and its sender is told to look into the inbox (`email.service.ts:24`).
* The redirect of users without a session is commented out in `(app)/layout.tsx`, though
  its comment promises it. `useCan` evaluates the role in the active organization, not in
  that of the URL. The menu item *Upgrade plan* leads to `/settings/billing`, which does
  not exist (`user-menu.tsx:118`).
  No `sendInvitationEmail`, `sendResetPassword` or `deleteUser` is configured, although
  pages promise them.

## 6. Not modelled

Health probes (no state), configuration, logging and the Redis client (wiring), the seed
script, `getOrgAncestors` (no caller) and the context's `orgType` and `globalRole` (copied,
deciding nothing), the landing page, the dashboard (mock data) and look of the client, the
verify page (no link names it), Google sign-in (no page offers it), the queries of plans and
of the subscription at the API (they change nothing), payment providers other than Stripe.
Text search is a set of rows. `lastMessageAt` is whether it is set, and its order is the order
of commits: with two processes, two sends could commit in another order than their clocks
say. Better Auth, BullMQ, TanStack Query, Prisma and Stripe are modelled as far as this code
relies on them.

## 7. Plan

1. **Proofs.** What is new below comes with its theorems: the run checks it on an instance,
   the module of its component's proofs states it for all. Among what exists, `Delivery` and
   `DeliverySpec` could share more of the step simulation with `Messaging`, and the walk of
   `Inbox` could be proved for `findAll` in general, with any `orderBy`.
2. **Properties.** `CanceledIsCurrent` and `TracksCurrentPlan` for `Billing` (expected
   violations); the billing page against the active organization; the cache across users;
   an abstract specification of one tenant's service that `Conversations` implements.
3. **Composition.** `Contacts` with `Conversations` (the deletion of a contact is an
   environment step so far); `OrgAuth` with a guarded handler, to state what a role change
   in flight allows; two tabs instead of `Elsewhere`.
4. **Liveness.** A mounted list of `WebTab` shows what the server has once changes end; a
   spinner ends.
