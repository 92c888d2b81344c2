-------------------------------- MODULE WebTab --------------------------------
(***************************************************************************)
(* One browser tab of the web client and the server it talks to: the pages *)
(* of an organization (members, invites, billing, settings), those of the  *)
(* account (profile, sessions, deletion), the doors (sign-in by password   *)
(* or by link, sign-up, a forgotten password) and what surrounds them: the *)
(* organization switcher, the sidebar and the user menu.  The tab keeps a  *)
(* cache of queries, a copy of the session and its notifications; each     *)
(* handler suspends at its request, while the user clicks on and other     *)
(* tabs change the session, which all tabs of a browser share.  TanStack   *)
(* Query and Better Auth are external, modelled as the pages rely on them. *)
(***************************************************************************)
EXTENDS Rbac, Toasts, Functions

CONSTANTS
  Orgs,
  None,
  Grants,      \* the memberships the user may start with
  MaxInputs    \* bound: pages opened, handlers started and changes from elsewhere

ASSUME PagesAssumption ==
  /\ None \notin Orgs
  /\ Grants \subseteq [Orgs -> Roles \union {None}]
  /\ MaxInputs \in Nat

VARIABLES
  signedIn,  \* the cookie of this browser names a session
  active,    \* Session.activeOrganizationId
  role,      \* member.role of the user in each organization; None is no member
  version,   \* how often each list changed on the server
  mail,      \* an e-mail with an unused sign-in or verification link is in the inbox
  page,      \* the page of the tab and the organization in its URL
  inputs,    \* how many inputs there were
  me,        \* the tab's copy of the session
  cache,     \* QueryClient: what is cached under each query key
  fetch,     \* the fetch of each query key
  busy,      \* the handlers whose button the mounted page disables
  calls      \* the handlers that sent a request, by the input that started each,
             \* until nothing depends on it

server == <<signedIn, active, role, version, mail>>
tab == <<page, me, cache, fetch, busy, calls>>
vars == <<server, inputs, tab, toastVars>>

OrgLists == {"members", "invitations", "subscription"}
Keys == (OrgLists \X Orgs) \union {<<"sessions", None>>}

\* The list each page queries, under the organization of its URL.
ListOf == [members |-> "members", invites |-> "invitations", billing |-> "subscription",
           sessions |-> "sessions"]
OrgPlaces == {"members", "invites", "billing", "settings"}
OwnPlaces == {"dashboard", "create-org", "profile", "sessions", "danger"}
Shell == OrgPlaces \union OwnPlaces
Doors == {"sign-in", "sign-up", "reset", "confirm"}
Places == Shell \union Doors \union {"stripe"}
KeysOf(p) == IF p.at \in DOMAIN ListOf THEN {<<ListOf[p.at], p.org>>} ELSE {}

Empty == [is |-> "empty", org |-> None, version |-> 0, fresh |-> FALSE]
Idle == [at |-> "idle", org |-> None, version |-> 0, tries |-> 0]
Sent(n) == [Idle EXCEPT !.at = "sent", !.tries = n]
Nobody == [in |-> FALSE, org |-> None]

\* The handlers that disable their button until they are done.
Disabling == {"invite", "saveSettings", "subscribe", "portal", "saveProfile", "deleteAccount",
              "createOrg", "signIn", "sendLink", "signUp", "sendReset", "setPassword"}
Handlers == Disabling \union {"removeMember", "cancelInvite", "revoke", "switchOrg", "signOut"}

\* The list a handler's request changes on the server.
Changes == [invite |-> "invitations", removeMember |-> "members", cancelInvite |-> "invitations",
            revoke |-> "sessions"]
KeyOf(c) == <<Changes[c.what], c.org>>


\* Every variable has its type; a page of an organization names one, and a failed
\* query is tried once more, no oftener.
TypeOK ==
  /\ ToastTypeOK
  /\ signedIn \in BOOLEAN /\ active \in Orgs \union {None}
  /\ role \in [Orgs -> Roles \union {None}]
  /\ version \in [Keys -> Nat] /\ mail \in BOOLEAN
  /\ page \in [at : Places, org : Orgs \union {None}] /\ inputs \in 0..MaxInputs
  /\ page.at \in OrgPlaces \union {"stripe"} => page.org # None
  /\ me \in [in : BOOLEAN, org : Orgs \union {None}]
  /\ cache \in [Keys -> [is : {"empty", "failed", "data"}, org : Orgs \union {None},
                         version : Nat, fresh : BOOLEAN]]
  /\ fetch \in [Keys -> [at : {"idle", "sent", "data", "unauthorized"},
                         org : Orgs \union {None}, version : Nat, tries : 0..1]]
  /\ busy \subseteq Disabling
  /\ DOMAIN calls \subseteq 1..inputs
  /\ calls \in [DOMAIN calls -> [what : Handlers \union {"activate"}, org : Orgs \union {None},
                                 at : {"sent", "ok", "error", "unauthorized", "done"},
                                 version : Nat, here : BOOLEAN, live : BOOLEAN,
                                 seen : BOOLEAN]]

Init ==
  /\ InitToasts
  /\ signedIn = TRUE
  /\ role \in Grants
  /\ active \in {o \in Orgs : role[o] # None}
  /\ version = [k \in Keys |-> 0]
  /\ mail = FALSE
  /\ page = [at |-> "dashboard", org |-> None]
  /\ inputs = 0
  /\ me = [in |-> TRUE, org |-> active]
  /\ cache = [k \in Keys |-> Empty]
  /\ fetch = [k \in Keys |-> Idle]
  /\ busy = {}
  /\ calls = <<>>

-----------------------------------------------------------------------------
(* Queries: one fetch per key.  A page that mounts, or a window that gets  *)
(* the focus, fetches what has no data, is invalidated or, if old, is      *)
(* beyond its staleTime of 60 s.                                           *)

Fetched(p, old) ==
  [k \in Keys |-> IF k \in KeysOf(p) /\ fetch[k] = Idle /\ (old \/ ~cache[k].fresh)
                  THEN Sent(0) ELSE fetch[k]]

\* The queries of lists name the organization of the URL; the subscription is
\* that of the session's active organization when the request is served.
MutOrgServed(k) == IF k[1] = "sessions" \/ active = None THEN k[2] ELSE active
OrgServed(k) == IF k[1] = "subscription" THEN active ELSE k[2]

MayRead(k) ==
  IF k[1] = "subscription" THEN active # None /\ HasPermission(role[active], "billing:view")
  ELSE k[1] # "sessions" => role[k[2]] # None

\* A failure brings nothing back that others could make stale: where it happened
\* makes no difference, and it is a step of FetchArrives.
FetchServed(k) ==
  /\ fetch[k].at = "sent"
  /\ \/ /\ signedIn /\ MayRead(k)
        /\ fetch' = [fetch EXCEPT ![k] = [at |-> "data", org |-> OrgServed(k), tries |-> 0,
                                          version |-> version[<<k[1], OrgServed(k)>>]]]
     \/ /\ ~signedIn /\ k[1] = "subscription"
        /\ fetch' = [fetch EXCEPT ![k].at = "unauthorized"]
  /\ UNCHANGED <<server, inputs, page, me, cache, busy, calls, toastVars>>

\* The calls of a page that is left go on; those of a page load end with it, but
\* for what the server still gets.
Left(cs) ==
  [i \in {j \in DOMAIN cs : cs[j].at # "done" \/ cs[j].seen} |-> [cs[i] EXCEPT !.here = FALSE]]
Unloaded ==
  [i \in {j \in DOMAIN calls : calls[j].at = "sent"} |->
     [calls[i] EXCEPT !.here = FALSE, !.live = FALSE]]

\* A page load: nothing the tab kept in memory survives.
LoadPage(at, o) ==
  LET p == [at |-> at, org |-> o] IN
  /\ page' = p
  /\ me' = Nobody
  /\ cache' = [k \in Keys |-> Empty]
  /\ fetch' = [k \in Keys |-> IF k \in KeysOf(p) THEN Sent(0) ELSE Idle]
  /\ busy' = {}
  /\ calls' = Unloaded

\* A step of the router within the app: cache and fetches stay.
Navigate(at, o) ==
  LET p == [at |-> at, org |-> o] IN
  /\ page' = p
  /\ \E old \in BOOLEAN : fetch' = Fetched(p, old)
  /\ busy' = {}
  /\ UNCHANGED <<me, cache>>

\* The option retry: 1.
MutRetry(tries) == IF tries <= 1 THEN Sent(tries + 1) ELSE Idle
Retry(tries) == IF tries < 1 THEN Sent(tries + 1) ELSE Idle

\* The lists read result.data ?? [], so an answer that is an error is cached as an
\* empty list; no answer rejects, as any failure of fetcher does, and is tried once
\* more.  On a 401 fetcher leaves for /sign-in whatever page is open by then.
FetchArrives(k) ==
  LET f == fetch[k] IN
  /\ \/ /\ f.at = "data"
        /\ cache' = [cache EXCEPT ![k] = [is |-> "data", org |-> f.org, version |-> f.version,
                                          fresh |-> TRUE]]
        /\ fetch' = [fetch EXCEPT ![k] = Idle]
        /\ UNCHANGED <<page, me, busy, calls, toastVars>>
     \/ /\ f.at = "sent" /\ k[1] # "subscription"
        /\ cache' = [cache EXCEPT ![k] = [Empty EXCEPT !.is = "failed", !.fresh = TRUE]]
        /\ fetch' = [fetch EXCEPT ![k] = Idle]
        /\ UNCHANGED <<page, me, busy, calls, toastVars>>
     \/ /\ f.at = "sent"
        /\ fetch' = [fetch EXCEPT ![k] = Retry(f.tries)]
        /\ UNCHANGED <<page, me, cache, busy, calls, toastVars>>
     \/ /\ f.at = "unauthorized"
        /\ LoadPage("sign-in", None) /\ ResetToasts
  /\ UNCHANGED <<server, inputs>>

Focus ==
  /\ \E old \in BOOLEAN : fetch' = Fetched(page, old)
  /\ fetch' # fetch
  /\ UNCHANGED <<server, inputs, page, me, cache, busy, calls, toastVars>>

\* invalidateQueries: a mounted query with data is fetched anew, the answer to
\* an older fetch is dropped; one that is not mounted is fetched when it is.
MutInvalidate(k) ==
  /\ cache' = [cache EXCEPT ![k].fresh = FALSE]
  /\ fetch' = Fetched(page, TRUE)
Invalidate(k) ==
  /\ cache' = [cache EXCEPT ![k].fresh = FALSE]
  /\ fetch' = [fetch EXCEPT ![k] =
                 IF k \in KeysOf(page) /\ (cache[k].is # "empty" \/ @ = Idle) THEN Sent(0) ELSE @]

-----------------------------------------------------------------------------
(* The user: opens pages and starts handlers.                              *)

Input ==
  /\ inputs < MaxInputs
  /\ inputs' = inputs + 1

\* The links of the shell: the sidebar's for the organization the tab's copy of
\* the session has active, the user menu's, which needs a session, the switcher's.
Sidebar == {"dashboard"} \union (IF me.org # None THEN OrgPlaces ELSE {})
UserMenu == IF me.in THEN {"profile", "sessions"} ELSE {}
OrgSwitcher == {"create-org"}

\* The links of the doors.
SignInLinks == {"reset", "sign-up"}
SignUpLinks == {"sign-in"}
ResetLinks == {"sign-in"}
ConfirmLinks == {"sign-in", "reset"}

Links ==
  CASE page.at \in Shell -> Sidebar \union UserMenu \union OrgSwitcher
    [] page.at = "sign-in" -> SignInLinks
    [] page.at = "sign-up" -> SignUpLinks
    [] page.at = "reset"   -> ResetLinks
    [] page.at = "confirm" -> ConfirmLinks
    [] OTHER -> {}

FollowLink(at) ==
  /\ Input
  /\ at \in Links
  /\ Navigate(at, IF at \in OrgPlaces THEN me.org ELSE None)
  /\ calls' = Left(calls)
  /\ UNCHANGED <<server, toastVars>>

\* A bookmark or the address bar, which alone leads to /settings/danger and, as no
\* reset is ever sent, to the page of its link; the layout renders the shell with
\* or without a session.
OpenUrl(at, o) ==
  /\ Input
  /\ at \in OrgPlaces <=> o # None
  /\ LoadPage(at, o)
  /\ ResetToasts
  /\ UNCHANGED server

\* The new store, with the toast the page's effect shows.
ReturnToast ==
  /\ count' = GenId(0)
  /\ memory' = <<[id |-> GenId(0), open |-> TRUE]>>
  /\ timers' = {}

\* The link of an e-mail: used once, it signs in and leads to the dashboard.
OpenMail ==
  /\ Input
  /\ mail /\ mail' = FALSE
  /\ signedIn' = TRUE
  /\ active' = None
  /\ LoadPage("dashboard", None)
  /\ ResetToasts
  /\ UNCHANGED <<role, version>>

\* Back from Checkout with a status to announce, or from the portal.
ReturnFromStripe ==
  /\ Input
  /\ page.at = "stripe"
  /\ LoadPage("billing", page.org)
  /\ ReturnToast \/ ResetToasts
  /\ UNCHANGED server

\* The pages that fill their form from the session or the organization, in an
\* effect that runs whenever their copy is replaced: the form is no longer
\* submitting, although its request may still be under way.
ProfileReset == IF page.at = "profile" /\ me'.in THEN {busy \ {"saveProfile"}} ELSE {busy}
SettingsReset == IF page.at = "settings" THEN {busy, busy \ {"saveSettings"}} ELSE {busy}

\* Better Auth's client reads the session again: after its own calls, on focus.
RefreshSession ==
  /\ me' = IF signedIn THEN [in |-> TRUE, org |-> active] ELSE Nobody
  /\ busy' \in IF page.at = "profile" THEN ProfileReset ELSE SettingsReset
  /\ <<me, busy>>' # <<me, busy>>
  /\ UNCHANGED <<server, inputs, page, cache, fetch, calls, toastVars>>

Can(permission) == me.org # None /\ role[me.org] # None /\ HasPermission(role[me.org], permission)

\* What each page offers; <Can> stands around it, a list must have come for its
\* rows to have buttons, and a message takes the place of a form that was accepted.
When(condition, handlers) == IF condition THEN handlers ELSE {}
Loaded == \A k \in KeysOf(page) : cache[k].is = "data"
Accepted(h) == \E i \in DOMAIN calls : calls[i].what = h /\ calls[i].here /\ calls[i].at = "done"

\* Odd versions of a subscription are the active ones; no data counts as none.
Subscribed == Loaded /\ \E k \in KeysOf(page) : cache[k].version % 2 = 1

MembersPage ==
  When(Can("member:invite"), {"invite"}) \union When(Can("member:remove") /\ Loaded, {"removeMember"})
InvitesPage == When(Can("member:invite") /\ Loaded, {"cancelInvite"})
CurrentPlan == When(Can("billing:manage") /\ Subscribed, {"portal"})
PlansGrid == When(Can("billing:manage") /\ ~Subscribed, {"subscribe"})
OrgSettingsPage == When(Can("org:update"), {"saveSettings"})
CreateOrgPage == {"createOrg"}
ProfilePage == {"saveProfile"}
SessionsPage == When(Loaded, {"revoke"})
DangerZonePage == {"deleteAccount"}
PasswordForm == {"signIn"}
MagicLinkForm == When(~Accepted("sendLink"), {"sendLink"})
SignUpPage == When(~Accepted("signUp"), {"signUp"})
ResetPasswordPage == {"sendReset"}
ResetPasswordConfirm == {"setPassword"}

Offered ==
  CASE page.at = "members"    -> MembersPage
    [] page.at = "invites"    -> InvitesPage
    [] page.at = "billing"    -> CurrentPlan \union PlansGrid
    [] page.at = "settings"   -> OrgSettingsPage
    [] page.at = "create-org" -> CreateOrgPage
    [] page.at = "profile"    -> ProfilePage
    [] page.at = "sessions"   -> SessionsPage
    [] page.at = "danger"     -> DangerZonePage
    [] page.at = "sign-in"    -> PasswordForm \union MagicLinkForm
    [] page.at = "sign-up"    -> SignUpPage
    [] page.at = "reset"      -> ResetPasswordPage
    [] page.at = "confirm"    -> ResetPasswordConfirm
    [] OTHER -> {}

Call(what, o) ==
  [what |-> what, org |-> o, at |-> "sent", version |-> 0, here |-> TRUE, live |-> TRUE,
   seen |-> FALSE]

Click(h, o) ==
  /\ Input
  /\ h \notin busy
  /\ \/ h \in Offered /\ o = page.org
     \/ h = "switchOrg" /\ page.at \in Shell /\ me.in /\ o # None /\ role[o] # None
     \/ h = "signOut" /\ page.at \in Shell /\ me.in /\ o = page.org
  /\ calls' = [i \in DOMAIN calls \union {inputs'} |->
                IF i = inputs' THEN Call(h, o) ELSE calls[i]]
  /\ busy' = busy \union ({h} \intersect Disabling)
  /\ UNCHANGED <<server, page, me, cache, fetch, toastVars>>

-----------------------------------------------------------------------------
(* The server serves the request of a handler, granted or not.  An error,  *)
(* answered or met on the way back, may hide that it took effect.          *)

\* The endpoints that need no session.
Open == {"signIn", "sendLink", "signUp", "sendReset", "setPassword"}

\* The server has neither a way to send a reset nor deleteUser switched on.
Granted(c) ==
  CASE c.what \in {"subscribe", "portal"} ->
         active # None /\ HasPermission(role[active], "billing:manage")
    [] c.what \in {"invite", "removeMember", "cancelInvite", "saveSettings"} -> role[c.org] \in {"owner", "admin"}
    [] c.what \in {"switchOrg", "activate"} -> role[c.org] # None
    [] c.what \in {"sendReset", "setPassword", "deleteAccount"} -> FALSE
    [] OTHER -> TRUE

NewOrg(c) == CHOOSE o \in Orgs : role[o] = None

\* sendVerification, sendMagicLink: a mail Resend refuses is logged, no more; who
\* asked for it is told that it is on its way.
SendEmail == mail' \in {mail, TRUE}

Effect(c) ==
  /\ signedIn' = (c.what # "signOut" /\ (signedIn \/ c.what = "signIn"))
  /\ active' = CASE c.what \in {"switchOrg", "activate"} -> c.org
                 [] c.what \in {"signIn", "signOut"} -> None
                 [] OTHER -> active
  /\ version' = IF c.what \in DOMAIN Changes
                THEN [version EXCEPT ![KeyOf(c)] = @ + 1] ELSE version
  /\ IF c.what \in {"sendLink", "signUp"} THEN SendEmail ELSE UNCHANGED mail
  /\ role' = IF c.what = "createOrg" THEN [role EXCEPT ![NewOrg(c)] = "owner"] ELSE role

Answered(i, at) ==
  LET c == calls[i] IN
  [c EXCEPT !.at = at,
            !.org = IF c.what = "createOrg" /\ at = "ok" THEN NewOrg(c) ELSE c.org,
            !.version = IF c.what \in DOMAIN Changes THEN version'[KeyOf(c)] ELSE 0]

Without(i) == Restrict(calls, DOMAIN calls \ {i})

Serve(i) ==
  LET c == calls[i] IN
  /\ c.at = "sent"
  /\ \/ /\ (signedIn \/ c.what \in Open) /\ Granted(c)
        /\ c.what = "createOrg" => \E o \in Orgs : role[o] = None
        /\ Effect(c)
        /\ IF c.live THEN \E at \in {"ok", "error"} : calls' = [calls EXCEPT ![i] = Answered(i, at)]
                     ELSE calls' = Without(i)
     \/ /\ calls' = IF c.live THEN [calls EXCEPT ![i].at = "error"] ELSE Without(i)
        /\ UNCHANGED server
     \/ /\ c.live /\ ~signedIn /\ c.what \notin Open
        /\ calls' = [calls EXCEPT ![i].at = "unauthorized"]
        /\ UNCHANGED server
  /\ UNCHANGED <<inputs, page, me, cache, fetch, busy, toastVars>>

\* Other tabs, other members and Stripe.  What others change before the tab first
\* asks for a list makes no difference to it.
Elsewhere ==
  /\ Input
  /\ \/ \E o \in Orgs : /\ signedIn /\ role[o] # None
                        /\ active' = o /\ UNCHANGED <<signedIn, version>>
     \/ signedIn' = FALSE /\ active' = None /\ UNCHANGED version
     \/ \E k \in OrgLists \X Orgs :
                        /\ k[1] = "subscription" \/ cache[k] # Empty \/ fetch[k] # Idle
                        /\ version' = [version EXCEPT ![k] = @ + 1]
                        /\ UNCHANGED <<signedIn, active>>
  /\ UNCHANGED <<role, mail, tab, toastVars>>

-----------------------------------------------------------------------------
(* The rest of each handler, when its answer arrives in the tab.           *)

AnswerOf(i, whats) ==
  /\ calls[i].live
  /\ calls[i].what \in whats
  /\ calls[i].at \in {"ok", "error", "unauthorized"}

Released(i) == IF calls[i].here THEN busy \ {calls[i].what} ELSE busy

\* The list the handler invalidates is on screen when it does.
EndedFor(i, k) ==
  IF calls[i].at = "ok" /\ k \in KeysOf(page)
  THEN [calls EXCEPT ![i].at = "done", ![i].seen = TRUE] ELSE Without(i)

InviteDone(i) ==
  LET c == calls[i]
      k == <<"members", c.org>> IN
  /\ AnswerOf(i, {"invite"})
  /\ \/ c.at = "ok" /\ AddToast /\ Invalidate(k)
     \/ c.at # "ok" /\ UNCHANGED <<cache, fetch, toastVars>>
  /\ calls' = Without(i)
  /\ busy' = Released(i)
  /\ UNCHANGED <<server, inputs, page, me>>

\* Neither removal nor cancellation looks at the error of the result.
RemoveDone(i) ==
  LET k == <<"members", calls[i].org>> IN
  /\ AnswerOf(i, {"removeMember"})
  /\ Invalidate(k)
  /\ calls' = EndedFor(i, k)
  /\ UNCHANGED <<server, inputs, page, me, busy, toastVars>>

CancelDone(i) ==
  LET k == <<"invitations", calls[i].org>> IN
  /\ AnswerOf(i, {"cancelInvite"})
  /\ AddToast
  /\ Invalidate(k)
  /\ calls' = EndedFor(i, k)
  /\ UNCHANGED <<server, inputs, page, me, busy>>

RevokeDone(i) ==
  LET k == <<"sessions", None>> IN
  /\ AnswerOf(i, {"revoke"})
  /\ AddToast
  /\ Invalidate(k)
  /\ calls' = EndedFor(i, k)
  /\ UNCHANGED <<server, inputs, page, me, busy>>

SaveDone(i) ==
  /\ AnswerOf(i, {"saveSettings", "saveProfile"})
  /\ AddToast
  /\ calls' = Without(i)
  /\ busy' = Released(i)
  /\ UNCHANGED <<server, inputs, page, me, cache, fetch>>

\* The switcher closes and refreshes the router: page and cache stay.
SwitchDone(i) ==
  /\ AnswerOf(i, {"switchOrg"})
  /\ calls' = Without(i)
  /\ UNCHANGED <<server, inputs, page, me, cache, fetch, busy, toastVars>>

\* Checkout and portal: success leaves for Stripe, a 401 for /sign-in, whatever
\* page is open by then; any other failure gives the button back.
MutBillingDoneStuck(i) ==
  /\ AnswerOf(i, {"subscribe", "portal"})
  /\ \/ calls[i].at = "ok" /\ LoadPage("stripe", calls[i].org) /\ ResetToasts
     \/ calls[i].at = "unauthorized" /\ LoadPage("sign-in", None) /\ ResetToasts
     \/ /\ calls[i].at = "error"
        /\ AddToast
        /\ calls' = Without(i)
        /\ UNCHANGED <<page, me, cache, fetch, busy>>
  /\ UNCHANGED <<server, inputs>>
BillingDone(i) ==
  /\ AnswerOf(i, {"subscribe", "portal"})
  /\ \/ calls[i].at = "ok" /\ LoadPage("stripe", calls[i].org) /\ ResetToasts
     \/ calls[i].at = "unauthorized" /\ LoadPage("sign-in", None) /\ ResetToasts
     \/ /\ calls[i].at = "error"
        /\ AddToast
        /\ calls' = Without(i)
        /\ busy' = Released(i)
        /\ UNCHANGED <<page, me, cache, fetch>>
  /\ UNCHANGED <<server, inputs>>

\* A created organization is made active by a second request, whose result is
\* not looked at; then the tab opens its members.
CreateDone(i) ==
  LET c == calls[i] IN
  /\ AnswerOf(i, {"createOrg"})
  /\ \/ /\ c.at = "ok"
        /\ calls' = [calls EXCEPT ![i].what = "activate", ![i].at = "sent"]
        /\ UNCHANGED busy
     \/ /\ c.at # "ok"
        /\ calls' = Without(i)
        /\ busy' = Released(i)
  /\ UNCHANGED <<server, inputs, page, me, cache, fetch, toastVars>>

ActivateDone(i) ==
  /\ AnswerOf(i, {"activate"})
  /\ Navigate("members", calls[i].org)
  /\ calls' = Left(Without(i))
  /\ UNCHANGED <<server, inputs, toastVars>>

SignOutDone(i) ==
  /\ AnswerOf(i, {"signOut"})
  /\ Navigate("sign-in", None)
  /\ calls' = Left(Without(i))
  /\ UNCHANGED <<server, inputs, toastVars>>

SignInDone(i) ==
  /\ AnswerOf(i, {"signIn"})
  /\ \/ /\ calls[i].at = "ok"
        /\ Navigate("dashboard", None)
        /\ calls' = Left(Without(i))
     \/ /\ calls[i].at # "ok"
        /\ calls' = Without(i)
        /\ busy' = Released(i)
        /\ UNCHANGED <<page, me, cache, fetch>>
  /\ UNCHANGED <<server, inputs, toastVars>>

\* Sign-up and the request of a link end in a message on the page, refused or not;
\* for a reset and for the deletion of the account there is only the refusal.
PromptDone(i) ==
  /\ AnswerOf(i, {"sendLink", "signUp", "sendReset", "setPassword", "deleteAccount"})
  /\ calls' = IF calls[i].at = "ok" /\ calls[i].here
            THEN [calls EXCEPT ![i].at = "done"] ELSE Without(i)
  /\ busy' = Released(i)
  /\ UNCHANGED <<server, inputs, page, me, cache, fetch, toastVars>>

\* No answer: the awaits of Better Auth's client reject, the rest of the handler is
\* skipped.  react-hook-form gives the button of its form back all the same; the
\* flag of deleteAccount stays set.
Rejected(i) ==
  LET c == calls[i] IN
  /\ c.live /\ c.at = "error" /\ c.what \notin {"subscribe", "portal"}
  /\ calls' = Without(i)
  /\ busy' = IF c.here /\ c.what # "deleteAccount"
             THEN busy \ {IF c.what = "activate" THEN "createOrg" ELSE c.what} ELSE busy
  /\ UNCHANGED <<server, inputs, page, me, cache, fetch, toastVars>>

HandlerDone(i) ==
  \/ InviteDone(i) \/ RemoveDone(i) \/ CancelDone(i) \/ SaveDone(i) \/ SwitchDone(i)
  \/ RevokeDone(i) \/ PromptDone(i) \/ BillingDone(i) \/ CreateDone(i) \/ ActivateDone(i)
  \/ SignOutDone(i) \/ SignInDone(i) \/ Rejected(i)

\* The toaster is on the pages of the shell; a timer runs on wherever the tab goes
\* without a page load.
Toast ==
  /\ \/ page.at \in Shell /\ Dismiss
     \/ RemoveToast
  /\ UNCHANGED <<server, inputs, tab>>

Next ==
  \/ \E k \in Keys : FetchServed(k) \/ FetchArrives(k)
  \/ Focus \/ RefreshSession \/ ReturnFromStripe \/ OpenMail \/ Elsewhere \/ Toast
  \/ \E at \in Shell \union Doors : FollowLink(at)
  \/ \E at \in OrgPlaces \union {"danger", "sign-in", "sign-up", "confirm"}, o \in Orgs \union {None} : OpenUrl(at, o)
  \/ \E h \in Handlers, o \in Orgs \union {None} : Click(h, o)
  \/ \E i \in DOMAIN calls : Serve(i) \/ HandlerDone(i)

Spec == Init /\ [][Next]_vars

-----------------------------------------------------------------------------
(* Properties.                                                             *)

(* A cached list of members or invitations is the list of the organization *)
(* it is cached under, whichever organization the session had active when  *)
(* the query was served.  The billing page has no such guarantee: its key  *)
(* names the organization of the URL, its request none.                    *)
ListsAreTheirOrgs ==
  \A k \in Keys :
    cache[k].is = "data" /\ k[1] \in {"members", "invitations"} => cache[k].org = k[2]

(* Read your own writes: once the tab has the answer to a removal, a       *)
(* cancellation or a revocation while it shows the list, what it keeps of  *)
(* the list and has not invalidated is not older than that change,         *)
(* although a fetch sent before may still have been in flight.             *)
OwnWritesShow ==
  \A i \in DOMAIN calls :
    calls[i].seen =>
      LET k == KeyOf(calls[i]) IN
      cache[k].is = "data" /\ cache[k].fresh => cache[k].version >= calls[i].version

(* A button its handler disabled waits for an answer of that handler: no   *)
(* failure leaves a mounted page with a spinner nothing will stop, but for *)
(* the deletion of the account, whose request may find no server.          *)
SpinnersAreAwaited ==
  \A h \in busy \ {"deleteAccount"} : \E i \in DOMAIN calls :
    /\ calls[i].here
    /\ calls[i].what = h \/ (h = "createOrg" /\ calls[i].what = "activate")
    /\ calls[i].at # "done"
=============================================================================
