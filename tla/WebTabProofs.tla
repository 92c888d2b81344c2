---------------------------- MODULE WebTabProofs ----------------------------
(***************************************************************************)
(* What module WebTab promises, proved for any organizations, memberships  *)
(* and number of inputs.                                                   *)
(***************************************************************************)
EXTENDS WebTab, SequenceTheorems, TLAPS

CachedType == [is : {"empty", "failed", "data"}, org : Orgs \union {None},
               version : Nat, fresh : BOOLEAN]
FetchType == [at : {"idle", "sent", "data", "unauthorized"}, org : Orgs \union {None},
              version : Nat, tries : 0..1]
CallType == [what : Handlers \union {"activate"}, org : Orgs \union {None},
             at : {"sent", "ok", "error", "unauthorized", "done"},
             version : Nat, here : BOOLEAN, live : BOOLEAN, seen : BOOLEAN]

-----------------------------------------------------------------------------
(* The inductive invariant.                                                *)

\* The handlers whose request names an organization, and those that change a list
\* the page they start on shows.
OrgBound == {"invite", "removeMember", "cancelInvite", "saveSettings", "subscribe", "portal",
             "switchOrg", "activate"}
FromLists == {"removeMember", "cancelInvite", "revoke"}

\* The store of toasts, as it is after every step.
ToastsKept == ToastTypeOK /\ TimersMatchToasts

\* The session and what the server keeps.
ServerTyped ==
  /\ signedIn \in BOOLEAN /\ active \in Orgs \union {None}
  /\ role \in [Orgs -> Roles \union {None}]
  /\ version \in [Keys -> Nat] /\ mail \in BOOLEAN

\* A page names an organization when its URL does.
PageNamed(p) ==
  /\ p \in [at : Places, org : Orgs \union {None}]
  /\ p.org # None <=> p.at \in OrgPlaces \union {"stripe"}

TabTyped ==
  /\ PageNamed(page)
  /\ me \in [in : BOOLEAN, org : Orgs \union {None}]
  /\ busy \subseteq Disabling

\* A list, cached or on its way, is the list of the organization of its key.
CachedWell(ca) ==
  /\ ca \in [Keys -> CachedType]
  /\ \A k \in Keys : ca[k].is = "data" /\ k[1] # "subscription" => ca[k].org = k[2]
FetchedWell(fe) ==
  /\ fe \in [Keys -> FetchType]
  /\ \A k \in Keys : fe[k].at = "data" /\ k[1] # "subscription" => fe[k].org = k[2]

\* A call names the organization its request is about; the page that started it is
\* in the same document, and only calls of a list are waited for beyond their end.
Grounded(c) ==
  /\ c \in CallType
  /\ c.what \in OrgBound => c.org \in Orgs
  /\ c.what = "revoke" => c.org = None
  /\ c.what = "createOrg" /\ c.at = "ok" => c.org \in Orgs
  /\ c.here => c.live
  /\ c.seen => c.at = "done" /\ c.what \in FromLists

\* The version a call was answered with is one the server has reached.
Reached(c, ver) == c.what \in DOMAIN Changes => c.version <= ver[KeyOf(c)]

\* While the document of a call stands, the list it started from is never empty
\* again: so the answer of a fetch under way is dropped when the list is invalidated.
Loading(c, ca) == c.what \in FromLists /\ c.live => ca[KeyOf(c)].is # "empty"

\* Neither the list nor the answer on its way to it is older than the change.
Shown(c, ca, fe) ==
  c.seen =>
    /\ ca[KeyOf(c)].is = "data" /\ ca[KeyOf(c)].fresh => ca[KeyOf(c)].version >= c.version
    /\ fe[KeyOf(c)].at = "data" => fe[KeyOf(c)].version >= c.version

\* What holds of one call, given the lists.
CallKept(c, ver, ca, fe) ==
  Grounded(c) /\ Reached(c, ver) /\ Loading(c, ca) /\ Shown(c, ca, fe)

CallsKept(cs, ver, ca, fe) == \A i \in DOMAIN cs : CallKept(cs[i], ver, ca, fe)

\* A call another handler's button waits for.
Awaits(c, h) ==
  c.here /\ (c.what = h \/ (h = "createOrg" /\ c.what = "activate")) /\ c.at # "done"
Awaited(bs, cs) == \A h \in bs \ {"deleteAccount"} : \E i \in DOMAIN cs : Awaits(cs[i], h)

Numbered(cs, n) ==
  /\ cs = [i \in DOMAIN cs |-> cs[i]]
  /\ DOMAIN cs \subseteq 1..n

TabInv ==
  /\ ToastsKept
  /\ ServerTyped
  /\ TabTyped
  /\ inputs \in 0..MaxInputs
  /\ CachedWell(cache)
  /\ FetchedWell(fetch)
  /\ Numbered(calls, inputs)
  /\ CallsKept(calls, version, cache, fetch)
  /\ Awaited(busy, calls)

-----------------------------------------------------------------------------
(* Keys and pages.                                                         *)

LEMMA Keyed ==
  ASSUME NEW c, Grounded(c), c.what \in DOMAIN Changes
  PROVE  /\ KeyOf(c) \in Keys
         /\ KeyOf(c)[1] # "subscription"
<1>1. c.what \in {"invite", "removeMember", "cancelInvite", "revoke"}
  BY DEF Changes
<1>2. CASE c.what = "invite"
  <2>1. KeyOf(c) = <<"invitations", c.org>>
    BY <1>2 DEF KeyOf, Changes
  <2>2. QED
    BY <1>2, <2>1 DEF Grounded, OrgBound, Keys, OrgLists
<1>3. CASE c.what = "removeMember"
  <2>1. KeyOf(c) = <<"members", c.org>>
    BY <1>3 DEF KeyOf, Changes
  <2>2. QED
    BY <1>3, <2>1 DEF Grounded, OrgBound, Keys, OrgLists
<1>4. CASE c.what = "cancelInvite"
  <2>1. KeyOf(c) = <<"invitations", c.org>>
    BY <1>4 DEF KeyOf, Changes
  <2>2. QED
    BY <1>4, <2>1 DEF Grounded, OrgBound, Keys, OrgLists
<1>5. CASE c.what = "revoke"
  <2>1. KeyOf(c) = <<"sessions", c.org>>
    BY <1>5 DEF KeyOf, Changes
  <2>2. QED
    BY <1>5, <2>1 DEF Grounded, OrgBound, Keys, OrgLists
<1>6. QED
  BY <1>1, <1>2, <1>3, <1>4, <1>5

LEMMA PageKeys ==
  ASSUME NEW p, PageNamed(p)
  PROVE  KeysOf(p) \subseteq Keys
  BY DEF PageNamed, KeysOf, ListOf, Keys, OrgLists, OrgPlaces, Places, Doors, Shell, OwnPlaces

-----------------------------------------------------------------------------
(* Calls: one of them, then all.                                           *)

LEMMA LeftOne ==
  ASSUME NEW c, NEW ver, NEW ca, NEW fe, CallKept(c, ver, ca, fe)
  PROVE  CallKept([c EXCEPT !.here = FALSE], ver, ca, fe)
<1> DEFINE d == [c EXCEPT !.here = FALSE]
<1>1. c \in CallType
  BY DEF CallKept, Grounded
<1>2. /\ d \in CallType
      /\ d.what = c.what /\ d.org = c.org /\ d.at = c.at /\ d.version = c.version
      /\ d.here = FALSE /\ d.live = c.live /\ d.seen = c.seen
  BY <1>1 DEF CallType
<1>3. KeyOf(d) = KeyOf(c)
  BY <1>2 DEF KeyOf
<1> HIDE DEF d
<1>4. Grounded(d)
  BY <1>2 DEF CallKept, Grounded
<1>5. Reached(d, ver) /\ Loading(d, ca) /\ Shown(d, ca, fe)
  BY <1>2, <1>3 DEF CallKept, Reached, Loading, Shown
<1>6. CallKept(d, ver, ca, fe)
  BY <1>4, <1>5 DEF CallKept
<1>7. QED
  BY <1>6 DEF d

\* A call of a document that is gone depends on no list.
LEMMA UnloadedOne ==
  ASSUME NEW c, NEW ver, NEW ca, NEW fe, NEW ca2, NEW fe2,
         CallKept(c, ver, ca, fe), c.at = "sent"
  PROVE  CallKept([c EXCEPT !.here = FALSE, !.live = FALSE], ver, ca2, fe2)
<1> DEFINE d == [c EXCEPT !.here = FALSE, !.live = FALSE]
<1>1. c \in CallType
  BY DEF CallKept, Grounded
<1>2. /\ d \in CallType
      /\ d.what = c.what /\ d.org = c.org /\ d.at = c.at /\ d.version = c.version
      /\ d.here = FALSE /\ d.live = FALSE /\ d.seen = c.seen
  BY <1>1 DEF CallType
<1>3. KeyOf(d) = KeyOf(c)
  BY <1>2 DEF KeyOf
<1> HIDE DEF d
<1>4. Grounded(d)
  BY <1>2 DEF CallKept, Grounded
<1>5. ~d.seen
  BY <1>2 DEF CallKept, Grounded, CallType
<1>6. Reached(d, ver) /\ Loading(d, ca2) /\ Shown(d, ca2, fe2)
  BY <1>2, <1>3, <1>5 DEF CallKept, Reached, Loading, Shown
<1>7. CallKept(d, ver, ca2, fe2)
  BY <1>4, <1>6 DEF CallKept
<1>8. QED
  BY <1>7 DEF d

LEMMA LeftKept ==
  ASSUME NEW cs, NEW n, NEW ver, NEW ca, NEW fe,
         Numbered(cs, n), CallsKept(cs, ver, ca, fe)
  PROVE  Numbered(Left(cs), n) /\ CallsKept(Left(cs), ver, ca, fe)
<1>1. DOMAIN Left(cs) \subseteq DOMAIN cs
  BY DEF Left
<1>2. \A i \in DOMAIN Left(cs) : Left(cs)[i] = [cs[i] EXCEPT !.here = FALSE]
  BY DEF Left
<1>3. Left(cs) = [i \in DOMAIN Left(cs) |-> Left(cs)[i]]
  BY DEF Left
<1>4. Numbered(Left(cs), n)
  BY <1>1, <1>3 DEF Numbered
<1>5. ASSUME NEW i \in DOMAIN Left(cs)
      PROVE  CallKept(Left(cs)[i], ver, ca, fe)
  <2>1. CallKept(cs[i], ver, ca, fe)
    BY <1>1 DEF CallsKept
  <2>2. CallKept([cs[i] EXCEPT !.here = FALSE], ver, ca, fe)
    BY <2>1, LeftOne
  <2>3. QED
    BY <1>2, <2>2
<1>6. QED
  BY <1>4, <1>5 DEF CallsKept

LEMMA UnloadedKept ==
  ASSUME NEW n, NEW ver, NEW ca, NEW fe, NEW ca2, NEW fe2,
         Numbered(calls, n), CallsKept(calls, ver, ca, fe)
  PROVE  Numbered(Unloaded, n) /\ CallsKept(Unloaded, ver, ca2, fe2)
<1>1. /\ DOMAIN Unloaded \subseteq DOMAIN calls
      /\ \A i \in DOMAIN Unloaded : calls[i].at = "sent"
  BY DEF Unloaded
<1>2. \A i \in DOMAIN Unloaded : Unloaded[i] = [calls[i] EXCEPT !.here = FALSE, !.live = FALSE]
  BY DEF Unloaded
<1>3. Unloaded = [i \in DOMAIN Unloaded |-> Unloaded[i]]
  BY DEF Unloaded
<1>4. Numbered(Unloaded, n)
  BY <1>1, <1>3 DEF Numbered
<1>5. ASSUME NEW i \in DOMAIN Unloaded
      PROVE  CallKept(Unloaded[i], ver, ca2, fe2)
  <2>1. CallKept(calls[i], ver, ca, fe) /\ calls[i].at = "sent"
    BY <1>1 DEF CallsKept
  <2>2. CallKept([calls[i] EXCEPT !.here = FALSE, !.live = FALSE], ver, ca2, fe2)
    BY <2>1, UnloadedOne
  <2>3. QED
    BY <1>2, <2>2
<1>6. QED
  BY <1>4, <1>5 DEF CallsKept

LEMMA WithoutKept ==
  ASSUME NEW i, NEW n, NEW ver, NEW ca, NEW fe,
         Numbered(calls, n), CallsKept(calls, ver, ca, fe)
  PROVE  Numbered(Without(i), n) /\ CallsKept(Without(i), ver, ca, fe)
<1>1. /\ DOMAIN Without(i) \subseteq DOMAIN calls
      /\ \A j \in DOMAIN Without(i) : Without(i)[j] = calls[j]
      /\ Without(i) = [j \in DOMAIN Without(i) |-> Without(i)[j]]
  BY DEF Without, Restrict
<1>2. QED
  BY <1>1 DEF Numbered, CallsKept

LEMMA ReplacedKept ==
  ASSUME NEW i \in DOMAIN calls, NEW c, NEW n, NEW ver, NEW ca, NEW fe,
         Numbered(calls, n), CallsKept(calls, ver, ca, fe), CallKept(c, ver, ca, fe)
  PROVE  /\ Numbered([calls EXCEPT ![i] = c], n)
         /\ CallsKept([calls EXCEPT ![i] = c], ver, ca, fe)
<1> DEFINE cs == [calls EXCEPT ![i] = c]
<1>1. /\ DOMAIN cs = DOMAIN calls
      /\ \A j \in DOMAIN cs : cs[j] = IF j = i THEN c ELSE calls[j]
      /\ cs = [j \in DOMAIN cs |-> cs[j]]
  OBVIOUS
<1> HIDE DEF cs
<1>2. Numbered(cs, n) /\ CallsKept(cs, ver, ca, fe)
  BY <1>1 DEF Numbered, CallsKept
<1>3. QED
  BY <1>2 DEF cs

-----------------------------------------------------------------------------
(* Lists.                                                                  *)

\* What a step may make of the lists, the answers on their way included: nothing
\* comes to be older, and nothing empty that was not.
NotOlder(ver, ca, fe, ca2, fe2) ==
  \A k \in Keys : k[1] # "subscription" =>
    /\ ca[k].is # "empty" => ca2[k].is # "empty"
    /\ ca2[k].is = "data" /\ ca2[k].fresh =>
         \/ ca[k].is = "data" /\ ca[k].fresh /\ ca2[k].version = ca[k].version
         \/ fe[k].at = "data" /\ ca2[k].version = fe[k].version
    /\ fe2[k].at = "data" =>
         \/ fe[k].at = "data" /\ fe2[k].version = fe[k].version
         \/ fe2[k].version = ver[k]

LEMMA InList ==
  ASSUME NEW c, NEW ver, NEW ca, NEW fe, NEW ca2, NEW fe2,
         CallKept(c, ver, ca, fe), NotOlder(ver, ca, fe, ca2, fe2)
  PROVE  CallKept(c, ver, ca2, fe2)
<1>1. Grounded(c) /\ Reached(c, ver)
  BY DEF CallKept
<1>2. CASE c.what \in FromLists
  <2>1. c.what \in DOMAIN Changes
    BY <1>2 DEF FromLists, Changes
  <2>2. KeyOf(c) \in Keys /\ KeyOf(c)[1] # "subscription"
    BY <1>1, <2>1, Keyed
  <2>3. c.version <= ver[KeyOf(c)]
    BY <1>1, <2>1 DEF Reached
  <2> DEFINE k == KeyOf(c)
  <2>4. /\ ca[k].is # "empty" => ca2[k].is # "empty"
        /\ ca2[k].is = "data" /\ ca2[k].fresh =>
             \/ ca[k].is = "data" /\ ca[k].fresh /\ ca2[k].version = ca[k].version
             \/ fe[k].at = "data" /\ ca2[k].version = fe[k].version
        /\ fe2[k].at = "data" =>
             \/ fe[k].at = "data" /\ fe2[k].version = fe[k].version
             \/ fe2[k].version = ver[k]
    BY <2>2 DEF NotOlder
  <2> HIDE DEF k
  <2>5. Loading(c, ca2)
    BY <2>4 DEF CallKept, Loading, k
  <2>6. Shown(c, ca2, fe2)
    BY <2>3, <2>4 DEF CallKept, Shown, k
  <2>7. QED
    BY <1>1, <2>5, <2>6 DEF CallKept
<1>3. CASE c.what \notin FromLists
  BY <1>1, <1>3 DEF CallKept, Grounded, Loading, Shown
<1>4. QED
  BY <1>2, <1>3

LEMMA InLists ==
  ASSUME NEW cs, NEW ver, NEW ca, NEW fe, NEW ca2, NEW fe2,
         CallsKept(cs, ver, ca, fe), NotOlder(ver, ca, fe, ca2, fe2)
  PROVE  CallsKept(cs, ver, ca2, fe2)
  BY InList DEF CallsKept

LEMMA SentTyped ==
  ASSUME NEW n \in 0..1
  PROVE  /\ Sent(n) \in FetchType /\ Sent(n).at = "sent"
         /\ Idle \in FetchType /\ Idle.at = "idle"
         /\ Empty \in CachedType /\ Empty.is = "empty"
<1>1. Idle \in FetchType /\ Idle.at = "idle"
  BY DEF Idle, FetchType
<1>2. Sent(n) \in FetchType /\ Sent(n).at = "sent"
  BY <1>1 DEF Sent, FetchType
<1>3. Empty \in CachedType /\ Empty.is = "empty"
  BY DEF Empty, CachedType
<1>4. QED
  BY <1>1, <1>2, <1>3

LEMMA FetchedKept ==
  ASSUME NEW p, NEW old, FetchedWell(fetch)
  PROVE  /\ FetchedWell(Fetched(p, old))
         /\ \A ver : NotOlder(ver, cache, fetch, cache, Fetched(p, old))
<1> DEFINE fe == Fetched(p, old)
<1>1. /\ \A k \in Keys : fe[k] = Sent(0) \/ fe[k] = fetch[k]
      /\ fe = [k \in Keys |-> fe[k]]
  BY DEF Fetched
<1> HIDE DEF fe
<1>2. Sent(0) \in FetchType /\ Sent(0).at = "sent"
  BY SentTyped
<1>3. FetchedWell(fe)
  BY <1>1, <1>2 DEF FetchedWell
<1>4. \A ver : NotOlder(ver, cache, fetch, cache, fe)
  BY <1>1, <1>2 DEF NotOlder
<1>5. QED
  BY <1>3, <1>4 DEF fe

LEMMA InvalidateKept ==
  ASSUME NEW k, CachedWell(cache), FetchedWell(fetch), Invalidate(k)
  PROVE  /\ CachedWell(cache') /\ FetchedWell(fetch')
         /\ \A ver : NotOlder(ver, cache, fetch, cache', fetch')
         /\ k \in Keys => cache'[k].fresh = FALSE
         /\ k \in KeysOf(page) /\ k \in Keys /\ cache[k].is # "empty" => fetch'[k].at = "sent"
<1>1. Sent(0) \in FetchType /\ Sent(0).at = "sent"
  BY SentTyped
<1>2. cache' = [cache EXCEPT ![k].fresh = FALSE]
  BY DEF Invalidate
<1>3. /\ cache' \in [Keys -> CachedType]
      /\ \A j \in Keys : /\ cache'[j].is = cache[j].is /\ cache'[j].org = cache[j].org
                         /\ cache'[j].version = cache[j].version
                         /\ cache'[j].fresh => cache[j].fresh
      /\ k \in Keys => cache'[k].fresh = FALSE
  BY <1>2 DEF CachedWell, CachedType
<1>4. /\ \A j \in Keys : fetch'[j] = fetch[j] \/ fetch'[j] = Sent(0)
      /\ fetch' \in [Keys -> FetchType]
      /\ k \in KeysOf(page) /\ k \in Keys /\ cache[k].is # "empty" => fetch'[k] = Sent(0)
  <2>1. fetch' = [fetch EXCEPT ![k] =
                   IF k \in KeysOf(page) /\ (cache[k].is # "empty" \/ fetch[k] = Idle)
                   THEN Sent(0) ELSE fetch[k]]
    BY DEF Invalidate
  <2>2. QED
    BY <1>1, <2>1 DEF FetchedWell
<1>5. CachedWell(cache')
  BY <1>3 DEF CachedWell
<1>6. FetchedWell(fetch')
  BY <1>1, <1>4 DEF FetchedWell
<1>7. ASSUME NEW ver
      PROVE  NotOlder(ver, cache, fetch, cache', fetch')
  BY <1>1, <1>3, <1>4 DEF NotOlder
<1>8. QED
  BY <1>1, <1>3, <1>4, <1>5, <1>6, <1>7

\* Unchanged lists are no older.
LEMMA SameLists ==
  ASSUME NEW ver, NEW ca, NEW fe
  PROVE  NotOlder(ver, ca, fe, ca, fe)
  BY DEF NotOlder

LEMMA LoadPageKept ==
  ASSUME NEW at, NEW o, PageNamed([at |-> at, org |-> o]), LoadPage(at, o),
         NEW n, NEW ver, Numbered(calls, n), CallsKept(calls, ver, cache, fetch)
  PROVE  /\ PageNamed(page') /\ me' \in [in : BOOLEAN, org : Orgs \union {None}] /\ busy' = {}
         /\ CachedWell(cache') /\ FetchedWell(fetch')
         /\ Numbered(calls', n) /\ CallsKept(calls', ver, cache', fetch')
<1>1. /\ page' = [at |-> at, org |-> o] /\ me' = Nobody
      /\ cache' = [k \in Keys |-> Empty]
      /\ \A k \in Keys : fetch'[k] = Sent(0) \/ fetch'[k] = Idle
      /\ fetch' = [k \in Keys |-> fetch'[k]]
      /\ busy' = {} /\ calls' = Unloaded
  BY DEF LoadPage
<1>2. me' \in [in : BOOLEAN, org : Orgs \union {None}]
  BY <1>1 DEF Nobody
<1>3. CachedWell(cache') /\ FetchedWell(fetch')
  BY <1>1, SentTyped DEF CachedWell, FetchedWell
<1>4. Numbered(calls', n) /\ CallsKept(calls', ver, cache', fetch')
  BY <1>1, UnloadedKept
<1>5. QED
  BY <1>1, <1>2, <1>3, <1>4

LEMMA NavigateKept ==
  ASSUME NEW at, NEW o, PageNamed([at |-> at, org |-> o]), Navigate(at, o),
         CachedWell(cache), FetchedWell(fetch),
         me \in [in : BOOLEAN, org : Orgs \union {None}],
         NEW ver, NEW cs, CallsKept(cs, ver, cache, fetch)
  PROVE  /\ PageNamed(page') /\ me' \in [in : BOOLEAN, org : Orgs \union {None}] /\ busy' = {}
         /\ CachedWell(cache') /\ FetchedWell(fetch')
         /\ CallsKept(cs, ver, cache', fetch')
<1>1. /\ page' = [at |-> at, org |-> o] /\ me' = me /\ cache' = cache /\ busy' = {}
  BY DEF Navigate
<1>2. PICK old \in BOOLEAN : fetch' = Fetched([at |-> at, org |-> o], old)
  BY DEF Navigate
<1>3. FetchedWell(fetch') /\ NotOlder(ver, cache, fetch, cache', fetch')
  BY <1>1, <1>2, FetchedKept
<1>4. CallsKept(cs, ver, cache', fetch')
  BY <1>3, InLists
<1>5. QED
  BY <1>1, <1>3, <1>4

\* Versions only grow, and no call is the worse for it.
LEMMA Grown ==
  ASSUME NEW cs, NEW ver, NEW ca, NEW fe, NEW ver2,
         ver \in [Keys -> Nat], ver2 \in [Keys -> Nat], \A k \in Keys : ver[k] <= ver2[k],
         CallsKept(cs, ver, ca, fe)
  PROVE  CallsKept(cs, ver2, ca, fe)
<1>1. ASSUME NEW c, CallKept(c, ver, ca, fe)
      PROVE  CallKept(c, ver2, ca, fe)
  <2>1. Grounded(c) /\ c.version \in Nat
    BY <1>1 DEF CallKept, Grounded, CallType
  <2>2. Reached(c, ver2)
    <3>1. SUFFICES ASSUME c.what \in DOMAIN Changes
                   PROVE  c.version <= ver2[KeyOf(c)]
      BY DEF Reached
    <3>2. KeyOf(c) \in Keys /\ c.version <= ver[KeyOf(c)]
      BY <1>1, <2>1, <3>1, Keyed DEF CallKept, Reached
    <3>3. QED
      BY <2>1, <3>2
  <2>3. QED
    BY <1>1, <2>2 DEF CallKept
<1>2. QED
  BY <1>1 DEF CallsKept

-----------------------------------------------------------------------------
(* Toasts.                                                                 *)

LEMMA Wider ==
  ASSUME NEW S, NEW T, S \subseteq T, NEW s \in Seq(S)
  PROVE  s \in Seq(T)
<1>1. Len(s) \in Nat /\ s \in [1..Len(s) -> S]
  OBVIOUS
<1>2. s \in [1..Len(s) -> T]
  BY <1>1
<1>3. QED
  BY <1>1, <1>2

\* The store holds one toast at most.
LEMMA OneToast ==
  ASSUME NEW S, NEW s \in Seq(S), Len(s) <= 1, NEW i \in DOMAIN s
  PROVE  i = 1 /\ Len(s) = 1 /\ DOMAIN s = {1} /\ s[1] \in S
<1>1. Len(s) \in Nat /\ DOMAIN s = 1..Len(s) /\ s \in [1..Len(s) -> S]
  OBVIOUS
<1>2. Len(s) = 1 /\ i = 1
  BY <1>1
<1>3. QED
  BY <1>1, <1>2

LEMMA OneChanged ==
  ASSUME NEW S, NEW s \in Seq(S), Len(s) = 1, NEW t \in S
  PROVE  /\ [s EXCEPT ![1] = t] \in Seq(S) /\ Len([s EXCEPT ![1] = t]) = 1
         /\ DOMAIN [s EXCEPT ![1] = t] = {1} /\ [s EXCEPT ![1] = t][1] = t
<1> DEFINE r == [s EXCEPT ![1] = t]
<1>1. 1 \in 1..Len(s)
  OBVIOUS
<1>2. /\ r \in Seq(S) /\ Len(r) = Len(s)
      /\ \A j \in 1..Len(s) : r[j] = IF j = 1 THEN t ELSE s[j]
  BY <1>1, ExceptSeq
<1> HIDE DEF r
<1>3. Len(r) = 1 /\ r[1] = t
  BY <1>1, <1>2
<1>4. DOMAIN r = {1}
  BY <1>2, <1>3, OneToast
<1>5. QED
  BY <1>2, <1>3, <1>4 DEF r

LEMMA ToastsSame ==
  ToastsKept /\ UNCHANGED toastVars => ToastsKept'
  BY DEF ToastsKept, ToastTypeOK, TimersMatchToasts, toastVars

LEMMA ResetToastsKept ==
  ResetToasts => ToastsKept'
  BY DEF ResetToasts, ToastsKept, ToastTypeOK, TimersMatchToasts, TOAST_LIMIT

LEMMA ReturnToastKept ==
  ASSUME ReturnToast
  PROVE  ToastsKept'
<1>1. count' = 1 /\ memory' = <<[id |-> 1, open |-> TRUE]>> /\ timers' = {}
  BY DEF ReturnToast, GenId
<1>2. /\ memory' \in Seq([id : 1..1, open : BOOLEAN]) /\ Len(memory') = 1
      /\ memory'[1].open /\ memory'[1].id = 1 /\ DOMAIN memory' = {1}
  BY <1>1
<1>3. QED
  BY <1>1, <1>2 DEF ToastsKept, ToastTypeOK, TimersMatchToasts, TOAST_LIMIT

\* genId has never given out the number a new toast gets, so no timer waits for it.
LEMMA AddToastKept ==
  ASSUME ToastsKept, AddToast
  PROVE  ToastsKept'
<1> DEFINE t == [id |-> count + 1, open |-> TRUE]
<1>1. /\ count \in Nat /\ timers \subseteq 1..count
      /\ memory \in Seq([id : 1..count, open : BOOLEAN])
  BY DEF ToastsKept, ToastTypeOK
<1>2. count' = count + 1 /\ timers' = timers /\ memory' = SubSeq(<<t>> \o memory, 1, 1)
  BY DEF AddToast, GenId, TOAST_LIMIT
<1>3. t \in [id : 1..(count + 1), open : BOOLEAN]
  BY <1>1
<1>4. t.open /\ t.id = count + 1
  OBVIOUS
<1> HIDE DEF t
<1>5. memory \in Seq([id : 1..(count + 1), open : BOOLEAN])
  <2>1. [id : 1..count, open : BOOLEAN] \subseteq [id : 1..(count + 1), open : BOOLEAN]
    BY <1>1
  <2>2. QED
    BY <1>1, <2>1, Wider
<1>6. /\ memory' \in Seq([id : 1..(count + 1), open : BOOLEAN]) /\ Len(memory') = 1
      /\ memory'[1] = t
  BY <1>2, <1>3, <1>5
<1>7. DOMAIN memory' = {1}
  BY <1>6
<1>8. ToastTypeOK'
  BY <1>1, <1>2, <1>6 DEF ToastTypeOK, TOAST_LIMIT
<1>9. TimersMatchToasts'
  BY <1>1, <1>2, <1>4, <1>6, <1>7 DEF TimersMatchToasts
<1>10. QED
  BY <1>8, <1>9 DEF ToastsKept

LEMMA DismissKept ==
  ASSUME ToastsKept, Dismiss
  PROVE  ToastsKept'
<1>1. /\ count \in Nat /\ timers \subseteq 1..count
      /\ memory \in Seq([id : 1..count, open : BOOLEAN]) /\ Len(memory) <= 1
      /\ TimersMatchToasts
  BY DEF ToastsKept, ToastTypeOK, TOAST_LIMIT
<1>2. PICK i \in DOMAIN memory : /\ timers' = timers \union {memory[i].id}
                                 /\ memory' = [memory EXCEPT ![i].open = FALSE]
                                 /\ count' = count
  BY DEF Dismiss
<1>3. i = 1 /\ Len(memory) = 1 /\ memory[1] \in [id : 1..count, open : BOOLEAN]
  BY <1>1, OneToast
<1>4. /\ memory' \in Seq([id : 1..count, open : BOOLEAN]) /\ Len(memory') = Len(memory)
      /\ DOMAIN memory' = {1} /\ memory'[1] = [memory[1] EXCEPT !.open = FALSE]
  <2>1. [memory[1] EXCEPT !.open = FALSE] \in [id : 1..count, open : BOOLEAN]
    BY <1>3
  <2>2. memory' = [memory EXCEPT ![1] = [memory[1] EXCEPT !.open = FALSE]]
    BY <1>2, <1>3
  <2> DEFINE t == [memory[1] EXCEPT !.open = FALSE]
             T == [id : 1..count, open : BOOLEAN]
  <2>3. t \in T /\ memory \in Seq(T) /\ memory' = [memory EXCEPT ![1] = t]
    BY <1>1, <2>1, <2>2
  <2> HIDE DEF t, T
  <2>4. /\ memory' \in Seq(T) /\ Len(memory') = Len(memory)
        /\ DOMAIN memory' = {1} /\ memory'[1] = t
    BY <1>3, <2>3, OneChanged
  <2>5. QED
    BY <2>4 DEF t, T
<1>5. memory'[1].id = memory[1].id /\ memory'[1].open = FALSE /\ memory[1].id \in 1..count
  BY <1>3, <1>4
<1>6. ToastTypeOK'
  BY <1>1, <1>2, <1>3, <1>4, <1>5 DEF ToastTypeOK, TOAST_LIMIT
<1>7. TimersMatchToasts'
  BY <1>2, <1>3, <1>4, <1>5 DEF TimersMatchToasts
<1>8. QED
  BY <1>6, <1>7 DEF ToastsKept

LEMMA RemoveToastKept ==
  ASSUME ToastsKept, RemoveToast
  PROVE  ToastsKept'
<1>1. /\ count \in Nat /\ timers \subseteq 1..count
      /\ memory \in Seq([id : 1..count, open : BOOLEAN]) /\ Len(memory) <= 1
      /\ TimersMatchToasts
  BY DEF ToastsKept, ToastTypeOK, TOAST_LIMIT
<1>2. PICK id \in timers :
        /\ timers' = timers \ {id} /\ count' = count
        /\ \/ \E i \in DOMAIN memory :
                memory' = SubSeq(memory, 1, i - 1) \o SubSeq(memory, i + 1, Len(memory))
           \/ (\A i \in DOMAIN memory : memory[i].id # id) /\ memory' = memory
  BY DEF RemoveToast
<1>3. CASE \E i \in DOMAIN memory :
             memory' = SubSeq(memory, 1, i - 1) \o SubSeq(memory, i + 1, Len(memory))
  <2>1. Len(memory) = 1 /\ memory' = SubSeq(memory, 1, 0) \o SubSeq(memory, 2, 1)
    <3>1. PICK i \in DOMAIN memory :
            memory' = SubSeq(memory, 1, i - 1) \o SubSeq(memory, i + 1, Len(memory))
      BY <1>3
    <3>2. i = 1 /\ Len(memory) = 1
      BY <1>1, OneToast
    <3>3. QED
      BY <3>1, <3>2
  <2>2. Len(memory') = 0 /\ memory' \in Seq([id : 1..count, open : BOOLEAN])
    BY <1>1, <2>1
  <2>3. DOMAIN memory' = {}
    BY <2>2
  <2>4. QED
    BY <1>1, <1>2, <2>2, <2>3 DEF ToastsKept, ToastTypeOK, TimersMatchToasts, TOAST_LIMIT
<1>4. CASE (\A i \in DOMAIN memory : memory[i].id # id) /\ memory' = memory
  BY <1>1, <1>2, <1>4 DEF ToastsKept, ToastTypeOK, TimersMatchToasts, TOAST_LIMIT
<1>5. QED
  BY <1>2, <1>3, <1>4

-----------------------------------------------------------------------------
(* Buttons.                                                                *)

LEMMA AwaitedWithout ==
  ASSUME NEW i, NEW bs, bs \subseteq busy, Awaited(busy, calls),
         \A h \in bs \ {"deleteAccount"} : ~Awaits(calls[i], h)
  PROVE  Awaited(bs, Without(i))
<1>1. ASSUME NEW h \in bs \ {"deleteAccount"}
      PROVE  \E j \in DOMAIN Without(i) : Awaits(Without(i)[j], h)
  <2>1. PICK j \in DOMAIN calls : Awaits(calls[j], h)
    BY DEF Awaited
  <2>2. j \in DOMAIN calls \ {i}
    BY <2>1
  <2>3. DOMAIN Without(i) = DOMAIN calls \ {i} /\ Without(i)[j] = calls[j]
    BY <2>2 DEF Without, Restrict
  <2>4. QED
    BY <2>1, <2>2, <2>3
<1>2. QED
  BY <1>1 DEF Awaited

LEMMA AwaitedReplaced ==
  ASSUME NEW i \in DOMAIN calls, NEW c, NEW bs, bs \subseteq busy, Awaited(busy, calls),
         \A h \in bs \ {"deleteAccount"} : Awaits(calls[i], h) => Awaits(c, h)
  PROVE  Awaited(bs, [calls EXCEPT ![i] = c])
<1>1. ASSUME NEW h \in bs \ {"deleteAccount"}
      PROVE  \E j \in DOMAIN [calls EXCEPT ![i] = c] : Awaits([calls EXCEPT ![i] = c][j], h)
  <2>1. PICK j \in DOMAIN calls : Awaits(calls[j], h)
    BY DEF Awaited
  <2>2. CASE j = i
    BY <2>1, <2>2
  <2>3. CASE j # i
    BY <2>1, <2>3
  <2>4. QED
    BY <2>2, <2>3
<1>2. QED
  BY <1>1 DEF Awaited

\* A handler that gives its button back is gone without anyone missing it.
LEMMA ReleasedWithout ==
  ASSUME NEW i, Awaited(busy, calls), calls[i].what # "activate"
  PROVE  Awaited(Released(i), Without(i))
<1>1. Released(i) \subseteq busy
  BY DEF Released
<1>2. \A h \in Released(i) \ {"deleteAccount"} : ~Awaits(calls[i], h)
  BY DEF Released, Awaits
<1>3. QED
  BY <1>1, <1>2, AwaitedWithout

LEMMA NobodyAwaited ==
  ASSUME NEW cs
  PROVE  Awaited({}, cs)
  BY DEF Awaited

-----------------------------------------------------------------------------
(* The invariant, in the parts the actions touch.                          *)

\* What a step that serves no request leaves as it was.
LEMMA ServerSame ==
  ServerTyped /\ UNCHANGED server => ServerTyped'
  BY DEF ServerTyped, server

LEMMA InitKept ==
  ASSUME Init
  PROVE  TabInv
<1>1. ToastsKept
  BY DEF Init, InitToasts, ToastsKept, ToastTypeOK, TimersMatchToasts, TOAST_LIMIT
<1>2. role \in [Orgs -> Roles \union {None}] /\ active \in Orgs
  BY PagesAssumption DEF Init
<1>3. version \in [Keys -> Nat]
  BY DEF Init
<1>4. ServerTyped
  BY <1>2, <1>3 DEF Init, ServerTyped
<1>5. TabTyped
  BY <1>2 DEF Init, TabTyped, PageNamed, Places, Shell, OwnPlaces, OrgPlaces
<1>6. CachedWell(cache) /\ FetchedWell(fetch)
  BY SentTyped DEF Init, CachedWell, FetchedWell
<1>7. inputs \in 0..MaxInputs
  BY PagesAssumption DEF Init
<1>8. DOMAIN calls = {} /\ calls = [i \in DOMAIN calls |-> calls[i]]
  BY DEF Init
<1>9. Numbered(calls, inputs) /\ CallsKept(calls, version, cache, fetch)
  BY <1>8 DEF Numbered, CallsKept
<1>10. Awaited(busy, calls)
  BY NobodyAwaited DEF Init
<1>11. QED
  BY <1>1, <1>4, <1>5, <1>6, <1>7, <1>9, <1>10 DEF TabInv

\* A request answers with the list of its key, as the server has it now.
LEMMA FetchServedKept ==
  ASSUME TabInv, NEW k \in Keys, FetchServed(k)
  PROVE  TabInv'
<1>1. /\ UNCHANGED <<inputs, page, me, cache, busy, calls>>
      /\ ToastsKept' /\ ServerTyped' /\ version' = version
  BY ToastsSame, ServerSame DEF TabInv, FetchServed, server
<1>2. TabTyped'
  BY <1>1 DEF TabInv, TabTyped
<1>3. /\ active \in Orgs \union {None} /\ version \in [Keys -> Nat]
      /\ fetch \in [Keys -> FetchType]
  BY DEF TabInv, ServerTyped, FetchedWell
<1>4. FetchedWell(fetch') /\ NotOlder(version, cache, fetch, cache, fetch')
  <2>1. CASE /\ MayRead(k)
             /\ fetch' = [fetch EXCEPT ![k] = [at |-> "data", org |-> OrgServed(k), tries |-> 0,
                                               version |-> version[<<k[1], OrgServed(k)>>]]]
    <3> DEFINE o == OrgServed(k)
               v == version[<<k[1], o>>]
               f == [at |-> "data", org |-> o, tries |-> 0, version |-> v]
    <3>1. o \in Orgs \union {None} /\ <<k[1], o>> \in Keys
          /\ (k[1] # "subscription" => o = k[2] /\ <<k[1], o>> = k)
      <4>1. CASE k[1] = "subscription"
        BY <1>3, <2>1, <4>1 DEF OrgServed, MayRead, Keys, OrgLists
      <4>2. CASE k[1] # "subscription"
        BY <4>2 DEF OrgServed, Keys, OrgLists
      <4>3. QED
        BY <4>1, <4>2
    <3>2. v \in Nat /\ (k[1] # "subscription" => v = version[k])
      BY <1>3, <3>1
    <3> HIDE DEF o, v
    <3>3. f \in FetchType /\ f.at = "data" /\ f.org = o /\ f.version = v
      BY <3>1, <3>2 DEF FetchType
    <3>4. fetch' = [fetch EXCEPT ![k] = f]
      BY <2>1 DEF o, v
    <3> HIDE DEF f
    <3>5. FetchedWell(fetch')
      BY <1>3, <3>1, <3>3, <3>4 DEF TabInv, FetchedWell
    <3>6. NotOlder(version, cache, fetch, cache, fetch')
      BY <1>3, <3>2, <3>3, <3>4 DEF NotOlder
    <3>7. QED
      BY <3>5, <3>6
  <2>2. CASE fetch' = [fetch EXCEPT ![k].at = "unauthorized"]
    <3>1. fetch[k] \in FetchType
      BY <1>3
    <3> DEFINE f == [fetch[k] EXCEPT !.at = "unauthorized"]
    <3>2. f \in FetchType /\ f.at = "unauthorized"
      BY <3>1 DEF FetchType
    <3>3. fetch' = [fetch EXCEPT ![k] = f]
      BY <2>2
    <3> HIDE DEF f
    <3>4. QED
      BY <1>3, <3>2, <3>3 DEF TabInv, FetchedWell, NotOlder
  <2>3. QED
    BY <2>1, <2>2 DEF FetchServed
<1>5. CallsKept(calls, version, cache, fetch')
  BY <1>4, InLists DEF TabInv
<1>6. QED
  BY <1>1, <1>2, <1>4, <1>5 DEF TabInv

LEMMA Counted ==
  ASSUME NEW cs, NEW n \in Nat, NEW m \in Nat, n <= m, Numbered(cs, n)
  PROVE  Numbered(cs, m)
  BY DEF Numbered

LEMMA Inputs ==
  ASSUME inputs \in 0..MaxInputs
  PROVE  /\ inputs \in Nat
         /\ Input => inputs' \in 0..MaxInputs /\ inputs' = inputs + 1 /\ inputs <= inputs'
  BY PagesAssumption DEF Input

\* Any step that loads a page.
LEMMA LoadKept ==
  ASSUME TabInv, NEW at, NEW o, PageNamed([at |-> at, org |-> o]), LoadPage(at, o),
         ToastsKept', ServerTyped', version' = version, inputs' = inputs \/ Input
  PROVE  TabInv'
<1>1. /\ PageNamed(page') /\ me' \in [in : BOOLEAN, org : Orgs \union {None}] /\ busy' = {}
      /\ CachedWell(cache') /\ FetchedWell(fetch')
      /\ Numbered(calls', inputs) /\ CallsKept(calls', version, cache', fetch')
  BY LoadPageKept DEF TabInv
<1>2. TabTyped'
  BY <1>1 DEF TabTyped
<1>3. inputs' \in 0..MaxInputs /\ Numbered(calls', inputs')
  BY <1>1, Inputs, Counted, PagesAssumption DEF TabInv
<1>4. Awaited(busy', calls')
  BY <1>1, NobodyAwaited
<1>5. QED
  BY <1>1, <1>2, <1>3, <1>4 DEF TabInv

\* Any step of the router, with calls the page leaves behind.
LEMMA NavigationKept ==
  ASSUME TabInv, NEW at, NEW o, PageNamed([at |-> at, org |-> o]), Navigate(at, o),
         NEW cs, Numbered(cs, inputs), CallsKept(cs, version, cache, fetch), calls' = Left(cs),
         UNCHANGED <<server, toastVars>>, inputs' = inputs \/ Input
  PROVE  TabInv'
<1>1. ToastsKept' /\ ServerTyped' /\ version' = version
  BY ToastsSame, ServerSame DEF TabInv, server
<1>2. /\ PageNamed(page') /\ me' \in [in : BOOLEAN, org : Orgs \union {None}] /\ busy' = {}
      /\ CachedWell(cache') /\ FetchedWell(fetch')
      /\ CallsKept(cs, version, cache', fetch')
  BY NavigateKept DEF TabInv, TabTyped
<1>3. Numbered(calls', inputs) /\ CallsKept(calls', version, cache', fetch')
  BY <1>2, LeftKept
<1>4. TabTyped'
  BY <1>2 DEF TabTyped
<1>5. inputs' \in 0..MaxInputs /\ Numbered(calls', inputs')
  BY <1>3, Inputs, Counted, PagesAssumption DEF TabInv
<1>6. Awaited(busy', calls')
  BY <1>2, NobodyAwaited
<1>7. QED
  BY <1>1, <1>2, <1>3, <1>4, <1>5, <1>6 DEF TabInv

\* A handler that has its answer and goes, with or without its toast, whatever it
\* does to the lists.
LEMMA GoneKept ==
  ASSUME TabInv, NEW i, calls' = Without(i),
         UNCHANGED <<server, inputs, page, me>>, ToastsKept',
         CachedWell(cache'), FetchedWell(fetch'),
         NotOlder(version, cache, fetch, cache', fetch'),
         busy' \subseteq busy, Awaited(busy', Without(i))
  PROVE  TabInv'
<1>1. ServerTyped' /\ version' = version /\ inputs' = inputs
  BY ServerSame DEF TabInv, server
<1>2. TabTyped'
  BY DEF TabInv, TabTyped
<1>3. Numbered(calls', inputs') /\ CallsKept(calls', version, cache, fetch)
  BY <1>1, WithoutKept DEF TabInv
<1>4. CallsKept(calls', version, cache', fetch')
  BY <1>3, InLists
<1>5. QED
  BY <1>1, <1>2, <1>3, <1>4 DEF TabInv

\* A handler that stays, as another record, the lists being as they were.
LEMMA ChangedKept ==
  ASSUME TabInv, NEW i \in DOMAIN calls, NEW c, calls' = [calls EXCEPT ![i] = c],
         UNCHANGED <<inputs, page, me, cache, fetch>>, ToastsKept', ServerTyped',
         \A k \in Keys : version[k] <= version'[k], CallKept(c, version', cache, fetch),
         busy' \subseteq busy,
         \A h \in busy' \ {"deleteAccount"} : Awaits(calls[i], h) => Awaits(c, h)
  PROVE  TabInv'
<1>1. TabTyped'
  BY DEF TabInv, TabTyped
<1>2. version \in [Keys -> Nat] /\ version' \in [Keys -> Nat]
  BY DEF TabInv, ServerTyped
<1>3. CallsKept(calls, version', cache, fetch)
  BY <1>2, Grown DEF TabInv
<1>4. Numbered(calls', inputs) /\ CallsKept(calls', version', cache, fetch)
  BY <1>3, ReplacedKept DEF TabInv
<1>5. Awaited(busy', calls')
  BY AwaitedReplaced DEF TabInv
<1>6. QED
  BY <1>1, <1>4, <1>5 DEF TabInv

-----------------------------------------------------------------------------
(* The queries, the session and what happens elsewhere.                    *)

\* Any step of the queries on a page that stays.
LEMMA QueriesKept ==
  ASSUME TabInv, UNCHANGED <<server, inputs, page, me, busy, calls, toastVars>>,
         CachedWell(cache'), FetchedWell(fetch'),
         NotOlder(version, cache, fetch, cache', fetch')
  PROVE  TabInv'
<1>1. ToastsKept' /\ ServerTyped' /\ version' = version
  BY ToastsSame, ServerSame DEF TabInv, server
<1>2. TabTyped'
  BY DEF TabInv, TabTyped
<1>3. CallsKept(calls', version, cache', fetch')
  BY InLists DEF TabInv
<1>4. QED
  BY <1>1, <1>2, <1>3 DEF TabInv

LEMMA FetchArrivesKept ==
  ASSUME TabInv, NEW k \in Keys, FetchArrives(k)
  PROVE  TabInv'
<1>1. /\ cache \in [Keys -> CachedType] /\ fetch \in [Keys -> FetchType]
      /\ UNCHANGED <<server, inputs>>
  BY DEF TabInv, CachedWell, FetchedWell, FetchArrives
<1>2. fetch[k] \in FetchType
  BY <1>1
<1>3. Idle \in FetchType /\ Idle.at = "idle"
  BY SentTyped
<1>4. CASE /\ fetch[k].at = "data"
           /\ cache' = [cache EXCEPT ![k] = [is |-> "data", org |-> fetch[k].org,
                                             version |-> fetch[k].version, fresh |-> TRUE]]
           /\ fetch' = [fetch EXCEPT ![k] = Idle]
           /\ UNCHANGED <<page, me, busy, calls, toastVars>>
  <2> DEFINE d == [is |-> "data", org |-> fetch[k].org, version |-> fetch[k].version,
                   fresh |-> TRUE]
  <2>1. /\ d \in CachedType /\ d.is = "data" /\ d.org = fetch[k].org
        /\ d.version = fetch[k].version
    BY <1>2 DEF CachedType, FetchType
  <2>2. cache' = [cache EXCEPT ![k] = d]
    BY <1>4
  <2> HIDE DEF d
  <2>3. CachedWell(cache') /\ FetchedWell(fetch')
    BY <1>1, <1>3, <1>4, <2>1, <2>2 DEF TabInv, CachedWell, FetchedWell
  <2>4. NotOlder(version, cache, fetch, cache', fetch')
    BY <1>1, <1>3, <1>4, <2>1, <2>2 DEF NotOlder
  <2>5. QED
    BY <1>1, <1>4, <2>3, <2>4, QueriesKept
<1>5. CASE /\ cache' = [cache EXCEPT ![k] = [Empty EXCEPT !.is = "failed", !.fresh = TRUE]]
           /\ fetch' = [fetch EXCEPT ![k] = Idle]
           /\ UNCHANGED <<page, me, busy, calls, toastVars>>
  <2> DEFINE d == [Empty EXCEPT !.is = "failed", !.fresh = TRUE]
  <2>1. d \in CachedType /\ d.is = "failed"
    BY DEF Empty, CachedType
  <2>2. cache' = [cache EXCEPT ![k] = d]
    BY <1>5
  <2> HIDE DEF d
  <2>3. CachedWell(cache') /\ FetchedWell(fetch')
    BY <1>1, <1>3, <1>5, <2>1, <2>2 DEF TabInv, CachedWell, FetchedWell
  <2>4. NotOlder(version, cache, fetch, cache', fetch')
    BY <1>1, <1>3, <1>5, <2>1, <2>2 DEF NotOlder
  <2>5. QED
    BY <1>1, <1>5, <2>3, <2>4, QueriesKept
<1>6. CASE /\ fetch' = [fetch EXCEPT ![k] = Retry(fetch[k].tries)]
           /\ UNCHANGED <<page, me, cache, busy, calls, toastVars>>
  <2>1. fetch[k].tries \in 0..1
    BY <1>2 DEF FetchType
  <2>2. Retry(fetch[k].tries) \in FetchType /\ Retry(fetch[k].tries).at # "data"
    <3>1. CASE fetch[k].tries = 0
      BY <3>1, SentTyped DEF Retry
    <3>2. CASE fetch[k].tries = 1
      BY <1>3, <3>2 DEF Retry
    <3>3. QED
      BY <2>1, <3>1, <3>2
  <2>3. FetchedWell(fetch')
    BY <1>1, <1>6, <2>2 DEF TabInv, FetchedWell
  <2>4. NotOlder(version, cache, fetch, cache', fetch')
    BY <1>1, <1>6, <2>2 DEF NotOlder
  <2>5. QED
    BY <1>1, <1>6, <2>3, <2>4, QueriesKept DEF TabInv
<1>7. CASE LoadPage("sign-in", None) /\ ResetToasts
  <2>1. PageNamed([at |-> "sign-in", org |-> None])
    BY DEF PageNamed, Places, Doors, OrgPlaces
  <2>2. ServerTyped' /\ version' = version /\ inputs' = inputs
    BY <1>1, ServerSame DEF TabInv, server
  <2>3. QED
    BY <1>7, <2>1, <2>2, ResetToastsKept, LoadKept
<1>8. QED
  BY <1>4, <1>5, <1>6, <1>7 DEF FetchArrives

LEMMA FocusKept ==
  ASSUME TabInv, Focus
  PROVE  TabInv'
<1>1. PICK old \in BOOLEAN : fetch' = Fetched(page, old)
  BY DEF Focus
<1>2. FetchedWell(fetch') /\ NotOlder(version, cache, fetch, cache, fetch')
  BY <1>1, FetchedKept DEF TabInv
<1>3. UNCHANGED <<server, inputs, page, me, cache, busy, calls, toastVars>>
  BY DEF Focus
<1>4. QED
  BY <1>2, <1>3, QueriesKept DEF TabInv

LEMMA RefreshSessionKept ==
  ASSUME TabInv, RefreshSession
  PROVE  TabInv'
<1>1. /\ UNCHANGED <<server, inputs, page, cache, fetch, calls, toastVars>>
      /\ busy' \subseteq busy
  BY DEF RefreshSession, ProfileReset, SettingsReset
<1>2. me' \in [in : BOOLEAN, org : Orgs \union {None}]
  BY DEF TabInv, ServerTyped, RefreshSession, Nobody
<1>3. ToastsKept' /\ ServerTyped' /\ version' = version
  BY <1>1, ToastsSame, ServerSame DEF TabInv, server
<1>4. TabTyped'
  BY <1>1, <1>2 DEF TabInv, TabTyped
<1>5. Awaited(busy', calls')
  BY <1>1 DEF TabInv, Awaited
<1>6. QED
  BY <1>1, <1>3, <1>4, <1>5 DEF TabInv

LEMMA ElsewhereKept ==
  ASSUME TabInv, Elsewhere
  PROVE  TabInv'
<1>1. Input /\ UNCHANGED <<role, mail, tab, toastVars>>
  BY DEF Elsewhere
<1>2. /\ version \in [Keys -> Nat] /\ active \in Orgs \union {None} /\ signedIn \in BOOLEAN
      /\ role \in [Orgs -> Roles \union {None}] /\ mail \in BOOLEAN
  BY DEF TabInv, ServerTyped
<1>3. /\ signedIn' \in BOOLEAN /\ active' \in Orgs \union {None}
      /\ version' \in [Keys -> Nat] /\ \A k \in Keys : version[k] <= version'[k]
  <2>1. CASE /\ \E o \in Orgs : active' = o
             /\ UNCHANGED <<signedIn, version>>
    BY <1>2, <2>1
  <2>2. CASE signedIn' = FALSE /\ active' = None /\ UNCHANGED version
    <3>1. signedIn' \in BOOLEAN /\ active' \in Orgs \union {None}
      BY <2>2
    <3>2. version' = version
      BY <2>2
    <3>3. QED
      BY <1>2, <3>1, <3>2
  <2>3. CASE \E k \in OrgLists \X Orgs :
                version' = [version EXCEPT ![k] = @ + 1] /\ UNCHANGED <<signedIn, active>>
    <3>1. PICK k \in OrgLists \X Orgs :
            version' = [version EXCEPT ![k] = version[k] + 1] /\ UNCHANGED <<signedIn, active>>
      BY <2>3
    <3>2. k \in Keys
      BY DEF Keys
    <3>3. QED
      BY <1>2, <3>1, <3>2
  <2>4. QED
    BY <2>1, <2>2, <2>3 DEF Elsewhere
<1>4. ServerTyped' /\ ToastsKept'
  BY <1>1, <1>2, <1>3, ToastsSame DEF TabInv, ServerTyped
<1>5. UNCHANGED <<page, me, cache, fetch, busy, calls>>
  BY <1>1 DEF tab
<1>6. TabTyped'
  BY <1>5 DEF TabInv, TabTyped
<1>7. inputs' \in 0..MaxInputs /\ Numbered(calls', inputs')
  BY <1>1, <1>5, Inputs, Counted, PagesAssumption DEF TabInv
<1>8. CallsKept(calls', version', cache', fetch')
  BY <1>2, <1>3, <1>5, Grown DEF TabInv
<1>9. QED
  BY <1>4, <1>5, <1>6, <1>7, <1>8 DEF TabInv

LEMMA ToastKept ==
  ASSUME TabInv, Toast
  PROVE  TabInv'
<1>1. ToastsKept'
  BY DismissKept, RemoveToastKept DEF TabInv, Toast
<1>2. UNCHANGED <<inputs, page, me, cache, fetch, busy, calls, version>> /\ ServerTyped'
  BY ServerSame DEF TabInv, Toast, tab, server
<1>3. TabTyped'
  BY <1>2 DEF TabInv, TabTyped
<1>4. QED
  BY <1>1, <1>2, <1>3 DEF TabInv

-----------------------------------------------------------------------------
(* The user's inputs.                                                      *)

LEMMA OpenUrlKept ==
  ASSUME TabInv, NEW at \in OrgPlaces \union {"danger", "sign-in", "sign-up", "confirm"},
         NEW o \in Orgs \union {None}, OpenUrl(at, o)
  PROVE  TabInv'
<1>1. Input /\ LoadPage(at, o) /\ ResetToasts /\ UNCHANGED server
      /\ (at \in OrgPlaces <=> o # None)
  BY DEF OpenUrl
<1>2. PageNamed([at |-> at, org |-> o])
  BY <1>1 DEF PageNamed, Places, Shell, Doors, OrgPlaces, OwnPlaces
<1>3. ServerTyped' /\ version' = version
  BY <1>1, ServerSame DEF TabInv, server
<1>4. QED
  BY <1>1, <1>2, <1>3, ResetToastsKept, LoadKept

LEMMA OpenMailKept ==
  ASSUME TabInv, OpenMail
  PROVE  TabInv'
<1>1. Input /\ LoadPage("dashboard", None) /\ ResetToasts
  BY DEF OpenMail
<1>2. PageNamed([at |-> "dashboard", org |-> None])
  BY DEF PageNamed, Places, Shell, OwnPlaces, OrgPlaces
<1>3. ServerTyped' /\ version' = version
  <2>1. mail' = FALSE /\ signedIn' = TRUE /\ active' = None /\ UNCHANGED <<role, version>>
    BY DEF OpenMail
  <2>2. mail' \in BOOLEAN /\ signedIn' \in BOOLEAN
    BY <2>1
  <2>3. QED
    BY <2>1, <2>2 DEF TabInv, ServerTyped
<1>4. QED
  BY <1>1, <1>2, <1>3, ResetToastsKept, LoadKept

LEMMA ReturnKept ==
  ASSUME TabInv, ReturnFromStripe
  PROVE  TabInv'
<1>1. /\ Input /\ page.at = "stripe" /\ LoadPage("billing", page.org) /\ UNCHANGED server
      /\ ReturnToast \/ ResetToasts
  BY DEF ReturnFromStripe
<1>2. page.org \in Orgs
  BY <1>1 DEF TabInv, TabTyped, PageNamed
<1>3. PageNamed([at |-> "billing", org |-> page.org])
  BY <1>2, PagesAssumption DEF PageNamed, Places, Shell, OrgPlaces
<1>4. ToastsKept' /\ ServerTyped' /\ version' = version
  BY <1>1, ServerSame, ResetToastsKept, ReturnToastKept DEF TabInv, server
<1>5. QED
  BY <1>1, <1>3, <1>4, LoadKept

LEMMA FollowLinkKept ==
  ASSUME TabInv, NEW at \in Shell \union Doors, FollowLink(at)
  PROVE  TabInv'
<1> DEFINE o == IF at \in OrgPlaces THEN me.org ELSE None
<1>1. /\ Input /\ at \in Links /\ Navigate(at, o) /\ calls' = Left(calls)
      /\ UNCHANGED <<server, toastVars>>
  BY DEF FollowLink
<1>2. me.org \in Orgs \union {None}
  BY DEF TabInv, TabTyped
<1>3. at \in OrgPlaces => me.org # None
  BY <1>1 DEF Links, Sidebar, UserMenu, OrgSwitcher, SignInLinks, SignUpLinks, ResetLinks,
              ConfirmLinks, OrgPlaces
<1>4. PageNamed([at |-> at, org |-> o])
  BY <1>2, <1>3 DEF PageNamed, Places, Shell, Doors, OrgPlaces, OwnPlaces
<1> HIDE DEF o
<1>5. Numbered(calls, inputs) /\ CallsKept(calls, version, cache, fetch)
  BY DEF TabInv
<1>6. QED
  BY <1>1, <1>4, <1>5, NavigationKept

\* Where the handlers whose request names an organization or a list are offered.
LEMMA OfferedWhere ==
  ASSUME NEW h \in Offered
  PROVE  /\ h \in Handlers \ {"switchOrg", "signOut"}
         /\ h \in {"invite", "removeMember"} => page.at = "members"
         /\ h = "cancelInvite" => page.at = "invites"
         /\ h = "revoke" => page.at = "sessions"
         /\ h \in {"subscribe", "portal"} => page.at = "billing"
         /\ h = "saveSettings" => page.at = "settings"
         /\ h \in FromLists => Loaded
<1>1. CASE page.at \in OrgPlaces
  BY <1>1 DEF Offered, OrgPlaces, MembersPage, InvitesPage, CurrentPlan, PlansGrid,
              OrgSettingsPage, When, Handlers, Disabling, FromLists
<1>2. CASE page.at \in OwnPlaces
  BY <1>2 DEF Offered, OwnPlaces, CreateOrgPage, ProfilePage, SessionsPage, DangerZonePage,
              When, Handlers, Disabling, FromLists
<1>3. CASE page.at \notin OrgPlaces \union OwnPlaces
  BY <1>3 DEF Offered, OrgPlaces, OwnPlaces, PasswordForm, MagicLinkForm, SignUpPage,
              ResetPasswordPage, ResetPasswordConfirm, When, Handlers, Disabling, FromLists
<1>4. QED
  BY <1>1, <1>2, <1>3

LEMMA NewCall ==
  ASSUME NEW h \in Handlers, NEW o \in Orgs \union {None}
  PROVE  /\ Call(h, o) \in CallType
         /\ Call(h, o).what = h /\ Call(h, o).org = o /\ Call(h, o).at = "sent"
         /\ Call(h, o).version = 0 /\ Call(h, o).here = TRUE /\ Call(h, o).live = TRUE
         /\ Call(h, o).seen = FALSE
  BY DEF Call, CallType

\* The list a handler starts from has come.
LEMMA ListCame ==
  ASSUME TabInv, NEW h \in Offered \intersect FromLists
  PROVE  KeyOf(Call(h, page.org)) \in Keys
         /\ cache[KeyOf(Call(h, page.org))].is # "empty"
<1>1. /\ Loaded /\ h \in Handlers /\ page.org \in Orgs \union {None} /\ PageNamed(page)
      /\ h = "removeMember" => page.at = "members"
      /\ h = "cancelInvite" => page.at = "invites"
      /\ h = "revoke" => page.at = "sessions"
  BY OfferedWhere DEF TabInv, TabTyped, PageNamed
<1>2. KeyOf(Call(h, page.org)) = <<Changes[h], page.org>>
  <2>1. Call(h, page.org).what = h /\ Call(h, page.org).org = page.org
    BY <1>1, NewCall
  <2>2. QED
    BY <2>1 DEF KeyOf
<1>3. <<Changes[h], page.org>> \in KeysOf(page)
  <2>1. CASE h = "removeMember"
    BY <1>1, <2>1 DEF KeysOf, ListOf, Changes
  <2>2. CASE h = "cancelInvite"
    BY <1>1, <2>2 DEF KeysOf, ListOf, Changes
  <2>3. CASE h = "revoke"
    BY <1>1, <2>3 DEF KeysOf, ListOf, Changes
  <2>4. QED
    BY <2>1, <2>2, <2>3 DEF FromLists
<1>4. QED
  BY <1>1, <1>2, <1>3, PageKeys DEF Loaded

LEMMA ClickKept ==
  ASSUME TabInv, NEW h \in Handlers, NEW o \in Orgs \union {None}, Click(h, o)
  PROVE  TabInv'
<1> DEFINE c == Call(h, o)
<1>1. /\ Input /\ UNCHANGED <<server, page, me, cache, fetch, toastVars>>
      /\ calls' = [i \in DOMAIN calls \union {inputs'} |-> IF i = inputs' THEN c ELSE calls[i]]
      /\ busy' = busy \union ({h} \intersect Disabling)
      /\ \/ h \in Offered /\ o = page.org
         \/ h = "switchOrg" /\ o # None
         \/ h = "signOut"
  BY DEF Click
<1>2. /\ c \in CallType /\ c.what = h /\ c.org = o /\ c.at = "sent" /\ c.version = 0
      /\ c.here = TRUE /\ c.live = TRUE /\ c.seen = FALSE
  BY NewCall
<1>3. /\ h \in OrgBound => o \in Orgs
      /\ h = "revoke" => o = None
  <2>1. CASE h \in Offered /\ o = page.org
    <3>1. /\ h \in OrgBound => page.at \in OrgPlaces
          /\ h = "revoke" => page.at = "sessions"
      <4>1. /\ h \in Handlers \ {"switchOrg", "signOut"}
            /\ h \in {"invite", "removeMember"} => page.at = "members"
            /\ h = "cancelInvite" => page.at = "invites"
            /\ h = "revoke" => page.at = "sessions"
            /\ h \in {"subscribe", "portal"} => page.at = "billing"
            /\ h = "saveSettings" => page.at = "settings"
        BY <2>1, OfferedWhere
      <4>2. h # "activate"
        BY <4>1 DEF Handlers, Disabling
      <4>3. QED
        BY <4>1, <4>2 DEF OrgBound, OrgPlaces
    <3>2. QED
      BY <2>1, <3>1 DEF TabInv, TabTyped, PageNamed, OrgPlaces
  <2>2. CASE h = "switchOrg" /\ o # None
    BY <2>2
  <2>3. CASE h = "signOut"
    BY <2>3 DEF OrgBound
  <2>4. QED
    BY <1>1, <2>1, <2>2, <2>3
<1>4. h \in FromLists => cache[KeyOf(c)].is # "empty"
  <2>1. h \in FromLists => h \in Offered /\ o = page.org
    BY <1>1 DEF FromLists
  <2>2. QED
    BY <2>1, ListCame
<1> HIDE DEF c
<1>5. Grounded(c) /\ Loading(c, cache) /\ Shown(c, cache, fetch)
  BY <1>2, <1>3, <1>4 DEF Grounded, Loading, Shown
<1>6. ServerTyped' /\ ToastsKept' /\ version' = version /\ version \in [Keys -> Nat]
  BY <1>1, ServerSame, ToastsSame DEF TabInv, ServerTyped, server
<1>7. Reached(c, version)
  BY <1>2, <1>5, <1>6, Keyed DEF Reached
<1>8. CallKept(c, version', cache', fetch')
  BY <1>1, <1>5, <1>6, <1>7 DEF CallKept
<1>9. inputs \in Nat /\ inputs' \in 0..MaxInputs /\ inputs' = inputs + 1
  BY <1>1, Inputs DEF TabInv
<1>10. /\ DOMAIN calls' = DOMAIN calls \union {inputs'}
       /\ \A i \in DOMAIN calls' : calls'[i] = IF i = inputs' THEN c ELSE calls[i]
       /\ calls' = [i \in DOMAIN calls' |-> calls'[i]]
  BY <1>1
<1>11. DOMAIN calls \subseteq 1..inputs
  BY DEF TabInv, Numbered
<1>12. Numbered(calls', inputs')
  BY <1>9, <1>10, <1>11 DEF Numbered
<1>13. CallsKept(calls', version', cache', fetch')
  BY <1>1, <1>6, <1>8, <1>10 DEF TabInv, CallsKept
<1>14. Awaited(busy', calls')
  <2>1. SUFFICES ASSUME NEW b \in busy' \ {"deleteAccount"}
                 PROVE  \E i \in DOMAIN calls' : Awaits(calls'[i], b)
    BY DEF Awaited
  <2>2. CASE b = h
    BY <1>2, <1>10, <2>2 DEF Awaits
  <2>3. CASE b # h
    <3>1. PICK i \in DOMAIN calls : Awaits(calls[i], b)
      BY <1>1, <2>3 DEF TabInv, Awaited
    <3>2. i # inputs'
      BY <1>9, <1>11
    <3>3. QED
      BY <1>10, <3>1, <3>2
  <2>4. QED
    BY <2>2, <2>3
<1>15. TabTyped'
  BY <1>1 DEF TabInv, TabTyped
<1>16. QED
  BY <1>1, <1>6, <1>9, <1>12, <1>13, <1>14, <1>15 DEF TabInv

-----------------------------------------------------------------------------
(* The server serves the request of a handler.                             *)

\* A call that moves on: another state, and nothing else but what it is.
LEMMA MovedOne ==
  ASSUME NEW c, NEW ver, NEW ca, NEW fe, CallKept(c, ver, ca, fe),
         NEW a \in {"error", "unauthorized", "done"}, a = "done" \/ c.at # "done"
  PROVE  /\ CallKept([c EXCEPT !.at = a], ver, ca, fe)
         /\ [c EXCEPT !.at = a].at = a /\ [c EXCEPT !.at = a].here = c.here
         /\ [c EXCEPT !.at = a].what = c.what
<1> DEFINE d == [c EXCEPT !.at = a]
<1>1. c \in CallType
  BY DEF CallKept, Grounded
<1>2. /\ d \in CallType
      /\ d.what = c.what /\ d.org = c.org /\ d.at = a /\ d.version = c.version
      /\ d.here = c.here /\ d.live = c.live /\ d.seen = c.seen
  BY <1>1 DEF CallType
<1>3. KeyOf(d) = KeyOf(c)
  BY <1>2 DEF KeyOf
<1> HIDE DEF d
<1>4. Grounded(d)
  BY <1>2 DEF CallKept, Grounded
<1>5. Reached(d, ver) /\ Loading(d, ca) /\ Shown(d, ca, fe)
  BY <1>2, <1>3 DEF CallKept, Reached, Loading, Shown
<1>6. CallKept(d, ver, ca, fe)
  BY <1>4, <1>5 DEF CallKept
<1>7. QED
  BY <1>2, <1>6 DEF d

LEMMA Named ==
  ASSUME NEW c, \E o \in Orgs : role[o] = None
  PROVE  NewOrg(c) \in Orgs
<1>1. PICK o \in Orgs : role[o] = None
  OBVIOUS
<1>2. QED
  BY <1>1, Zenon DEF NewOrg

LEMMA EffectKept ==
  ASSUME ServerTyped, NEW c, Grounded(c), Effect(c),
         c.what = "createOrg" => \E o \in Orgs : role[o] = None
  PROVE  /\ ServerTyped'
         /\ \A k \in Keys : version[k] <= version'[k]
         /\ c.what \in DOMAIN Changes => version'[KeyOf(c)] \in Nat
<1>1. /\ signedIn \in BOOLEAN /\ active \in Orgs \union {None} /\ mail \in BOOLEAN
      /\ role \in [Orgs -> Roles \union {None}] /\ version \in [Keys -> Nat]
  BY DEF ServerTyped
<1>2. signedIn' \in BOOLEAN
  BY DEF Effect
<1>3. mail' \in BOOLEAN
  <2>1. mail' = mail \/ mail' = TRUE
    BY DEF Effect, SendEmail
  <2>2. QED
    BY <1>1, <2>1
<1>4. active' \in Orgs \union {None}
  <2>1. c.org \in Orgs \union {None}
    BY DEF Grounded, CallType
  <2>2. active' = c.org \/ active' = None \/ active' = active
    <3>1. CASE c.what \in {"switchOrg", "activate"}
      BY <3>1 DEF Effect
    <3>2. CASE c.what \in {"signIn", "signOut"}
      BY <3>2 DEF Effect
    <3>3. CASE c.what \notin {"switchOrg", "activate", "signIn", "signOut"}
      BY <3>3 DEF Effect
    <3>4. QED
      BY <3>1, <3>2, <3>3
  <2>3. QED
    BY <1>1, <2>1, <2>2
<1>5. role' \in [Orgs -> Roles \union {None}]
  <2>1. CASE c.what = "createOrg"
    <3>1. NewOrg(c) \in Orgs
      BY <2>1, Named
    <3>2. role' = [role EXCEPT ![NewOrg(c)] = "owner"]
      BY <2>1 DEF Effect
    <3>3. QED
      BY <1>1, <3>1, <3>2 DEF Roles
  <2>2. CASE c.what # "createOrg"
    BY <1>1, <2>2 DEF Effect
  <2>3. QED
    BY <2>1, <2>2
<1>6. /\ version' \in [Keys -> Nat] /\ \A k \in Keys : version[k] <= version'[k]
  <2>1. CASE c.what \in DOMAIN Changes
    <3>1. KeyOf(c) \in Keys
      BY <2>1, Keyed
    <3>2. version' = [version EXCEPT ![KeyOf(c)] = version[KeyOf(c)] + 1]
      BY <2>1 DEF Effect
    <3>3. QED
      BY <1>1, <3>1, <3>2
  <2>2. CASE c.what \notin DOMAIN Changes
    <3>1. version' = version
      BY <2>2 DEF Effect
    <3>2. QED
      BY <1>1, <3>1
  <2>3. QED
    BY <2>1, <2>2
<1>7. c.what \in DOMAIN Changes => version'[KeyOf(c)] \in Nat
  BY <1>6, Keyed
<1>8. QED
  BY <1>2, <1>3, <1>4, <1>5, <1>6, <1>7 DEF ServerTyped

LEMMA AnsweredKept ==
  ASSUME NEW i \in DOMAIN calls, NEW at \in {"ok", "error"}, NEW ca, NEW fe, NEW ver,
         CallKept(calls[i], ver, ca, fe), calls[i].at = "sent",
         calls[i].what = "createOrg" => \E o \in Orgs : role[o] = None,
         calls[i].what \in DOMAIN Changes => version'[KeyOf(calls[i])] \in Nat
  PROVE  /\ CallKept(Answered(i, at), version', ca, fe)
         /\ Answered(i, at).at = at /\ Answered(i, at).here = calls[i].here
         /\ Answered(i, at).what = calls[i].what
<1> DEFINE c == calls[i]
           o == IF c.what = "createOrg" /\ at = "ok" THEN NewOrg(c) ELSE c.org
           v == IF c.what \in DOMAIN Changes THEN version'[KeyOf(c)] ELSE 0
           d == [c EXCEPT !.at = at, !.org = o, !.version = v]
<1>1. c \in CallType /\ Grounded(c) /\ ~c.seen
  BY DEF CallKept, Grounded
<1>2. o \in Orgs \union {None} /\ v \in Nat
      /\ (c.what = "createOrg" /\ at = "ok" => o \in Orgs) /\ (c.what # "createOrg" => o = c.org)
  <2>1. c.org \in Orgs \union {None}
    BY <1>1 DEF CallType
  <2>2. c.what = "createOrg" => NewOrg(c) \in Orgs
    BY Named
  <2>3. QED
    BY <2>1, <2>2
<1>3. c.what \in DOMAIN Changes => v = version'[KeyOf(c)]
  OBVIOUS
<1>4. Answered(i, at) = d
  BY DEF Answered
<1>5. Loading(c, ca)
  BY DEF CallKept
<1> HIDE DEF o, v, c
<1>6. /\ d \in CallType
      /\ d.what = c.what /\ d.org = o /\ d.at = at /\ d.version = v
      /\ d.here = c.here /\ d.live = c.live /\ d.seen = c.seen
  BY <1>1, <1>2 DEF CallType
<1> HIDE DEF d
<1>7. c.what # "createOrg" => KeyOf(d) = KeyOf(c)
  BY <1>2, <1>6 DEF KeyOf
<1>8. Grounded(d)
  BY <1>1, <1>2, <1>6 DEF Grounded, OrgBound
<1>9. Reached(d, version')
  <2>1. SUFFICES ASSUME d.what \in DOMAIN Changes
                 PROVE  d.version <= version'[KeyOf(d)]
    BY DEF Reached
  <2>2. c.what # "createOrg"
    BY <1>6, <2>1 DEF Changes
  <2>3. v = version'[KeyOf(d)]
    BY <1>3, <1>6, <1>7, <2>1, <2>2
  <2>4. QED
    BY <1>2, <1>6, <2>3
<1>10. Loading(d, ca) /\ Shown(d, ca, fe)
  BY <1>1, <1>5, <1>6, <1>7 DEF Loading, Shown, FromLists
<1>11. QED
  BY <1>4, <1>6, <1>8, <1>9, <1>10 DEF CallKept, c

LEMMA ServeKept ==
  ASSUME TabInv, NEW i \in DOMAIN calls, Serve(i)
  PROVE  TabInv'
<1> DEFINE c == calls[i]
<1>1. c.at = "sent" /\ UNCHANGED <<inputs, page, me, cache, fetch, busy, toastVars>>
  BY DEF Serve
<1>2. CallKept(c, version, cache, fetch)
  BY DEF TabInv, CallsKept
<1>3. Grounded(c) /\ (c.here => c.live)
  BY <1>2 DEF CallKept, Grounded
<1>4. ToastsKept' /\ version \in [Keys -> Nat]
  BY <1>1, ToastsSame DEF TabInv, ServerTyped
<1>5. ASSUME ServerTyped', \A k \in Keys : version[k] <= version'[k], ~c.live,
             calls' = Without(i)
      PROVE  TabInv'
  <2>1. version' \in [Keys -> Nat]
    BY <1>5 DEF ServerTyped
  <2>2. Numbered(calls', inputs') /\ CallsKept(calls', version, cache', fetch')
    BY <1>1, <1>5, WithoutKept DEF TabInv
  <2>3. CallsKept(calls', version', cache', fetch')
    BY <1>4, <1>5, <2>1, <2>2, Grown
  <2>4. Awaited(busy', calls')
    BY <1>1, <1>3, <1>5, AwaitedWithout DEF TabInv, Awaits
  <2>5. TabTyped'
    BY <1>1 DEF TabInv, TabTyped
  <2>6. QED
    BY <1>1, <1>4, <1>5, <2>2, <2>3, <2>4, <2>5 DEF TabInv
<1>6. CASE /\ c.what = "createOrg" => \E o \in Orgs : role[o] = None
           /\ Effect(c)
           /\ IF c.live THEN \E at \in {"ok", "error"} : calls' = [calls EXCEPT ![i] = Answered(i, at)]
                        ELSE calls' = Without(i)
  <2>1. /\ ServerTyped' /\ \A k \in Keys : version[k] <= version'[k]
        /\ c.what \in DOMAIN Changes => version'[KeyOf(c)] \in Nat
    BY <1>3, <1>6, EffectKept DEF TabInv
  <2>2. CASE ~c.live
    BY <1>5, <1>6, <2>1, <2>2
  <2>3. CASE c.live
    <3>1. PICK at \in {"ok", "error"} : calls' = [calls EXCEPT ![i] = Answered(i, at)]
      BY <1>6, <2>3
    <3>2. /\ CallKept(Answered(i, at), version', cache, fetch)
          /\ Answered(i, at).at = at /\ Answered(i, at).here = c.here
          /\ Answered(i, at).what = c.what
      BY <1>1, <1>2, <1>6, <2>1, AnsweredKept
    <3>3. \A h \in busy' \ {"deleteAccount"} : Awaits(calls[i], h) => Awaits(Answered(i, at), h)
      BY <3>2 DEF Awaits
    <3>4. busy' \subseteq busy
      BY <1>1
    <3>5. QED
      BY <1>1, <1>4, <2>1, <3>1, <3>2, <3>3, <3>4, ChangedKept
  <2>4. QED
    BY <2>2, <2>3
<1>7. ASSUME UNCHANGED server
      PROVE  ServerTyped' /\ version' = version /\ \A k \in Keys : version[k] <= version'[k]
  <2>1. ServerTyped' /\ version' = version
    BY <1>7, ServerSame DEF TabInv, server
  <2>2. QED
    BY <1>4, <2>1
<1>8. ASSUME UNCHANGED server, NEW a \in {"error", "unauthorized"},
             calls' = [calls EXCEPT ![i].at = a]
      PROVE  TabInv'
  <2> DEFINE d == [calls[i] EXCEPT !.at = a]
  <2>1. calls' = [calls EXCEPT ![i] = d]
    BY <1>8
  <2>2. CallKept(d, version, cache, fetch) /\ d.at = a /\ d.here = c.here /\ d.what = c.what
    <3>1. /\ calls[i].at # "done" /\ CallKept(calls[i], version, cache, fetch)
          /\ a \in {"error", "unauthorized", "done"}
      BY <1>1, <1>2
    <3> HIDE DEF c
    <3>2. /\ CallKept(d, version, cache, fetch)
          /\ d.at = a /\ d.here = calls[i].here /\ d.what = calls[i].what
      BY <3>1, MovedOne, Zenon
    <3>3. QED
      BY <3>2 DEF c
  <2> HIDE DEF d
  <2>3. \A h \in busy' \ {"deleteAccount"} : Awaits(calls[i], h) => Awaits(d, h)
    BY <2>2 DEF Awaits
  <2>4. busy' \subseteq busy
    BY <1>1
  <2>5. ServerTyped' /\ version' = version /\ \A k \in Keys : version[k] <= version'[k]
    BY <1>7, <1>8
  <2>6. CallKept(d, version', cache, fetch)
    BY <2>2, <2>5
  <2>7. QED
    BY <1>1, <1>4, <2>1, <2>3, <2>4, <2>5, <2>6, ChangedKept
<1>9. CASE /\ calls' = IF c.live THEN [calls EXCEPT ![i].at = "error"] ELSE Without(i)
           /\ UNCHANGED server
  BY <1>5, <1>7, <1>8, <1>9
<1>10. CASE calls' = [calls EXCEPT ![i].at = "unauthorized"] /\ UNCHANGED server
  BY <1>8, <1>10
<1>11. QED
  BY <1>6, <1>9, <1>10 DEF Serve

-----------------------------------------------------------------------------
(* The rest of each handler.                                               *)

\* The handlers of a list, none of which disables a button.
LEMMA EndedKept ==
  ASSUME TabInv, NEW i \in DOMAIN calls, calls[i].what \in FromLists, calls[i].live,
         calls[i].at # "done", NEW k, k = KeyOf(calls[i]), Invalidate(k),
         calls' = EndedFor(i, k), UNCHANGED <<server, inputs, page, me, busy>>, ToastsKept'
  PROVE  TabInv'
<1> DEFINE c == calls[i]
<1>1. CallKept(c, version, cache, fetch)
  BY DEF TabInv, CallsKept
<1>2. /\ c \in CallType /\ Grounded(c) /\ k \in Keys /\ cache[k].is # "empty"
  <2>1. Grounded(c) /\ c.what \in DOMAIN Changes /\ Loading(c, cache)
    BY <1>1 DEF CallKept, FromLists, Changes
  <2>2. k \in Keys
    BY <2>1, Keyed
  <2>3. QED
    BY <2>1, <2>2 DEF Grounded, Loading
<1>3. /\ CachedWell(cache') /\ FetchedWell(fetch')
      /\ NotOlder(version, cache, fetch, cache', fetch')
      /\ cache'[k].fresh = FALSE
      /\ k \in KeysOf(page) => fetch'[k].at = "sent"
  BY <1>2, InvalidateKept DEF TabInv
<1>4. \A h \in busy \ {"deleteAccount"} : ~Awaits(c, h)
  BY DEF TabInv, TabTyped, Disabling, FromLists, Awaits
<1>5. CASE calls' = Without(i)
  <2>1. busy' \subseteq busy /\ Awaited(busy', Without(i))
    BY <1>4, AwaitedWithout DEF TabInv
  <2>2. QED
    BY <1>3, <1>5, <2>1, GoneKept
<1>6. CASE k \in KeysOf(page) /\ calls' = [calls EXCEPT ![i].at = "done", ![i].seen = TRUE]
  <2> DEFINE d == [c EXCEPT !.at = "done", !.seen = TRUE]
  <2>1. /\ d \in CallType
        /\ d.what = c.what /\ d.org = c.org /\ d.at = "done" /\ d.version = c.version
        /\ d.here = c.here /\ d.live = c.live /\ d.seen = TRUE
    BY <1>2 DEF CallType
  <2>2. calls' = [calls EXCEPT ![i] = d]
    BY <1>6
  <2>3. CallKept(c, version, cache', fetch') /\ CallsKept(calls, version, cache', fetch')
    BY <1>1, <1>3, InList, InLists DEF TabInv
  <2>4. KeyOf(d) = k
    BY <2>1 DEF KeyOf
  <2> HIDE DEF d
  <2>5. Grounded(d)
    BY <1>2, <2>1 DEF Grounded
  <2>6. Reached(d, version) /\ Loading(d, cache')
    BY <2>1, <2>3, <2>4 DEF CallKept, Reached, Loading
  <2>7. Shown(d, cache', fetch')
    BY <1>3, <1>6, <2>4 DEF Shown
  <2>8. CallKept(d, version, cache', fetch')
    BY <2>5, <2>6, <2>7 DEF CallKept
  <2>9. Numbered(calls', inputs') /\ CallsKept(calls', version, cache', fetch')
    <3>1. Numbered(calls, inputs') /\ CallsKept(calls, version, cache', fetch')
      BY <2>3 DEF TabInv
    <3>2. /\ Numbered([calls EXCEPT ![i] = d], inputs')
          /\ CallsKept([calls EXCEPT ![i] = d], version, cache', fetch')
      BY <2>8, <3>1, ReplacedKept
    <3>3. QED
      BY <2>2, <3>2
  <2>10. Awaited(busy', calls')
    <3>1. busy' \subseteq busy /\ busy' = busy /\ Awaited(busy, calls)
      BY DEF TabInv
    <3>2. \A h \in busy' \ {"deleteAccount"} : Awaits(calls[i], h) => Awaits(d, h)
      BY <1>4, <3>1
    <3>3. Awaited(busy', [calls EXCEPT ![i] = d])
      BY <3>1, <3>2, AwaitedReplaced
    <3>4. QED
      BY <2>2, <3>3
  <2>11. TabTyped'
    BY DEF TabInv, TabTyped
  <2>12. ServerTyped' /\ version' = version
    BY ServerSame DEF TabInv, server
  <2>13. QED
    BY <1>3, <2>9, <2>10, <2>11, <2>12 DEF TabInv
<1>7. QED
  BY <1>5, <1>6 DEF EndedFor

LEMMA RemoveDoneKept ==
  ASSUME TabInv, NEW i \in DOMAIN calls, RemoveDone(i)
  PROVE  TabInv'
<1> DEFINE k == <<"members", calls[i].org>>
<1>1. /\ calls[i].what = "removeMember" /\ calls[i].live /\ calls[i].at # "done"
      /\ Invalidate(k) /\ calls' = EndedFor(i, k)
      /\ UNCHANGED <<server, inputs, page, me, busy>> /\ UNCHANGED toastVars
  BY DEF RemoveDone, AnswerOf
<1>2. k = KeyOf(calls[i])
  BY <1>1 DEF KeyOf, Changes
<1>3. ToastsKept' /\ calls[i].what \in FromLists
  BY <1>1, ToastsSame DEF TabInv, FromLists
<1> HIDE DEF k
<1>4. QED
  BY <1>1, <1>2, <1>3, EndedKept

LEMMA CancelDoneKept ==
  ASSUME TabInv, NEW i \in DOMAIN calls, CancelDone(i)
  PROVE  TabInv'
<1> DEFINE k == <<"invitations", calls[i].org>>
<1>1. /\ calls[i].what = "cancelInvite" /\ calls[i].live /\ calls[i].at # "done"
      /\ Invalidate(k) /\ calls' = EndedFor(i, k)
      /\ UNCHANGED <<server, inputs, page, me, busy>> /\ AddToast
  BY DEF CancelDone, AnswerOf
<1>2. k = KeyOf(calls[i])
  BY <1>1 DEF KeyOf, Changes
<1>3. ToastsKept' /\ calls[i].what \in FromLists
  BY <1>1, AddToastKept DEF TabInv, FromLists
<1> HIDE DEF k
<1>4. QED
  BY <1>1, <1>2, <1>3, EndedKept

LEMMA RevokeDoneKept ==
  ASSUME TabInv, NEW i \in DOMAIN calls, RevokeDone(i)
  PROVE  TabInv'
<1> DEFINE k == <<"sessions", None>>
<1>1. /\ calls[i].what = "revoke" /\ calls[i].live /\ calls[i].at # "done"
      /\ Invalidate(k) /\ calls' = EndedFor(i, k)
      /\ UNCHANGED <<server, inputs, page, me, busy>> /\ AddToast
  BY DEF RevokeDone, AnswerOf
<1>2. calls[i].org = None
  BY <1>1 DEF TabInv, CallsKept, CallKept, Grounded
<1>3. k = KeyOf(calls[i])
  BY <1>1, <1>2 DEF KeyOf, Changes
<1>4. ToastsKept' /\ calls[i].what \in FromLists
  BY <1>1, AddToastKept DEF TabInv, FromLists
<1> HIDE DEF k
<1>5. QED
  BY <1>1, <1>3, <1>4, EndedKept

\* A handler that has its answer and is gone, its button given back.
LEMMA ReleasedKept ==
  ASSUME TabInv, NEW i, calls[i].what # "activate", calls' = Without(i), busy' = Released(i),
         UNCHANGED <<server, inputs, page, me, cache, fetch>>, ToastsKept'
  PROVE  TabInv'
<1>1. CachedWell(cache') /\ FetchedWell(fetch') /\ NotOlder(version, cache, fetch, cache', fetch')
  BY SameLists DEF TabInv
<1>2. busy' \subseteq busy /\ Awaited(busy', Without(i))
  BY ReleasedWithout DEF TabInv, Released
<1>3. QED
  BY <1>1, <1>2, GoneKept

LEMMA InviteDoneKept ==
  ASSUME TabInv, NEW i \in DOMAIN calls, InviteDone(i)
  PROVE  TabInv'
<1> DEFINE k == <<"members", calls[i].org>>
<1>1. /\ calls[i].what = "invite" /\ calls' = Without(i) /\ busy' = Released(i)
      /\ UNCHANGED <<server, inputs, page, me>>
      /\ \/ AddToast /\ Invalidate(k)
         \/ UNCHANGED <<cache, fetch, toastVars>>
  BY DEF InviteDone, AnswerOf
<1> HIDE DEF k
<1>2. CASE AddToast /\ Invalidate(k)
  <2>1. /\ CachedWell(cache') /\ FetchedWell(fetch')
        /\ NotOlder(version, cache, fetch, cache', fetch')
    BY <1>2, InvalidateKept DEF TabInv
  <2>2. ToastsKept'
    BY <1>2, AddToastKept DEF TabInv
  <2>3. busy' \subseteq busy /\ Awaited(busy', Without(i))
    BY <1>1, ReleasedWithout DEF TabInv, Released
  <2>4. QED
    BY <1>1, <2>1, <2>2, <2>3, GoneKept
<1>3. CASE UNCHANGED <<cache, fetch, toastVars>>
  BY <1>1, <1>3, ToastsSame, ReleasedKept DEF TabInv
<1>4. QED
  BY <1>1, <1>2, <1>3

LEMMA SaveDoneKept ==
  ASSUME TabInv, NEW i \in DOMAIN calls, SaveDone(i)
  PROVE  TabInv'
<1>1. /\ calls[i].what # "activate" /\ calls' = Without(i) /\ busy' = Released(i)
      /\ UNCHANGED <<server, inputs, page, me, cache, fetch>> /\ AddToast
  BY DEF SaveDone, AnswerOf
<1>2. ToastsKept'
  BY <1>1, AddToastKept DEF TabInv
<1>3. QED
  BY <1>1, <1>2, ReleasedKept

LEMMA SwitchDoneKept ==
  ASSUME TabInv, NEW i \in DOMAIN calls, SwitchDone(i)
  PROVE  TabInv'
<1>1. /\ calls[i].what = "switchOrg" /\ calls' = Without(i)
      /\ UNCHANGED <<server, inputs, page, me, cache, fetch, busy, toastVars>>
  BY DEF SwitchDone, AnswerOf
<1>2. \A h \in busy \ {"deleteAccount"} : ~Awaits(calls[i], h)
  BY <1>1 DEF TabInv, TabTyped, Disabling, Awaits
<1>3. busy' \subseteq busy /\ Awaited(busy', Without(i))
  BY <1>1, <1>2, AwaitedWithout DEF TabInv
<1>4. CachedWell(cache') /\ FetchedWell(fetch') /\ NotOlder(version, cache, fetch, cache', fetch')
  BY <1>1, SameLists DEF TabInv
<1>5. ToastsKept'
  BY <1>1, ToastsSame DEF TabInv
<1>6. QED
  BY <1>1, <1>3, <1>4, <1>5, GoneKept

LEMMA BillingDoneKept ==
  ASSUME TabInv, NEW i \in DOMAIN calls, BillingDone(i)
  PROVE  TabInv'
<1>1. /\ calls[i].what \in {"subscribe", "portal"} /\ UNCHANGED <<server, inputs>>
  BY DEF BillingDone, AnswerOf
<1>2. ServerTyped' /\ version' = version
  BY <1>1, ServerSame DEF TabInv, server
<1>3. calls[i].org \in Orgs
  BY <1>1 DEF TabInv, CallsKept, CallKept, Grounded, OrgBound
<1>4. CASE LoadPage("stripe", calls[i].org) /\ ResetToasts
  <2>1. PageNamed([at |-> "stripe", org |-> calls[i].org])
    BY <1>3, PagesAssumption DEF PageNamed, Places
  <2>2. QED
    BY <1>1, <1>2, <1>4, <2>1, ResetToastsKept, LoadKept
<1>5. CASE LoadPage("sign-in", None) /\ ResetToasts
  <2>1. PageNamed([at |-> "sign-in", org |-> None])
    BY DEF PageNamed, Places, Doors, OrgPlaces
  <2>2. QED
    BY <1>1, <1>2, <1>5, <2>1, ResetToastsKept, LoadKept
<1>6. CASE /\ AddToast /\ calls' = Without(i) /\ busy' = Released(i)
           /\ UNCHANGED <<page, me, cache, fetch>>
  BY <1>1, <1>6, AddToastKept, ReleasedKept DEF TabInv
<1>7. QED
  BY <1>4, <1>5, <1>6 DEF BillingDone

\* A created organization is activated by the same handler: its button waits on.
LEMMA CreateDoneKept ==
  ASSUME TabInv, NEW i \in DOMAIN calls, CreateDone(i)
  PROVE  TabInv'
<1> DEFINE c == calls[i]
           d == [c EXCEPT !.what = "activate", !.at = "sent"]
<1>1. /\ c.what = "createOrg" /\ UNCHANGED <<server, inputs, page, me, cache, fetch, toastVars>>
  BY DEF CreateDone, AnswerOf
<1>2. ToastsKept' /\ ServerTyped' /\ version' = version /\ version \in [Keys -> Nat]
  BY <1>1, ToastsSame, ServerSame DEF TabInv, ServerTyped, server
<1>3. CallKept(c, version, cache, fetch) /\ c \in CallType
  BY DEF TabInv, CallsKept, CallKept, Grounded
<1>4. CASE c.at = "ok" /\ calls' = [calls EXCEPT ![i] = d] /\ busy' = busy
  <2>1. /\ d \in CallType
        /\ d.what = "activate" /\ d.org = c.org /\ d.at = "sent" /\ d.version = c.version
        /\ d.here = c.here /\ d.live = c.live /\ d.seen = c.seen
    BY <1>3 DEF CallType
  <2> HIDE DEF d
  <2>2. ~c.seen /\ c.org \in Orgs
    BY <1>1, <1>3, <1>4 DEF CallKept, Grounded
  <2>3. Grounded(d)
    BY <1>3, <2>1, <2>2 DEF CallKept, Grounded
  <2>4. Reached(d, version) /\ Loading(d, cache) /\ Shown(d, cache, fetch)
    BY <2>1, <2>2 DEF Reached, Loading, Shown, Changes, FromLists
  <2>5. CallKept(d, version', cache, fetch)
    BY <1>2, <2>3, <2>4 DEF CallKept
  <2>6. \A h \in busy' \ {"deleteAccount"} : Awaits(calls[i], h) => Awaits(d, h)
    BY <1>1, <2>1 DEF Awaits
  <2>7. \A k \in Keys : version[k] <= version'[k]
    BY <1>2
  <2>8. UNCHANGED <<inputs, page, me, cache, fetch>> /\ busy' \subseteq busy
    BY <1>1, <1>4
  <2>9. QED
    BY <1>2, <1>4, <2>5, <2>6, <2>7, <2>8, ChangedKept
<1>5. CASE calls' = Without(i) /\ busy' = Released(i)
  BY <1>1, <1>2, <1>5, ReleasedKept
<1>6. QED
  BY <1>4, <1>5 DEF CreateDone

\* Any handler that ends with a step of the router.
LEMMA LeavingKept ==
  ASSUME TabInv, NEW i \in DOMAIN calls, NEW at, NEW o, PageNamed([at |-> at, org |-> o]),
         Navigate(at, o), calls' = Left(Without(i)), UNCHANGED <<server, inputs, toastVars>>
  PROVE  TabInv'
<1>1. Numbered(Without(i), inputs) /\ CallsKept(Without(i), version, cache, fetch)
  BY WithoutKept DEF TabInv
<1>2. QED
  BY <1>1, NavigationKept

LEMMA ActivateDoneKept ==
  ASSUME TabInv, NEW i \in DOMAIN calls, ActivateDone(i)
  PROVE  TabInv'
<1>1. /\ calls[i].what = "activate" /\ Navigate("members", calls[i].org)
      /\ calls' = Left(Without(i)) /\ UNCHANGED <<server, inputs, toastVars>>
  BY DEF ActivateDone, AnswerOf
<1>2. calls[i].org \in Orgs
  BY <1>1 DEF TabInv, CallsKept, CallKept, Grounded, OrgBound
<1>3. PageNamed([at |-> "members", org |-> calls[i].org])
  BY <1>2, PagesAssumption DEF PageNamed, Places, Shell, OrgPlaces
<1>4. QED
  BY <1>1, <1>3, LeavingKept

LEMMA SignOutDoneKept ==
  ASSUME TabInv, NEW i \in DOMAIN calls, SignOutDone(i)
  PROVE  TabInv'
<1>1. /\ Navigate("sign-in", None)
      /\ calls' = Left(Without(i)) /\ UNCHANGED <<server, inputs, toastVars>>
  BY DEF SignOutDone
<1>2. PageNamed([at |-> "sign-in", org |-> None])
  BY DEF PageNamed, Places, Doors, OrgPlaces
<1>3. QED
  BY <1>1, <1>2, LeavingKept

LEMMA SignInDoneKept ==
  ASSUME TabInv, NEW i \in DOMAIN calls, SignInDone(i)
  PROVE  TabInv'
<1>1. calls[i].what # "activate" /\ UNCHANGED <<server, inputs, toastVars>>
  BY DEF SignInDone, AnswerOf
<1>2. CASE Navigate("dashboard", None) /\ calls' = Left(Without(i))
  <2>1. PageNamed([at |-> "dashboard", org |-> None])
    BY DEF PageNamed, Places, Shell, OwnPlaces, OrgPlaces
  <2>2. QED
    BY <1>1, <1>2, <2>1, LeavingKept
<1>3. CASE calls' = Without(i) /\ busy' = Released(i) /\ UNCHANGED <<page, me, cache, fetch>>
  BY <1>1, <1>3, ToastsSame, ReleasedKept DEF TabInv
<1>4. QED
  BY <1>2, <1>3 DEF SignInDone

LEMMA PromptDoneKept ==
  ASSUME TabInv, NEW i \in DOMAIN calls, PromptDone(i)
  PROVE  TabInv'
<1>1. /\ calls[i].what # "activate" /\ busy' = Released(i)
      /\ UNCHANGED <<server, inputs, page, me, cache, fetch, toastVars>>
  BY DEF PromptDone, AnswerOf
<1>2. ToastsKept' /\ ServerTyped' /\ version' = version /\ version \in [Keys -> Nat]
  BY <1>1, ToastsSame, ServerSame DEF TabInv, ServerTyped, server
<1>3. CASE calls' = Without(i)
  BY <1>1, <1>2, <1>3, ReleasedKept
<1>4. CASE calls[i].here /\ calls' = [calls EXCEPT ![i].at = "done"]
  <2> DEFINE d == [calls[i] EXCEPT !.at = "done"]
  <2>1. CallKept(calls[i], version, cache, fetch)
    BY DEF TabInv, CallsKept
  <2>2. CallKept(d, version, cache, fetch)
    BY <2>1, MovedOne
  <2>3. calls' = [calls EXCEPT ![i] = d]
    BY <1>4
  <2> HIDE DEF d
  <2>4. busy' \subseteq busy
    BY <1>1 DEF Released
  <2>5. \A h \in busy' \ {"deleteAccount"} : Awaits(calls[i], h) => Awaits(d, h)
    BY <1>1, <1>4 DEF Released, Awaits
  <2>6. \A k \in Keys : version[k] <= version'[k]
    BY <1>2
  <2>7. UNCHANGED <<inputs, page, me, cache, fetch>> /\ CallKept(d, version', cache, fetch)
    BY <1>1, <1>2, <2>2
  <2>8. QED
    BY <1>2, <2>3, <2>4, <2>5, <2>6, <2>7, ChangedKept
<1>5. QED
  BY <1>3, <1>4 DEF PromptDone

LEMMA RejectedKept ==
  ASSUME TabInv, NEW i \in DOMAIN calls, Rejected(i)
  PROVE  TabInv'
<1>1. /\ calls' = Without(i) /\ UNCHANGED <<server, inputs, page, me, cache, fetch, toastVars>>
      /\ busy' = IF calls[i].here /\ calls[i].what # "deleteAccount"
                 THEN busy \ {IF calls[i].what = "activate" THEN "createOrg" ELSE calls[i].what}
                 ELSE busy
  BY DEF Rejected
<1>2. busy' \subseteq busy /\ busy \subseteq Disabling
  BY <1>1 DEF TabInv, TabTyped
<1>3. \A h \in busy' \ {"deleteAccount"} : ~Awaits(calls[i], h)
  <2>1. ASSUME NEW h \in busy' \ {"deleteAccount"}, Awaits(calls[i], h)
        PROVE  FALSE
    <3>1. /\ calls[i].here /\ h \in Disabling
          /\ calls[i].what = h \/ (h = "createOrg" /\ calls[i].what = "activate")
      BY <1>2, <2>1 DEF Awaits
    <3>2. calls[i].what # "deleteAccount"
      BY <2>1, <3>1
    <3>3. h = IF calls[i].what = "activate" THEN "createOrg" ELSE calls[i].what
      BY <3>1 DEF Disabling
    <3>4. QED
      BY <1>1, <2>1, <3>1, <3>2, <3>3
  <2>2. QED
    BY <2>1
<1>4. Awaited(busy', Without(i))
  BY <1>2, <1>3, AwaitedWithout DEF TabInv
<1>5. CachedWell(cache') /\ FetchedWell(fetch') /\ NotOlder(version, cache, fetch, cache', fetch')
  BY <1>1, SameLists DEF TabInv
<1>6. ToastsKept'
  BY <1>1, ToastsSame DEF TabInv
<1>7. QED
  BY <1>1, <1>2, <1>4, <1>5, <1>6, GoneKept

LEMMA HandlerDoneKept ==
  ASSUME TabInv, NEW i \in DOMAIN calls, HandlerDone(i)
  PROVE  TabInv'
  BY InviteDoneKept, RemoveDoneKept, CancelDoneKept, SaveDoneKept, SwitchDoneKept,
     RevokeDoneKept, PromptDoneKept, BillingDoneKept, CreateDoneKept, ActivateDoneKept,
     SignOutDoneKept, SignInDoneKept, RejectedKept DEF HandlerDone

LEMMA StutterKept ==
  ASSUME TabInv, UNCHANGED vars
  PROVE  TabInv'
<1>1. UNCHANGED <<server, inputs, page, me, cache, fetch, busy, calls, toastVars>>
  BY DEF vars, tab
<1>2. CachedWell(cache') /\ FetchedWell(fetch') /\ NotOlder(version, cache, fetch, cache', fetch')
  BY <1>1, SameLists DEF TabInv
<1>3. QED
  BY <1>1, <1>2, QueriesKept

\* One step per action.
LEMMA StepKept ==
  ASSUME TabInv, [Next]_vars
  PROVE  TabInv'
<1>1. ASSUME NEW k \in Keys, FetchServed(k) \/ FetchArrives(k) PROVE TabInv'
  BY <1>1, FetchServedKept, FetchArrivesKept
<1>2. CASE Focus \/ RefreshSession \/ ReturnFromStripe \/ OpenMail \/ Elsewhere \/ Toast
  BY <1>2, FocusKept, RefreshSessionKept, ReturnKept, OpenMailKept, ElsewhereKept, ToastKept
<1>3. ASSUME NEW at \in Shell \union Doors, FollowLink(at) PROVE TabInv'
  BY <1>3, FollowLinkKept
<1>4. ASSUME NEW at \in OrgPlaces \union {"danger", "sign-in", "sign-up", "confirm"},
             NEW o \in Orgs \union {None}, OpenUrl(at, o)
      PROVE  TabInv'
  BY <1>4, OpenUrlKept
<1>5. ASSUME NEW h \in Handlers, NEW o \in Orgs \union {None}, Click(h, o) PROVE TabInv'
  BY <1>5, ClickKept
<1>6. ASSUME NEW i \in DOMAIN calls, Serve(i) \/ HandlerDone(i) PROVE TabInv'
  BY <1>6, ServeKept, HandlerDoneKept
<1>7. CASE UNCHANGED vars
  BY <1>7, StutterKept
<1>8. QED
  BY <1>1, <1>2, <1>3, <1>4, <1>5, <1>6, <1>7 DEF Next

\* What the strengthening is for: each invariant of the run follows from it.
LEMMA Follows ==
  ASSUME TabInv
  PROVE  TypeOK /\ ListsAreTheirOrgs /\ OwnWritesShow /\ SpinnersAreAwaited /\ TimersMatchToasts
<1>1. TypeOK
  <2>1. \A i \in DOMAIN calls : calls[i] \in CallType
    BY DEF TabInv, CallsKept, CallKept, Grounded
  <2>2. calls \in [DOMAIN calls -> CallType] /\ DOMAIN calls \subseteq 1..inputs
    BY <2>1 DEF TabInv, Numbered
  <2>3. ServerTyped /\ ToastTypeOK /\ TabTyped /\ inputs \in 0..MaxInputs
        /\ cache \in [Keys -> CachedType] /\ fetch \in [Keys -> FetchType]
    BY DEF TabInv, ToastsKept, CachedWell, FetchedWell
  <2>4. QED
    BY <2>2, <2>3, Zenon DEF TypeOK, ServerTyped, TabTyped, PageNamed, CallType, CachedType, FetchType
<1>2. ListsAreTheirOrgs
  BY DEF TabInv, CachedWell, ListsAreTheirOrgs
<1>3. OwnWritesShow
  BY DEF TabInv, CallsKept, CallKept, Shown, OwnWritesShow
<1>4. SpinnersAreAwaited
  BY DEF TabInv, Awaited, Awaits, SpinnersAreAwaited
<1>5. TimersMatchToasts
  BY DEF TabInv, ToastsKept
<1>6. QED
  BY <1>1, <1>2, <1>3, <1>4, <1>5

\* The inductive invariant of the tab holds at every moment: calls, lists, spinners and
\* toasts agree, whatever overlaps.
THEOREM InvHolds == Spec => []TabInv
<1>1. Init => TabInv
  BY InitKept
<1>2. TabInv /\ [Next]_vars => TabInv'
  BY StepKept
<1>3. QED
  BY <1>1, <1>2, PTL DEF Spec

-----------------------------------------------------------------------------
(* The theorems.                                                           *)

\* Every variable of the tab and the server keeps its type, whatever pages are
\* opened, handlers started and answers awaited at once.
THEOREM TypeCorrect == Spec => []TypeOK
<1>1. TabInv => TypeOK
  BY Follows
<1>2. QED
  BY <1>1, InvHolds, PTL

\* A list of members or invitations is never shown under another organization,
\* although the session's active organization changes while queries are under way.
THEOREM ListsOfTheOrg == Spec => []ListsAreTheirOrgs
<1>1. TabInv => ListsAreTheirOrgs
  BY Follows
<1>2. QED
  BY <1>1, InvHolds, PTL

\* A removal, cancellation or revocation the tab has the answer to is not undone on
\* screen by the answer of a query that was sent before it.
THEOREM WritesShow == Spec => []OwnWritesShow
<1>1. TabInv => OwnWritesShow
  BY Follows
<1>2. QED
  BY <1>1, InvHolds, PTL

\* A disabled button always has a request of its handler to wait for, whichever
\* requests fail and in whatever order the answers come.
THEOREM SpinnersEnd == Spec => []SpinnersAreAwaited
<1>1. TabInv => SpinnersAreAwaited
  BY Follows
<1>2. QED
  BY <1>1, InvHolds, PTL

\* The timers of the store of toasts wait for closed toasts alone, and every closed
\* toast on screen has one.
THEOREM ToastsClose == Spec => []TimersMatchToasts
<1>1. TabInv => TimersMatchToasts
  BY Follows
<1>2. QED
  BY <1>1, InvHolds, PTL
=============================================================================
