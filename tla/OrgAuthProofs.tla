----------------------------- MODULE OrgAuthProofs -----------------------------
(***************************************************************************)
(* Proofs about OrgAuth for any organizations in any arrangement of        *)
(* parents, any users, requests and number of changes.                     *)
(*                                                                         *)
(* The rows a request reads are parameters of the invariant, so that the   *)
(* same predicate speaks of the rows before and after a step.              *)
(***************************************************************************)
EXTENDS OrgAuth, TLAPS

-----------------------------------------------------------------------------
(* The chain of organizations above one, as far as the walk goes.          *)

Up(p, o) == IF o = None THEN None ELSE p[o]

\* The organization n levels above o, for n up to 3.
Level(p, o, n) ==
  IF n = 0 THEN o
  ELSE IF n = 1 THEN Up(p, o)
  ELSE IF n = 2 THEN Up(p, Up(p, o))
  ELSE Up(p, Up(p, Up(p, o)))

LEMMA LevelSteps ==
  ASSUME NEW p, NEW o
  PROVE  /\ Level(p, o, 0) = o
         /\ \A n \in 0 .. 2 : Level(p, o, n + 1) = Up(p, Level(p, o, n))
<1>1. Level(p, o, 0) = o
  BY DEF Level
<1>2. ASSUME NEW n \in 0 .. 2 PROVE Level(p, o, n + 1) = Up(p, Level(p, o, n))
  <2>1. n = 0 \/ n = 1 \/ n = 2
    OBVIOUS
  <2> QED
    BY <2>1 DEF Level
<1> QED
  BY <1>1, <1>2

LEMMA LevelTyped ==
  ASSUME NEW p \in [Orgs -> Orgs \union {None}], NEW o \in Orgs \union {None}, NEW n \in 0 .. 3
  PROVE  Level(p, o, n) \in Orgs \union {None}
BY AuthAssumption DEF Level, Up

\* Above, which is recursive, is Level as far as the walk goes.
LEMMA AboveIsLevel ==
  ASSUME NEW o, NEW n \in 0 .. 3
  PROVE  Above(o, n) = Level(parent, o, n)
<1> DEFINE Body(f) == [i \in 0 .. n |->
                        IF i = 0 THEN o ELSE IF f[i - 1] = None THEN None ELSE parent[f[i - 1]]]
           g == [i \in 0 .. n |-> Level(parent, o, i)]
           up == CHOOSE f : f = Body(f)
<1>1. g = Body(g)
  <2>1. ASSUME NEW i \in 0 .. n PROVE g[i] = Body(g)[i]
    <3>1. CASE i = 0
      BY <3>1, LevelSteps
    <3>2. CASE i # 0
      <4>1. i - 1 \in 0 .. 2 /\ i - 1 \in 0 .. n /\ (i - 1) + 1 = i
        BY <3>2
      <4>2. g[i] = Up(parent, g[i - 1])
        BY <4>1, LevelSteps
      <4> QED
        BY <3>2, <4>2 DEF Up
    <3> QED
      BY <3>1, <3>2
  <2> QED
    BY <2>1
<1>2. \E f : f = Body(f)
  BY <1>1
<1>3. up = Body(up)
  BY <1>2, Zenon
<1>4. Above(o, n) = up[n]
  BY DEF Above
<1> HIDE DEF up
<1>5. up[0] = o
  BY <1>3
<1>6. ASSUME NEW i \in 1 .. n PROVE up[i] = Up(parent, up[i - 1])
  <2>1. i \in 0 .. n /\ i # 0
    OBVIOUS
  <2>2. up[i] = IF i = 0 THEN o ELSE IF up[i - 1] = None THEN None ELSE parent[up[i - 1]]
    BY <1>3, <2>1
  <2> QED
    BY <2>1, <2>2 DEF Up
<1>7. up[n] = Level(parent, o, n)
  <2>1. n = 0 \/ n = 1 \/ n = 2 \/ n = 3
    OBVIOUS
  <2>2. up[0] = Level(parent, o, 0) /\ (n >= 1 => up[1] = Level(parent, o, 1))
    BY <1>5, <1>6, LevelSteps DEF Level
  <2>3. n >= 2 => up[2] = Level(parent, o, 2)
    BY <1>6, <2>2 DEF Level
  <2>4. n >= 3 => up[3] = Level(parent, o, 3)
    BY <1>6, <2>3 DEF Level
  <2> QED
    BY <2>1, <2>2, <2>3, <2>4
<1> QED
  BY <1>4, <1>7

-----------------------------------------------------------------------------
(* Roles.                                                                  *)

LEMMA Precedence ==
  /\ RolePrecedence["owner"] = 30 /\ RolePrecedence["admin"] = 20
  /\ RolePrecedence["member"] = 10
BY DEF RolePrecedence

LEMMA HighestIsHigher ==
  ASSUME NEW a \in Roles, NEW b \in Roles
  PROVE  /\ HighestRole(a, b) \in {a, b}
         /\ RolePrecedence[a] \in Nat
         /\ RolePrecedence[a] <= RolePrecedence[HighestRole(a, b)]
         /\ RolePrecedence[b] <= RolePrecedence[HighestRole(a, b)]
<1>1. RolePrecedence[a] \in Nat /\ RolePrecedence[b] \in Nat
  BY Precedence DEF Roles
<1> QED
  BY <1>1 DEF HighestRole

-----------------------------------------------------------------------------
(* The invariant.                                                          *)

Places == Reads \union {"idle", "done", "refused"}
Locals == [user : Users \union {None}, org : Orgs \union {None}, role : Roles,
           above : Orgs \union {None}, depth : 0 .. 3]
Memberships == [Orgs -> [Users -> Grants \union {None}]]
Parents == [Orgs -> Orgs \union {None}]
HeldPairs == SUBSET (Orgs \X Grants)

RowsTyped ==
  /\ parent \in Parents /\ deleted \subseteq Orgs /\ member \in Memberships
  /\ active \in [Users -> SUBSET (Orgs \union {None})]
  /\ changes \in 0 .. MaxChanges

RequestsTyped ==
  pc \in [Requests -> Places] /\ local \in [Requests -> Locals] /\ window \in [Requests -> HeldPairs]

LEMMA TypeParts == TypeOK <=> RowsTyped /\ RequestsTyped
BY DEF TypeOK, RowsTyped, RequestsTyped, Places, Locals, Memberships, Parents, HeldPairs

\* Where the walk is: above is depth + 1 levels up, and there is an organization.
WalkHolds(p, at, l) ==
  /\ at \in Reads => l.user \in Users /\ l.org \in Orgs
  /\ at = "done" => l.user \in Users
  /\ at \in {"parent.member", "parent.org"} =>
       l.depth \in 0 .. 2 /\ l.above \in Orgs /\ l.above = Level(p, l.org, l.depth + 1)
  /\ at = "member" => l.role = "member"

\* The history w has all that the user holds, and the role found so far.
SeenHolds(p, m, w, at, l) ==
  at \in Reads \union {"done"} =>
    /\ \A o \in Orgs : m[o][l.user] # None => <<o, m[o][l.user]>> \in w
    /\ \/ l.role = "member"
       \/ \E n \in 0 .. 3 : Level(p, l.org, n) # None /\ <<Level(p, l.org, n), l.role>> \in w

\* The user is a member of each of the n organizations above.
UnbrokenTo(p, m, l, n) ==
  \A i \in 1 .. n : Level(p, l.org, i) # None /\ m[Level(p, l.org, i)][l.user] # None

\* The role is the highest of those held at the levels in N.
RolesAt(p, m, l, N) == {"member"} \union ({m[Level(p, l.org, n)][l.user] : n \in N} \ {None})
HighestAt(p, m, l, N) ==
  /\ l.role \in RolesAt(p, m, l, N)
  /\ \A role \in RolesAt(p, m, l, N) : RolePrecedence[role] <= RolePrecedence[l.role]

\* What the walk has established while nothing changes.
HighestHolds(p, m, at, l) ==
  /\ at = "org" => HighestAt(p, m, l, 0 .. 0)
  /\ at = "parent.member" => UnbrokenTo(p, m, l, l.depth) /\ HighestAt(p, m, l, 0 .. l.depth)
  /\ at = "parent.org" =>
       UnbrokenTo(p, m, l, l.depth + 1) /\ HighestAt(p, m, l, 0 .. (l.depth + 1))
  /\ at = "done" /\ l.org # None =>
       HighestAt(p, m, l, {n \in 0 .. 3 : UnbrokenTo(p, m, l, n)})

Inv ==
  /\ RowsTyped /\ RequestsTyped
  /\ \A r \in Requests : /\ WalkHolds(parent, pc[r], local[r])
                         /\ SeenHolds(parent, member, window[r], pc[r], local[r])
  /\ changes = 0 =>
       deleted = {} /\ \A r \in Requests : HighestHolds(parent, member, pc[r], local[r])

LEMMA BlankTyped ==
  Blank \in Locals /\ Blank.role = "member" /\ Blank.org = None
BY DEF Blank, Locals, Roles

LEMMA BlankHolds ==
  ASSUME NEW p, NEW m, NEW w, NEW at \in {"idle", "refused"}, NEW l
  PROVE  WalkHolds(p, at, l) /\ SeenHolds(p, m, w, at, l) /\ HighestHolds(p, m, at, l)
BY DEF WalkHolds, SeenHolds, HighestHolds, Reads

LEMMA InitInv == Init => Inv
<1> SUFFICES ASSUME Init PROVE Inv
  OBVIOUS
<1>1. RowsTyped
  BY AuthAssumption DEF Init, RowsTyped, Parents, Memberships
<1>2. RequestsTyped
  BY BlankTyped DEF Init, RequestsTyped, Places, HeldPairs
<1> QED
  BY <1>1, <1>2, BlankHolds DEF Init, Inv

-----------------------------------------------------------------------------
(* A step of a request.                                                    *)

LEMMA StepHolds ==
  ASSUME Inv, NEW r \in Requests, NEW at \in Places, NEW l \in Locals, NEW w \in HeldPairs,
         Await(r, at, l), window' = [window EXCEPT ![r] = w], UNCHANGED Tables,
         WalkHolds(parent, at, l), SeenHolds(parent, member, w, at, l),
         changes = 0 => HighestHolds(parent, member, at, l)
  PROVE  Inv'
<1>1. RequestsTyped
  BY DEF Inv
<1>2. pc'[r] = at /\ local'[r] = l /\ window'[r] = w
      /\ \A q \in Requests \ {r} : pc'[q] = pc[q] /\ local'[q] = local[q] /\ window'[q] = window[q]
  BY <1>1 DEF Await, RequestsTyped
<1>3. RequestsTyped'
  BY <1>1 DEF Await, RequestsTyped
<1>4. RowsTyped'
  BY DEF Inv, RowsTyped, Tables
<1> QED
  BY <1>2, <1>3, <1>4 DEF Inv, Tables

\* The same when the history stays.
LEMMA ReadHolds ==
  ASSUME Inv, NEW r \in Requests, NEW at \in Places, NEW l \in Locals,
         Await(r, at, l), UNCHANGED <<Tables, window>>,
         WalkHolds(parent, at, l), SeenHolds(parent, member, window[r], at, l),
         changes = 0 => HighestHolds(parent, member, at, l)
  PROVE  Inv'
<1>1. window[r] \in HeldPairs /\ window' = [window EXCEPT ![r] = window[r]]
  BY DEF Inv, RequestsTyped
<1> QED
  BY <1>1, StepHolds

LEMMA ReadRefused ==
  ASSUME Inv, NEW r \in Requests, Await(r, "refused", Blank), UNCHANGED <<Tables, window>>
  PROVE  Inv'
BY BlankTyped, BlankHolds, ReadHolds DEF Places

LEMMA SessionReadKeepsInv ==
  ASSUME Inv, NEW r \in Requests, SessionRead(r)
  PROVE  Inv'
<1>1. CASE Await(r, "refused", Blank) /\ UNCHANGED window
  BY <1>1, ReadRefused DEF SessionRead, Tables
<1>2. ASSUME NEW u \in Users, NEW o \in active[u],
             Await(r, IF o = None THEN "done" ELSE "member", [Blank EXCEPT !.user = u, !.org = o]),
             window' = [window EXCEPT ![r] = Held(u)], UNCHANGED Tables
      PROVE  Inv'
  <2> DEFINE l == [Blank EXCEPT !.user = u, !.org = o]
             at == IF o = None THEN "done" ELSE "member"
  <2>1. o \in Orgs \union {None} /\ member \in Memberships
    BY DEF Inv, RowsTyped
  <2>2. l \in Locals /\ l.user = u /\ l.org = o /\ l.role = "member"
    BY <2>1, BlankTyped DEF Locals
  <2>3. Held(u) \in HeldPairs
    BY <2>1 DEF Held, HeldPairs, Memberships
  <2>4. at \in Places /\ Await(r, at, l) /\ at \in {"done", "member"} /\ (at = "done" <=> o = None)
    BY <1>2 DEF Places, Reads
  <2> HIDE DEF l, at
  <2>5. WalkHolds(parent, at, l)
    BY <2>1, <2>2, <2>4 DEF WalkHolds, Reads
  <2>6. SeenHolds(parent, member, Held(u), at, l)
    BY <2>2 DEF SeenHolds, Held
  <2>7. HighestHolds(parent, member, at, l)
    BY <2>2, <2>4 DEF HighestHolds
  <2> QED
    BY <1>2, <2>2, <2>3, <2>4, <2>5, <2>6, <2>7, StepHolds
<1> QED
  BY <1>1, <1>2 DEF SessionRead

LEMMA FinishKeepsInv ==
  ASSUME Inv, NEW r \in Requests, Finish(r)
  PROVE  Inv'
<1>1. {} \in HeldPairs
  BY DEF HeldPairs
<1> QED
  BY <1>1, BlankTyped, BlankHolds, StepHolds DEF Finish, Places

LEMMA Suspended ==
  ASSUME Inv, NEW r \in Requests
  PROVE  /\ local[r] \in Locals /\ pc[r] \in Places /\ window[r] \in HeldPairs
         /\ WalkHolds(parent, pc[r], local[r])
         /\ SeenHolds(parent, member, window[r], pc[r], local[r])
         /\ changes = 0 => deleted = {} /\ HighestHolds(parent, member, pc[r], local[r])
         /\ parent \in Parents /\ member \in Memberships
BY DEF Inv, RequestsTyped, RowsTyped

LEMMA MemberReadKeepsInv ==
  ASSUME Inv, NEW r \in Requests, MemberRead(r)
  PROVE  Inv'
<1> DEFINE l == local[r]
           role == member[l.org][l.user]
           k == IF role = None THEN l ELSE [l EXCEPT !.role = role]
<1>1. /\ l \in Locals /\ l.user \in Users /\ l.org \in Orgs /\ l.role = "member"
      /\ SeenHolds(parent, member, window[r], "member", l)
  BY Suspended DEF MemberRead, WalkHolds, Reads
<1>2. role \in Grants \union {None} /\ (role # None => role \in Roles)
  BY <1>1, Suspended, AuthAssumption DEF Memberships
<1>3. /\ k \in Locals /\ k.user = l.user /\ k.org = l.org
      /\ k.role = IF role = None THEN "member" ELSE role
  BY <1>1, <1>2 DEF Locals
<1>4. Await(r, "org", k) /\ UNCHANGED <<Tables, window>>
  BY DEF MemberRead
<1>5. k.role # "member" => k.role = member[l.org][l.user] /\ member[l.org][l.user] # None
  BY <1>3
<1> HIDE DEF k
<1>6. SeenHolds(parent, member, window[r], "org", k)
  <2>1. \A o \in Orgs : member[o][l.user] # None => <<o, member[o][l.user]>> \in window[r]
    BY <1>1 DEF SeenHolds, Reads
  <2>2. Level(parent, l.org, 0) = l.org /\ l.org # None /\ 0 \in 0 .. 3
    BY <1>1, LevelSteps, AuthAssumption
  <2> QED
    BY <1>1, <1>3, <1>5, <2>1, <2>2 DEF SeenHolds
<1>7. HighestAt(parent, member, k, 0 .. 0)
  <2>1. RolesAt(parent, member, k, 0 .. 0) = {"member"} \union ({role} \ {None})
    <3>1. 0 .. 0 = {0} /\ Level(parent, l.org, 0) = l.org
      BY LevelSteps
    <3> QED
      BY <1>3, <3>1 DEF RolesAt
  <2>2. k.role \in {"member"} \union ({role} \ {None})
    BY <1>3
  <2>3. \A x \in {"member"} \union ({role} \ {None}) : RolePrecedence[x] <= RolePrecedence[k.role]
    <3>1. RolePrecedence["member"] = 10 /\ k.role \in Roles
      BY <1>3, Precedence DEF Locals
    <3>2. RolePrecedence[k.role] >= 10 /\ RolePrecedence[k.role] \in Nat
      BY <3>1, Precedence DEF Roles
    <3> QED
      BY <1>3, <3>1, <3>2
  <2> QED
    BY <2>1, <2>2, <2>3 DEF HighestAt
<1>8. WalkHolds(parent, "org", k) /\ (changes = 0 => HighestHolds(parent, member, "org", k))
  BY <1>1, <1>3, <1>7 DEF WalkHolds, HighestHolds
<1> QED
  BY <1>3, <1>4, <1>6, <1>8, ReadHolds DEF Places, Reads

\* What is known of a role depends on its user, tenant and role only.
LEMMA SameRoles ==
  ASSUME NEW p, NEW m, NEW l, NEW k, k.user = l.user, k.org = l.org
  PROVE  /\ \A N : RolesAt(p, m, k, N) = RolesAt(p, m, l, N)
         /\ \A n : UnbrokenTo(p, m, k, n) <=> UnbrokenTo(p, m, l, n)
         /\ k.role = l.role => \A N : HighestAt(p, m, k, N) <=> HighestAt(p, m, l, N)
<1>1. \A N : RolesAt(p, m, k, N) = RolesAt(p, m, l, N)
  BY DEF RolesAt
<1> QED
  BY <1>1 DEF UnbrokenTo, HighestAt

\* The levels without a gap, when the next one is not among them.
LEMMA LevelsAre ==
  ASSUME NEW p, NEW m, NEW l, NEW n \in 0 .. 3, UnbrokenTo(p, m, l, n),
         n < 3 => ~UnbrokenTo(p, m, l, n + 1)
  PROVE  {i \in 0 .. 3 : UnbrokenTo(p, m, l, i)} = 0 .. n
<1>1. ASSUME NEW i \in 0 .. n PROVE UnbrokenTo(p, m, l, i)
  BY DEF UnbrokenTo
<1>2. ASSUME NEW i \in 0 .. 3, UnbrokenTo(p, m, l, i), i > n PROVE FALSE
  <2>1. n < 3 /\ UnbrokenTo(p, m, l, n + 1)
    BY <1>2 DEF UnbrokenTo
  <2> QED
    BY <2>1
<1> QED
  BY <1>1, <1>2

\* resolveEffectiveRole begins a level, or ends: what it must be given.
LEMMA EnterHolds ==
  ASSUME Inv, NEW r \in Requests, NEW l \in Locals, NEW above \in Orgs \union {None},
         NEW depth \in 0 .. 3, Enter(r, l, above, depth), UNCHANGED <<Tables, window>>,
         l.user \in Users, l.org \in Orgs,
         SeenHolds(parent, member, window[r], "done", l),
         depth < 3 /\ above # None => above = Level(parent, l.org, depth + 1),
         changes = 0 => /\ UnbrokenTo(parent, member, l, depth)
                        /\ HighestAt(parent, member, l, 0 .. depth)
                        /\ depth < 3 /\ above = None => Level(parent, l.org, depth + 1) = None
  PROVE  Inv'
<1> DEFINE at == IF above = None \/ depth >= 3 THEN "done" ELSE "parent.member"
           k == [l EXCEPT !.above = above, !.depth = depth]
<1>1. /\ k \in Locals /\ k.user = l.user /\ k.org = l.org /\ k.role = l.role
      /\ k.above = above /\ k.depth = depth
  BY DEF Locals
<1>2. Await(r, at, k) /\ at \in Places /\ at \in {"done", "parent.member"}
      /\ (at = "done" <=> above = None \/ depth >= 3)
  BY DEF Enter, Places, Reads
<1> HIDE DEF at, k
<1>3. WalkHolds(parent, at, k)
  BY <1>1, <1>2 DEF WalkHolds, Reads
<1>4. SeenHolds(parent, member, window[r], at, k)
  BY <1>1 DEF SeenHolds
<1>5. ASSUME changes = 0 PROVE HighestHolds(parent, member, at, k)
  <2>1. UnbrokenTo(parent, member, k, depth) /\ HighestAt(parent, member, k, 0 .. depth)
    BY <1>1, <1>5, SameRoles
  <2>2. CASE at = "parent.member"
    BY <1>1, <2>1, <2>2 DEF HighestHolds
  <2>3. CASE at = "done"
    <3>1. depth < 3 => ~UnbrokenTo(parent, member, k, depth + 1)
      BY <1>1, <1>2, <1>5, <2>3 DEF UnbrokenTo
    <3>2. {i \in 0 .. 3 : UnbrokenTo(parent, member, k, i)} = 0 .. depth
      BY <2>1, <3>1, LevelsAre
    <3> QED
      BY <2>1, <2>3, <3>2 DEF HighestHolds
  <2> QED
    BY <1>2, <2>2, <2>3
<1> QED
  BY <1>1, <1>2, <1>3, <1>4, <1>5, ReadHolds

LEMMA OrgReadKeepsInv ==
  ASSUME Inv, NEW r \in Requests, OrgRead(r)
  PROVE  Inv'
<1> DEFINE l == local[r]
<1>1. /\ l \in Locals /\ l.user \in Users /\ l.org \in Orgs
      /\ SeenHolds(parent, member, window[r], "done", l)
      /\ changes = 0 => HighestAt(parent, member, l, 0 .. 0)
      /\ parent \in Parents
  BY Suspended DEF OrgRead, WalkHolds, SeenHolds, HighestHolds, Reads
<1>2. CASE Await(r, "refused", Blank)
  BY <1>2, ReadRefused DEF OrgRead
<1>3. CASE Enter(r, l, parent[l.org], 0)
  <2>1. UNCHANGED <<Tables, window>> /\ parent[l.org] \in Orgs \union {None}
    BY <1>1 DEF OrgRead, Parents
  <2>2. Level(parent, l.org, 0 + 1) = parent[l.org]
    BY <1>1, LevelSteps, AuthAssumption DEF Up
  <2>3. UnbrokenTo(parent, member, l, 0)
    BY DEF UnbrokenTo
  <2> QED
    BY <1>1, <1>3, <2>1, <2>2, <2>3, EnterHolds
<1> QED
  BY <1>2, <1>3 DEF OrgRead

LEMMA ParentMemberReadKeepsInv ==
  ASSUME Inv, NEW r \in Requests, ParentMemberRead(r)
  PROVE  Inv'
<1> DEFINE l == local[r]
           role == member[l.above][l.user]
<1>1. /\ l \in Locals /\ l.user \in Users /\ l.org \in Orgs /\ l.above \in Orgs
      /\ l.depth \in 0 .. 2 /\ l.above = Level(parent, l.org, l.depth + 1)
      /\ SeenHolds(parent, member, window[r], "parent.member", l)
      /\ changes = 0 => /\ UnbrokenTo(parent, member, l, l.depth)
                        /\ HighestAt(parent, member, l, 0 .. l.depth)
  BY Suspended DEF ParentMemberRead, WalkHolds, HighestHolds, Reads
<1>2. UNCHANGED <<Tables, window>> /\ role \in Grants \union {None} /\ (role # None => role \in Roles)
  BY <1>1, Suspended, AuthAssumption DEF ParentMemberRead, Memberships
<1>3. CASE role = None /\ Await(r, "done", l)
  <2>1. ~UnbrokenTo(parent, member, l, l.depth + 1)
    BY <1>1, <1>3 DEF UnbrokenTo
  <2>2. ASSUME changes = 0 PROVE HighestHolds(parent, member, "done", l)
    <3>1. UnbrokenTo(parent, member, l, l.depth) /\ HighestAt(parent, member, l, 0 .. l.depth)
          /\ l.depth \in 0 .. 3
      BY <1>1, <2>2
    <3>2. {i \in 0 .. 3 : UnbrokenTo(parent, member, l, i)} = 0 .. l.depth
      BY <2>1, <3>1, LevelsAre
    <3> QED
      BY <3>1, <3>2 DEF HighestHolds
  <2>3. WalkHolds(parent, "done", l) /\ SeenHolds(parent, member, window[r], "done", l)
    BY <1>1 DEF WalkHolds, SeenHolds, Reads
  <2> QED
    BY <1>1, <1>2, <1>3, <2>2, <2>3, ReadHolds DEF Places
<1>4. CASE role # None /\ Await(r, "parent.org", [l EXCEPT !.role = HighestRole(l.role, role)])
  <2> DEFINE k == [l EXCEPT !.role = HighestRole(l.role, role)]
  <2>1. l.role \in Roles /\ role \in Roles
    BY <1>1, <1>2, <1>4 DEF Locals
  <2>2. HighestRole(l.role, role) \in {l.role, role}
    BY <2>1, HighestIsHigher
  <2>3. /\ k \in Locals /\ k.user = l.user /\ k.org = l.org /\ k.above = l.above
        /\ k.depth = l.depth /\ k.role = HighestRole(l.role, role)
    BY <1>1, <2>1, <2>2 DEF Locals
  <2> HIDE DEF k
  <2>4. Level(parent, l.org, l.depth + 1) # None /\ l.depth + 1 \in 0 .. 3
    BY <1>1, AuthAssumption
  <2>5. SeenHolds(parent, member, window[r], "parent.org", k)
    <3>1. <<l.above, role>> \in window[r]
      BY <1>1, <1>4 DEF SeenHolds, Reads
    <3> QED
      BY <1>1, <2>2, <2>3, <2>4, <3>1 DEF SeenHolds, Reads
  <2>6. WalkHolds(parent, "parent.org", k)
    BY <1>1, <2>3 DEF WalkHolds, Reads
  <2>7. ASSUME changes = 0 PROVE HighestHolds(parent, member, "parent.org", k)
    <3>1. UnbrokenTo(parent, member, k, l.depth + 1)
      BY <1>1, <1>4, <2>3, <2>4, <2>7 DEF UnbrokenTo
    <3>2. RolesAt(parent, member, k, 0 .. (l.depth + 1))
            = RolesAt(parent, member, l, 0 .. l.depth) \union {role}
      <4>1. 0 .. (l.depth + 1) = 0 .. l.depth \union {l.depth + 1}
        BY <1>1
      <4> QED
        BY <1>1, <1>4, <2>3, <4>1 DEF RolesAt
    <3>3. HighestAt(parent, member, l, 0 .. l.depth)
      BY <1>1, <2>7
    <3>4. \A x \in RolesAt(parent, member, l, 0 .. l.depth) : x \in Roles
      <4>1. ASSUME NEW n \in 0 .. l.depth,
                   member[Level(parent, l.org, n)][l.user] # None
            PROVE  member[Level(parent, l.org, n)][l.user] \in Roles
        <5>1. Level(parent, l.org, n) \in Orgs
          <6>1. CASE n = 0
            BY <1>1, <6>1, LevelSteps
          <6>2. CASE n # 0
            <7>1. n \in 1 .. l.depth /\ n \in 0 .. 3 /\ parent \in Parents
              BY <1>1, <6>2, Suspended
            <7>2. Level(parent, l.org, n) \in Orgs \union {None}
              BY <1>1, <7>1, LevelTyped DEF Parents
            <7> QED
              BY <1>1, <2>7, <7>1, <7>2 DEF UnbrokenTo
          <6> QED
            BY <6>1, <6>2
        <5> QED
          BY <1>1, <4>1, <5>1, Suspended, AuthAssumption DEF Memberships
      <4> QED
        BY <4>1 DEF RolesAt, Roles
    <3>5. HighestAt(parent, member, k, 0 .. (l.depth + 1))
      BY <2>1, <2>2, <2>3, <3>2, <3>3, <3>4, HighestIsHigher DEF HighestAt
    <3> QED
      BY <2>3, <3>1, <3>5 DEF HighestHolds
  <2> QED
    BY <1>2, <1>4, <2>3, <2>5, <2>6, <2>7, ReadHolds DEF k, Places, Reads
<1> QED
  BY <1>3, <1>4 DEF ParentMemberRead

LEMMA ParentOrgReadKeepsInv ==
  ASSUME Inv, NEW r \in Requests, ParentOrgRead(r)
  PROVE  Inv'
<1> DEFINE l == local[r]
           above == IF l.above \in deleted THEN None ELSE parent[l.above]
           depth == l.depth + 1
<1>1. /\ l \in Locals /\ l.user \in Users /\ l.org \in Orgs /\ l.above \in Orgs
      /\ l.depth \in 0 .. 2 /\ l.above = Level(parent, l.org, l.depth + 1)
      /\ SeenHolds(parent, member, window[r], "done", l)
      /\ changes = 0 => /\ deleted = {}
                        /\ UnbrokenTo(parent, member, l, l.depth + 1)
                        /\ HighestAt(parent, member, l, 0 .. (l.depth + 1))
      /\ parent \in Parents
  BY Suspended DEF ParentOrgRead, WalkHolds, SeenHolds, HighestHolds, Reads
<1>2. above \in Orgs \union {None} /\ depth \in 0 .. 3 /\ Enter(r, l, above, depth)
      /\ UNCHANGED <<Tables, window>>
  BY <1>1 DEF ParentOrgRead, Parents
<1>3. depth < 3 => Level(parent, l.org, depth + 1) = parent[l.above]
  <2> SUFFICES ASSUME depth < 3 PROVE Level(parent, l.org, depth + 1) = parent[l.above]
    OBVIOUS
  <2>1. depth \in 0 .. 2
    BY <1>1
  <2>2. Level(parent, l.org, depth + 1) = Up(parent, Level(parent, l.org, depth))
    BY <2>1, LevelSteps
  <2> QED
    BY <1>1, <2>2, AuthAssumption DEF Up
<1>4. depth < 3 /\ above # None => above = Level(parent, l.org, depth + 1)
  BY <1>3
<1>5. changes = 0 => /\ UnbrokenTo(parent, member, l, depth)
                     /\ HighestAt(parent, member, l, 0 .. depth)
                     /\ depth < 3 /\ above = None => Level(parent, l.org, depth + 1) = None
  BY <1>1, <1>3
<1> HIDE DEF above, depth
<1> QED
  BY <1>1, <1>2, <1>4, <1>5, EnterHolds

-----------------------------------------------------------------------------
(* Better Auth, and the theorems.                                          *)

LEMMA BetterAuthKeepsInv ==
  ASSUME Inv, BetterAuth
  PROVE  Inv'
<1>1. RowsTyped /\ RequestsTyped
  BY DEF Inv
<1>2. ASSUME NEW u \in Users, NEW o \in Orgs, SetActive(u, o) PROVE Inv'
  BY <1>1, <1>2 DEF SetActive, Inv, RowsTyped, RequestsTyped
<1>3. ASSUME NEW o \in Orgs, OrgDeleted(o) PROVE Inv'
  <2>1. changes' = changes + 1 /\ changes' # 0 /\ changes' \in 0 .. MaxChanges
    BY <1>1, <1>3, AuthAssumption DEF OrgDeleted, RowsTyped
  <2> QED
    BY <1>1, <1>3, <2>1 DEF OrgDeleted, Inv, RowsTyped, RequestsTyped
<1>4. ASSUME NEW u \in Users, NEW o \in Orgs, MemberChanges(o, u) PROVE Inv'
  <2>1. PICK role \in Grants \union {None} :
          /\ role # member[o][u]
          /\ member' = [member EXCEPT ![o][u] = role]
          /\ window' = [r \in Requests |->
               IF local[r].user = u /\ role # None THEN window[r] \union {<<o, role>>} ELSE window[r]]
    BY <1>4 DEF MemberChanges
  <2>2. changes' = changes + 1 /\ changes' # 0 /\ changes' \in 0 .. MaxChanges
    BY <1>1, <1>4, AuthAssumption DEF MemberChanges, RowsTyped
  <2>3. UNCHANGED <<parent, deleted, active, pc, local>>
    BY <1>4 DEF MemberChanges
  <2>4. /\ member' \in Memberships
        /\ \A p \in Orgs, v \in Users :
             member'[p][v] = IF p = o /\ v = u THEN role ELSE member[p][v]
    BY <1>1, <2>1 DEF RowsTyped, Memberships
  <2>5. window' \in [Requests -> HeldPairs]
    BY <1>1, <2>1 DEF RequestsTyped, HeldPairs
  <2>6. RowsTyped' /\ RequestsTyped'
    BY <1>1, <2>2, <2>3, <2>4, <2>5 DEF RowsTyped, RequestsTyped
  <2>7. ASSUME NEW r \in Requests
        PROVE  SeenHolds(parent, member', window'[r], pc[r], local[r])
    <3>1. /\ SeenHolds(parent, member, window[r], pc[r], local[r])
          /\ WalkHolds(parent, pc[r], local[r])
      BY Suspended
    <3>2. window[r] \subseteq window'[r]
          /\ (local[r].user = u /\ role # None => <<o, role>> \in window'[r])
      BY <2>1
    <3>3. pc[r] \in Reads \union {"done"} => local[r].user \in Users
      BY <3>1 DEF WalkHolds
    <3> QED
      BY <2>4, <3>1, <3>2, <3>3 DEF SeenHolds
  <2> QED
    BY <2>2, <2>3, <2>6, <2>7 DEF Inv
<1> QED
  BY <1>2, <1>3, <1>4 DEF BetterAuth

LEMMA NextKeepsInv == Inv /\ [Next]_vars => Inv'
<1> SUFFICES ASSUME Inv, [Next]_vars PROVE Inv'
  OBVIOUS
<1>1. CASE UNCHANGED vars
  BY <1>1 DEF vars, Inv, RowsTyped, RequestsTyped
<1>2. ASSUME NEW r \in Requests, SessionRead(r) \/ Resolve(r) \/ Finish(r) PROVE Inv'
  BY <1>2, SessionReadKeepsInv, FinishKeepsInv, MemberReadKeepsInv, OrgReadKeepsInv,
     ParentMemberReadKeepsInv, ParentOrgReadKeepsInv, ReadRefused DEF Resolve, Fail
<1> QED
  BY <1>1, <1>2, BetterAuthKeepsInv DEF Next

LEMMA InvHolds == Safety => []Inv
BY InitInv, NextKeepsInv, PTL DEF Safety

LEMMA InvImplies == Inv => TypeOK /\ RoleWasHeld /\ RoleIsHighestUnbroken
<1> SUFFICES ASSUME Inv PROVE TypeOK /\ RoleWasHeld /\ RoleIsHighestUnbroken
  OBVIOUS
<1>1. TypeOK
  BY TypeParts DEF Inv
<1>2. ASSUME NEW r \in Requests, pc[r] = "done", local[r].role # "member"
      PROVE  \E o \in Chain(local[r].org) : <<o, local[r].role>> \in window[r]
  <2>1. PICK n \in 0 .. 3 : /\ Level(parent, local[r].org, n) # None
                            /\ <<Level(parent, local[r].org, n), local[r].role>> \in window[r]
    BY <1>2, Suspended DEF SeenHolds
  <2>2. Level(parent, local[r].org, n) \in Chain(local[r].org)
    BY <2>1, AboveIsLevel DEF Chain
  <2> QED
    BY <2>1, <2>2
<1>3. ASSUME changes = 0, NEW r \in Requests, pc[r] = "done", local[r].org # None
      PROVE  LET l == local[r]
                 levels == {n \in 0 .. 3 : Unbroken(l.org, l.user, n)}
                 roles == {"member"} \union
                          ({member[Above(l.org, n)][l.user] : n \in levels} \ {None})
             IN  /\ l.role \in roles
                 /\ \A role \in roles : RolePrecedence[role] <= RolePrecedence[l.role]
  <2> DEFINE l == local[r]
             levels == {n \in 0 .. 3 : Unbroken(l.org, l.user, n)}
             reached == {n \in 0 .. 3 : UnbrokenTo(parent, member, l, n)}
             roles == {"member"} \union ({member[Above(l.org, n)][l.user] : n \in levels} \ {None})
  <2>1. HighestAt(parent, member, l, reached)
    BY <1>3, Suspended DEF HighestHolds
  <2>2. ASSUME NEW n \in 0 .. 3
        PROVE  Unbroken(l.org, l.user, n) <=> UnbrokenTo(parent, member, l, n)
    <3>1. \A i \in 1 .. n : Above(l.org, i) = Level(parent, l.org, i)
      BY AboveIsLevel
    <3> QED
      BY <3>1 DEF Unbroken, UnbrokenTo
  <2>3. levels = reached
    BY <2>2
  <2>4. \A n \in levels : Above(l.org, n) = Level(parent, l.org, n)
    BY AboveIsLevel
  <2>5. roles = RolesAt(parent, member, l, reached)
    BY <2>3, <2>4 DEF RolesAt
  <2> QED
    BY <2>1, <2>5 DEF HighestAt
<1> QED
  BY <1>1, <1>2, <1>3 DEF RoleWasHeld, RoleIsHighestUnbroken

\* OrgAuth is type correct; the walk is never deeper than three levels.
THEOREM TypeCorrect == Safety => []TypeOK
BY InvHolds, InvImplies, PTL

\* Whatever Better Auth changes between two reads of resolveContext, a role above
\* member is one the user held meanwhile, in the tenant or above it.
THEOREM RolesWereHeld == Safety => []RoleWasHeld
BY InvHolds, InvImplies, PTL

\* The walk up parentOrgId finds the highest role of the part of the chain that
\* has no gap.
THEOREM RolesAreHighest == Safety => []RoleIsHighestUnbroken
BY InvHolds, InvImplies, PTL
=============================================================================
