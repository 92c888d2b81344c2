------------------------------- MODULE OrgAuth -------------------------------
(***************************************************************************)
(* How a request gets its tenant and its role: AuthGuard calls             *)
(* AuthService.resolveContext, which reads the session, the membership and *)
(* the organization one after the other and then walks up parentOrgId.     *)
(* Every read is an await; between two of them Better Auth, which is       *)
(* external, may change memberships, organizations and sessions.           *)
(***************************************************************************)
EXTENDS Rbac

CONSTANTS
  Orgs,        \* organizations
  Users,
  Requests,    \* requests whose context is being resolved
  Grants,      \* the roles memberships may have in this instance
  MaxChanges,  \* bound: changes of memberships and organizations
  None

ASSUME AuthAssumption ==
  /\ Grants \subseteq Roles
  /\ MaxChanges \in Nat
  /\ None \notin Orgs \union Users \union Roles

VARIABLES
  parent,   \* organization.parentOrgId; nothing in the code changes it
  deleted,  \* the organizations with deletedAt set
  member,   \* member.role of each user in each organization
  active,   \* the organizations each user's sessions, or the copies of them in
            \* cookies, have active; None is a session without one
  changes,  \* how many changes of member and deleted there were
  pc,       \* the read each request is suspended at
  local,    \* what it knows
  window    \* history: the <<org, role>> its user held since it began

vars == <<parent, deleted, member, active, changes, pc, local, window>>

Reads == {"member", "org", "parent.member", "parent.org"}

Blank == [user |-> None, org |-> None, role |-> "member", above |-> None, depth |-> 0]

\* The memberships u has now.
Held(u) == {<<o, member[o][u]>> : o \in {p \in Orgs : member[p][u] # None}}

Init ==
  /\ parent \in [Orgs -> Orgs \union {None}]
  /\ deleted = {}
  /\ member \in [Orgs -> [Users -> Grants \union {None}]]
  /\ active = [u \in Users |-> {None}]
  /\ changes = 0
  /\ pc = [r \in Requests |-> "idle"]
  /\ local = [r \in Requests |-> Blank]
  /\ window = [r \in Requests |-> {}]

Await(r, at, l) ==
  /\ pc' = [pc EXCEPT ![r] = at]
  /\ local' = [local EXCEPT ![r] = l]

Tables == <<parent, deleted, member, active, changes>>

-----------------------------------------------------------------------------
(* resolveContext.                                                         *)

\* getSession.  Without a session there is no context (401); without an active
\* organization it is complete, as a member of no tenant.
SessionRead(r) ==
  /\ pc[r] = "idle"
  /\ \/ Await(r, "refused", Blank) /\ UNCHANGED window
     \/ \E u \in Users : \E o \in active[u] :
          /\ Await(r, IF o = None THEN "done" ELSE "member",
                   [Blank EXCEPT !.user = u, !.org = o])
          /\ window' = [window EXCEPT ![r] = Held(u)]
  /\ UNCHANGED Tables

\* member.findFirst: the direct role; whoever is not a member counts as one.
MutMemberReadAnyOrg(r) ==
  LET l == local[r] IN
  /\ pc[r] = "member"
  /\ \E o \in Orgs :
       Await(r, "org", IF member[o][l.user] = None THEN l ELSE [l EXCEPT !.role = member[o][l.user]])
  /\ UNCHANGED <<Tables, window>>

MemberRead(r) ==
  LET l == local[r] IN
  /\ pc[r] = "member"
  /\ Await(r, "org",
           IF member[l.org][l.user] = None THEN l ELSE [l EXCEPT !.role = member[l.org][l.user]])
  /\ UNCHANGED <<Tables, window>>

\* resolveEffectiveRole begins a level: nothing above, or too deep, ends it.
MutEnterUncapped(r, l, above, depth) ==
  Await(r, IF above = None THEN "done" ELSE "parent.member",
        [l EXCEPT !.above = above, !.depth = depth])
MutEnterForever(r, l, above, depth) ==
  Await(r, IF above = None THEN "done" ELSE "parent.member",
        [l EXCEPT !.above = above, !.depth = IF depth >= 3 THEN 3 ELSE depth])
Enter(r, l, above, depth) ==
  Await(r, IF above = None \/ depth >= 3 THEN "done" ELSE "parent.member",
        [l EXCEPT !.above = above, !.depth = depth])

\* organization.findFirst: a deleted organization is not found, no context.
OrgRead(r) ==
  LET l == local[r] IN
  /\ pc[r] = "org"
  /\ \/ l.org \in deleted    /\ Await(r, "refused", Blank)
     \/ l.org \notin deleted /\ Enter(r, l, parent[l.org], 0)
  /\ UNCHANGED <<Tables, window>>

MutParentMemberReadLast(r) ==
  LET l == local[r]
      role == member[l.above][l.user] IN
  /\ pc[r] = "parent.member"
  /\ \/ role = None /\ Await(r, "done", l)
     \/ role # None /\ Await(r, "parent.org", [l EXCEPT !.role = role])
  /\ UNCHANGED <<Tables, window>>

\* The role in the organization above counts; without a membership there the
\* walk ends, whatever lies further up.
ParentMemberRead(r) ==
  LET l == local[r]
      role == member[l.above][l.user] IN
  /\ pc[r] = "parent.member"
  /\ \/ role = None /\ Await(r, "done", l)
     \/ role # None /\ Await(r, "parent.org", [l EXCEPT !.role = HighestRole(@, role)])
  /\ UNCHANGED <<Tables, window>>

\* The organization above may be deleted: then nothing is above it.
ParentOrgRead(r) ==
  LET l == local[r] IN
  /\ pc[r] = "parent.org"
  /\ Enter(r, l, IF l.above \in deleted THEN None ELSE parent[l.above], l.depth + 1)
  /\ UNCHANGED <<Tables, window>>

\* A read rejects: 500.
Fail(r) ==
  /\ pc[r] \in Reads
  /\ Await(r, "refused", Blank)
  /\ UNCHANGED <<Tables, window>>

\* The request went on with its context, or was refused; its slot is free.
Finish(r) ==
  /\ pc[r] \in {"done", "refused"}
  /\ Await(r, "idle", Blank)
  /\ window' = [window EXCEPT ![r] = {}]
  /\ UNCHANGED Tables

-----------------------------------------------------------------------------
(* Better Auth.                                                            *)

\* setActive, for an organization the user belongs to.  The organization that
\* was active remains: in another session, or in the cookie cache.
SetActive(u, o) ==
  /\ member[o][u] # None /\ o \notin active[u]
  /\ active' = [active EXCEPT ![u] = @ \union {o}]
  /\ UNCHANGED <<parent, deleted, member, changes, pc, local, window>>

\* A member is added, removed, or gets another role.
MemberChanges(o, u) ==
  /\ changes < MaxChanges
  /\ \E role \in Grants \union {None} :
       /\ role # member[o][u]
       /\ member' = [member EXCEPT ![o][u] = role]
       /\ window' = [r \in Requests |->
            IF local[r].user = u /\ role # None THEN window[r] \union {<<o, role>>} ELSE window[r]]
  /\ changes' = changes + 1
  /\ UNCHANGED <<parent, deleted, active, pc, local>>

OrgDeleted(o) ==
  /\ changes < MaxChanges /\ o \notin deleted
  /\ deleted' = deleted \union {o}
  /\ changes' = changes + 1
  /\ UNCHANGED <<parent, member, active, pc, local, window>>

-----------------------------------------------------------------------------
Resolve(r) ==
  \/ MemberRead(r) \/ OrgRead(r) \/ ParentMemberRead(r) \/ ParentOrgRead(r) \/ Fail(r)

BetterAuth ==
  \/ \E u \in Users, o \in Orgs : SetActive(u, o) \/ MemberChanges(o, u)
  \/ \E o \in Orgs : OrgDeleted(o)

Next ==
  \/ \E r \in Requests : SessionRead(r) \/ Resolve(r) \/ Finish(r)
  \/ BetterAuth

Safety == Init /\ [][Next]_vars

\* A read the database was asked for is answered or rejected.
Spec == Safety /\ \A r \in Requests : WF_vars(Resolve(r))

-----------------------------------------------------------------------------
(* Properties.                                                             *)

\* Every variable has its type; the walk is never deeper than three levels.
TypeOK ==
  /\ parent \in [Orgs -> Orgs \union {None}]
  /\ deleted \subseteq Orgs
  /\ member \in [Orgs -> [Users -> Grants \union {None}]]
  /\ active \in [Users -> SUBSET (Orgs \union {None})]
  /\ changes \in 0 .. MaxChanges
  /\ pc \in [Requests -> Reads \union {"idle", "done", "refused"}]
  /\ local \in [Requests -> [user : Users \union {None}, org : Orgs \union {None}, role : Roles,
                             above : Orgs \union {None}, depth : 0 .. 3]]
  /\ window \in [Requests -> SUBSET (Orgs \X Grants)]

\* The organization n levels above o, or None.
Above(o, n) ==
  LET up[i \in 0 .. n] == IF i = 0 THEN o ELSE IF up[i - 1] = None THEN None ELSE parent[up[i - 1]]
  IN  up[n]

\* o and the organizations the walk may reach from it.
Chain(o) == {Above(o, n) : n \in 0 .. 3} \ {None}

\* A request never gets more than its user held: whatever is changed while the
\* reads are made, a role above member is one the user had, while the request was
\* being resolved, in the tenant or in an organization above it.
RoleWasHeld ==
  \A r \in Requests :
    (pc[r] = "done" /\ local[r].role # "member")
      => \E o \in Chain(local[r].org) : <<o, local[r].role>> \in window[r]

\* u is a member of each of the n organizations above o.
Unbroken(o, u, n) == \A i \in 1 .. n : Above(o, i) # None /\ member[Above(o, i)][u] # None

\* While nothing has changed, a request gets the highest role its user has in the
\* tenant and in the part of the chain above it where the user is a member
\* without a gap, three levels up at most.
RoleIsHighestUnbroken ==
  changes = 0 =>
    \A r \in Requests : (pc[r] = "done" /\ local[r].org # None) =>
      LET l == local[r]
          levels == {n \in 0 .. 3 : Unbroken(l.org, l.user, n)}
          roles == {"member"} \union
                   ({member[Above(l.org, n)][l.user] : n \in levels} \ {None})
      IN  /\ l.role \in roles
          /\ \A role \in roles : RolePrecedence[role] <= RolePrecedence[l.role]

\* Every request is resolved or refused, even when parentOrgId goes round in a
\* circle.
RequestsResolve == \A r \in Requests : (pc[r] \in Reads) ~> (pc[r] \in {"done", "refused"})

-----------------------------------------------------------------------------
(* What the comments and documents say and the code does not do.           *)

\* "The effective role is the highest role across the org and all ancestors":
\* while nothing has changed and the chain is no longer than the walk.
RoleIsHighest ==
  changes = 0 =>
    \A r \in Requests : (pc[r] = "done" /\ local[r].org # None /\ Above(local[r].org, 3) = None) =>
      \A o \in Chain(local[r].org) :
        member[o][local[r].user] # None =>
          RolePrecedence[member[o][local[r].user]] <= RolePrecedence[local[r].role]
=============================================================================
