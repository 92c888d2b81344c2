---------------------------- MODULE Conversations ----------------------------
(***************************************************************************)
(* The conversations module of the API (ConversationsController ->          *)
(* ConversationsService -> PrismaService) as the set of its HTTP requests   *)
(* in flight.  Node runs a handler from one await to the next without       *)
(* interruption, so a step of this specification is one awaited database   *)
(* call together with the code that runs on its result; between two steps  *)
(* any other request, in this process or another one, may run.             *)
(*                                                                         *)
(* PostgreSQL runs every statement atomically (READ COMMITTED); the        *)
(* interactive transaction of sendMessage is one step, for its two writes  *)
(* become visible together at commit.                                      *)
(***************************************************************************)
EXTENDS Rbac, FiniteSets

CONSTANTS
  Orgs,        \* tenants (Organization rows)
  Users,       \* users that may be assigned to a conversation
  Contacts,    \* Contact rows
  ContactOrg,  \* the tenant that owns each contact; it never changes
  Channels,    \* whatsapp | email | sms
  Convs,       \* identifiers of Conversation rows
  Msgs,        \* identifiers of Message rows
  Requests,    \* the HTTP requests that may be in flight at once
  Contexts,    \* the request contexts AuthService.resolveContext can produce
  Members,     \* the <<org, user>> memberships that exist at some time
  None,        \* null: no tenant, user, conversation...
  Undefined    \* a field the request body leaves out

ASSUME RowsAssumption ==
  /\ ContactOrg \in [Contacts -> Orgs]
  /\ Members \subseteq Orgs \X Users
  /\ Contexts \subseteq [org : Orgs \union {None}, role : Roles]

ASSUME NullAssumption ==
  /\ None \notin Orgs \union Users \union Convs \union Msgs \union Contacts
  /\ None \notin Channels
  /\ Undefined \notin Users \union {None, "open", "closed", "snoozed"}
  /\ Convs \intersect Msgs = {}

VARIABLES
  conv,           \* table conversation: the row of each identifier
  message,        \* table message
  contactDeleted, \* contact.deletedAt is set
  member,         \* table member: the memberships that exist now
  pc,             \* the await each request is suspended at
  local           \* its context, arguments and results

rows == <<conv, message>>
vars == <<conv, message, contactDeleted, member, pc, local>>

Statuses == {"open", "closed", "snoozed"}

\* The awaits of the handlers.  "done" is a handler that has answered.
Awaits == {"create.check", "create.insert", "update.assignee", "update.write",
           "remove.write", "list.read", "send.commit", "send.enqueue"}

NoConversation == [org |-> None, contact |-> None, channel |-> None, status |-> "absent",
                   assigned |-> None, lastMessageAt |-> FALSE, deleted |-> FALSE]
NoMessage      == [org |-> None, conv |-> None]
Blank          == [org |-> None, role |-> "member", conv |-> None, contact |-> None,
                   channel |-> None, status |-> Undefined, assignee |-> Undefined,
                   msg |-> None, found |-> {}, code |-> 0]

Init ==
  /\ conv = [c \in Convs |-> NoConversation]
  /\ message = [m \in Msgs |-> NoMessage]
  /\ contactDeleted = [k \in Contacts |-> FALSE]
  /\ member = Members
  /\ pc = [r \in Requests |-> "idle"]
  /\ local = [r \in Requests |-> Blank]

-----------------------------------------------------------------------------
(* Reads and control flow shared by the handlers.                          *)

Exists(c) == conv[c].status # "absent"

\* A row the soft-delete extension of PrismaService lets a read see.
MutLiveIgnoringDeletedAt(c) == Exists(c)
Live(c) == Exists(c) /\ ~conv[c].deleted

\* findByIdWithContact: the tenant's live conversation with this id.
MutFindAnyTenant(org, c) == Live(c)
FindConversation(org, c) == Live(c) /\ conv[c].org = org

\* The handler suspends at the next awaited call, with these locals.
Await(r, at, l) ==
  /\ pc' = [pc EXCEPT ![r] = at]
  /\ local' = [local EXCEPT ![r] = l]

\* The handler returns or throws: of its locals the response keeps the rows
\* read and the message created, beside the status code.
Response(l, code) ==
  [Blank EXCEPT !.org = l.org, !.msg = l.msg, !.found = l.found, !.code = code]
Answer(r, l, code) == Await(r, "done", Response(l, code))

\* A request with context x reaches a handler that requires permission p.
Admitted(r, x, p) == pc[r] = "idle" /\ HasPermission(x.role, p)

With(x) == [Blank EXCEPT !.org = x.org, !.role = x.role]
About(x, c) == [With(x) EXCEPT !.conv = c]

\* PermissionGuard turns the request away.
Refuse(r) ==
  /\ pc[r] = "idle"
  /\ \E x \in Contexts, p \in {"conversation:create", "conversation:read",
                               "conversation:delete", "message:send", "message:read"} :
       /\ ~HasPermission(x.role, p)
       /\ Answer(r, With(x), 403)
  /\ UNCHANGED <<conv, message, contactDeleted, member>>

-----------------------------------------------------------------------------
(* POST /conversations                                                     *)

MutFindContactAnyTenant(org, k) == ~contactDeleted[k]
FindContact(org, k) == ~contactDeleted[k] /\ ContactOrg[k] = org

CreateArgs(x, k, ch) == [With(x) EXCEPT !.contact = k, !.channel = ch]

CreateStart(r) ==
  /\ \E x \in Contexts, k \in Contacts, ch \in Channels :
       /\ Admitted(r, x, "conversation:create")
       /\ \/ FindContact(x.org, k)  /\ Await(r, "create.check", CreateArgs(x, k, ch))
          \/ ~FindContact(x.org, k) /\ Answer(r, With(x), 404)
  /\ UNCHANGED <<conv, message, contactDeleted, member>>

\* An open conversation of this tenant with the contact on the channel.
OpenThread(org, k, ch) ==
  {c \in Convs : FindConversation(org, c) /\ conv[c].contact = k
                 /\ conv[c].channel = ch /\ conv[c].status = "open"}

MutCreateCheckSkipped(r) ==
  /\ pc[r] = "create.check"
  /\ Await(r, "create.insert", local[r])
  /\ UNCHANGED <<conv, message, contactDeleted, member>>

CreateCheck(r) ==
  LET existing == OpenThread(local[r].org, local[r].contact, local[r].channel) IN
  /\ pc[r] = "create.check"
  /\ \/ existing = {} /\ Await(r, "create.insert", local[r])
     \/ existing # {} /\ Answer(r, local[r], 409)
  /\ UNCHANGED <<conv, message, contactDeleted, member>>

CreateInsert(r) ==
  /\ pc[r] = "create.insert"
  /\ \E c \in Convs :
       /\ ~Exists(c)
       /\ conv' = [conv EXCEPT ![c] = [NoConversation EXCEPT
                     !.org = local[r].org, !.contact = local[r].contact,
                     !.channel = local[r].channel, !.status = "open"]]
       /\ Answer(r, local[r], 201)
  /\ UNCHANGED <<message, contactDeleted, member>>

-----------------------------------------------------------------------------
(* PATCH /conversations/:id                                                *)

\* An assignee in the body needs conversation:assign; null unassigns, and
\* the empty string, which names nobody, is kept like null.
MutMayAssign(role, a) == TRUE
MayAssign(role, a) == a = Undefined \/ HasPermission(role, "conversation:assign")

UpdateArgs(x, c, s, a) == [With(x) EXCEPT !.conv = c, !.status = s, !.assignee = a]

UpdateStart(r) ==
  /\ \E x \in Contexts, c \in Convs, s \in Statuses \union {Undefined},
        a \in Users \union {None, Undefined} :
       /\ Admitted(r, x, "conversation:read")
       /\ \/ ~FindConversation(x.org, c) /\ Answer(r, With(x), 404)
          \/ /\ FindConversation(x.org, c)
             /\ \/ ~MayAssign(x.role, a) /\ Answer(r, With(x), 403)
                \/ /\ MayAssign(x.role, a)
                   /\ Await(r, IF a \in Users THEN "update.assignee" ELSE "update.write",
                            UpdateArgs(x, c, s, a))
  /\ UNCHANGED <<conv, message, contactDeleted, member>>

MutUpdateAssigneeUnchecked(r) ==
  /\ pc[r] = "update.assignee"
  /\ Await(r, "update.write", local[r])
  /\ UNCHANGED <<conv, message, contactDeleted, member>>

UpdateAssignee(r) ==
  LET isMember == <<local[r].org, local[r].assignee>> \in member IN
  /\ pc[r] = "update.assignee"
  /\ \/ isMember  /\ Await(r, "update.write", local[r])
     \/ ~isMember /\ Answer(r, local[r], 404)
  /\ UNCHANGED <<conv, message, contactDeleted, member>>

\* A field of the body replaces the column unless it was left out.
Patched(old, new) == IF new = Undefined THEN old ELSE new
MutPatchEverything(row, s, a) == [row EXCEPT !.status = s, !.assigned = a]
Patch(row, s, a) ==
  [row EXCEPT !.status = Patched(row.status, s), !.assigned = Patched(row.assigned, a)]

\* conversation.update names the row by id alone: neither the tenant nor
\* deletedAt is looked at again.
UpdateWrite(r) ==
  /\ pc[r] = "update.write"
  /\ conv' = [conv EXCEPT ![local[r].conv] = Patch(@, local[r].status, local[r].assignee)]
  /\ Answer(r, local[r], 200)
  /\ UNCHANGED <<message, contactDeleted, member>>

-----------------------------------------------------------------------------
(* DELETE /conversations/:id                                               *)

RemoveStart(r) ==
  /\ \E x \in Contexts, c \in Convs :
       /\ Admitted(r, x, "conversation:delete")
       /\ \/ FindConversation(x.org, c)  /\ Await(r, "remove.write", About(x, c))
          \/ ~FindConversation(x.org, c) /\ Answer(r, With(x), 404)
  /\ UNCHANGED <<conv, message, contactDeleted, member>>

RemoveWrite(r) ==
  /\ pc[r] = "remove.write"
  /\ conv' = [conv EXCEPT ![local[r].conv].deleted = TRUE]
  /\ Answer(r, local[r], 204)
  /\ UNCHANGED <<message, contactDeleted, member>>

-----------------------------------------------------------------------------
(* GET /conversations, GET /conversations/:id, GET .../messages            *)

\* The inbox query: the tenant's live conversations, with an optional status
\* filter.  The other filters and the pages are left out (the pages are in Inbox).
MutSearchAnyTenant(r) ==
  /\ \E x \in Contexts, s \in Statuses \union {Undefined} :
       /\ Admitted(r, x, "conversation:read")
       /\ Answer(r, [With(x) EXCEPT !.found = {c \in Convs : Live(c) /\ s \in {Undefined, conv[c].status}}],
                 200)
  /\ UNCHANGED <<conv, message, contactDeleted, member>>

Search(r) ==
  /\ \E x \in Contexts, s \in Statuses \union {Undefined} :
       /\ Admitted(r, x, "conversation:read")
       /\ Answer(r, [With(x) EXCEPT !.found = {c \in Convs : FindConversation(x.org, c)
                                                    /\ s \in {Undefined, conv[c].status}}],
                 200)
  /\ UNCHANGED <<conv, message, contactDeleted, member>>

FindOne(r) ==
  /\ \E x \in Contexts, c \in Convs :
       /\ Admitted(r, x, "conversation:read")
       /\ \/ FindConversation(x.org, c)  /\ Answer(r, [With(x) EXCEPT !.found = {c}], 200)
          \/ ~FindConversation(x.org, c) /\ Answer(r, With(x), 404)
  /\ UNCHANGED <<conv, message, contactDeleted, member>>

ListStart(r) ==
  /\ \E x \in Contexts, c \in Convs :
       /\ Admitted(r, x, "message:read")
       /\ \/ FindConversation(x.org, c)  /\ Await(r, "list.read", About(x, c))
          \/ ~FindConversation(x.org, c) /\ Answer(r, With(x), 404)
  /\ UNCHANGED <<conv, message, contactDeleted, member>>

\* listForConversation, pages and direction filter left out.
ListForConversation(org, c) == {m \in Msgs : message[m] = [org |-> org, conv |-> c]}

ListRead(r) ==
  /\ pc[r] = "list.read"
  /\ Answer(r, [local[r] EXCEPT !.found = ListForConversation(local[r].org, local[r].conv)], 200)
  /\ UNCHANGED <<conv, message, contactDeleted, member>>

-----------------------------------------------------------------------------
(* POST /conversations/:id/messages                                        *)

\* Of the row findOne returned the handler keeps the channel, for the job.
SendArgs(x, c) == [About(x, c) EXCEPT !.channel = conv[c].channel]

MutSendStartClosed(r) ==
  /\ \E x \in Contexts, c \in Convs :
       /\ Admitted(r, x, "message:send")
       /\ FindConversation(x.org, c)
       /\ Await(r, "send.commit", SendArgs(x, c))
  /\ UNCHANGED <<conv, message, contactDeleted, member>>

\* The status test is made on that row too.
SendStart(r) ==
  /\ \E x \in Contexts, c \in Convs :
       /\ Admitted(r, x, "message:send")
       /\ \/ ~FindConversation(x.org, c) /\ Answer(r, With(x), 404)
          \/ /\ FindConversation(x.org, c)
             /\ \/ conv[c].status = "closed" /\ Answer(r, With(x), 409)
                \/ conv[c].status # "closed" /\ Await(r, "send.commit", SendArgs(x, c))
  /\ UNCHANGED <<conv, message, contactDeleted, member>>

\* What the transaction makes of the conversation.
Touched(row) == [row EXCEPT !.lastMessageAt = TRUE, !.status = "open"]

\* The $transaction: message.create, then conversation.update by id alone.
SendCommit(r) ==
  /\ pc[r] = "send.commit"
  /\ \E m \in Msgs :
       /\ message[m] = NoMessage
       /\ message' = [message EXCEPT ![m] = [org |-> local[r].org, conv |-> local[r].conv]]
       /\ Await(r, "send.enqueue", [local[r] EXCEPT !.msg = m])
  /\ conv' = [conv EXCEPT ![local[r].conv] = Touched(@)]
  /\ UNCHANGED <<contactDeleted, member>>

\* messageQueue.add resolves; what it does to the queue is in Messaging.
SendEnqueue(r) ==
  /\ pc[r] = "send.enqueue"
  /\ Answer(r, local[r], 201)
  /\ UNCHANGED <<conv, message, contactDeleted, member>>

-----------------------------------------------------------------------------
(* The rest of a request's life, and what changes beside it.               *)

\* The awaited call rejects, or the process dies: the client sees a 5xx or
\* a broken connection, and no later line of the handler runs.
Fail(r) ==
  /\ pc[r] \in Awaits
  /\ Answer(r, local[r], 500)
  /\ UNCHANGED <<conv, message, contactDeleted, member>>

\* The client has the response; the slot is free for another request.
Reply(r) ==
  /\ pc[r] = "done"
  /\ Await(r, "idle", Blank)
  /\ UNCHANGED <<conv, message, contactDeleted, member>>

\* ContactsService.remove.
ContactRemoved(k) ==
  /\ ~contactDeleted[k]
  /\ contactDeleted' = [contactDeleted EXCEPT ![k] = TRUE]
  /\ UNCHANGED <<conv, message, member, pc, local>>

\* Better Auth removes a member, or an invitation is accepted.
MemberChanges(om) ==
  /\ member' = IF om \in member THEN member \ {om} ELSE member \union {om}
  /\ UNCHANGED <<conv, message, contactDeleted, pc, local>>

Handle(r) ==
  \/ Refuse(r)
  \/ CreateStart(r) \/ CreateCheck(r) \/ CreateInsert(r)
  \/ UpdateStart(r) \/ UpdateAssignee(r) \/ UpdateWrite(r)
  \/ RemoveStart(r) \/ RemoveWrite(r)
  \/ Search(r) \/ FindOne(r) \/ ListStart(r) \/ ListRead(r)
  \/ SendStart(r) \/ SendCommit(r) \/ SendEnqueue(r)
  \/ Fail(r) \/ Reply(r)

Environment ==
  \/ \E k \in Contacts : ContactRemoved(k)
  \/ \E om \in Members : MemberChanges(om)

Next == (\E r \in Requests : Handle(r)) \/ Environment

Spec == Init /\ [][Next]_vars

-----------------------------------------------------------------------------
(* Properties.                                                             *)

ConversationRow ==
  [org : Orgs \union {None}, contact : Contacts \union {None},
   channel : Channels \union {None}, status : Statuses \union {"absent"},
   assigned : Users \union {None}, lastMessageAt : BOOLEAN, deleted : BOOLEAN]
MessageRow == [org : Orgs \union {None}, conv : Convs \union {None}]
Locals ==
  [org : Orgs \union {None}, role : Roles, conv : Convs \union {None},
   contact : Contacts \union {None}, channel : Channels \union {None},
   status : Statuses \union {Undefined}, assignee : Users \union {None, Undefined},
   msg : Msgs \union {None}, found : SUBSET (Convs \union Msgs), code : Nat]

\* Every variable has its type.
TypeOK ==
  /\ conv \in [Convs -> ConversationRow]
  /\ message \in [Msgs -> MessageRow]
  /\ contactDeleted \in [Contacts -> BOOLEAN]
  /\ member \subseteq Members
  /\ pc \in [Requests -> Awaits \union {"idle", "done"}]
  /\ local \in [Requests -> Locals]

\* A conversation belongs to the tenant of its contact, and a message to the
\* tenant of its conversation, although no foreign key ties the three
\* organizationId columns together: each is copied from the request context
\* after an earlier scoped read.
TenantAgreement ==
  /\ \A c \in Convs : Exists(c) =>
       /\ conv[c].contact \in Contacts
       /\ conv[c].org = ContactOrg[conv[c].contact]
  /\ \A m \in Msgs : message[m] # NoMessage =>
       /\ message[m].conv \in Convs
       /\ Exists(message[m].conv)
       /\ message[m].org = conv[message[m].conv].org

\* Request r takes this step, on behalf of tenant org.
StepsFor(r, org) == pc'[r] # pc[r] /\ local'[r].org = org

\* A row changes only in a step of a request of the row's own tenant, although
\* the writing statements name the row by id alone: the scoped read is an
\* earlier await.
WritesStayInTenant ==
  [][/\ \A c \in Convs : conv'[c] # conv[c] =>
          \E r \in Requests : StepsFor(r, conv'[c].org)
     /\ \A m \in Msgs : message'[m] # message[m] =>
          \E r \in Requests : StepsFor(r, message'[m].org)]_rows

\* What a request has read, and still holds while other requests run, are rows
\* that are there and belong to its own tenant.
ReadsStayInTenant ==
  \A r \in Requests :
    /\ \A c \in local[r].found \intersect Convs : Exists(c) /\ conv[c].org = local[r].org
    /\ \A m \in local[r].found \intersect Msgs :
         message[m] # NoMessage /\ message[m].org = local[r].org

\* Only a request whose role holds conversation:assign changes the assignee.
\* The route itself asks for conversation:read only, so the handler's own test,
\* two awaits before the write, is all there is.
PermittedAssignment ==
  [][\A c \in Convs : conv'[c].assigned # conv[c].assigned =>
       \E r \in Requests : /\ StepsFor(r, conv[c].org)
                            /\ HasPermission(local[r].role, "conversation:assign")]_conv

\* Nobody who never was a member of the tenant is assigned its conversations:
\* the membership read may be stale when the update runs, never wrong.
AssigneeBelonged ==
  \A c \in Convs : conv[c].assigned \in Users => <<conv[c].org, conv[c].assigned>> \in Members

\* What a suspended handler concluded from its reads and relies on when it
\* resumes is still true then: the contact or conversation it names is one of
\* its tenant (deleted or closed perhaps, but there), the channel it read is the
\* conversation's, the message it is about to enqueue is the one it stored, and a
\* new assignee passed both tests.
Resumes(r) ==
  LET l == local[r] IN
  /\ pc[r] \in {"create.check", "create.insert"} =>
       l.contact \in Contacts /\ l.channel \in Channels /\ ContactOrg[l.contact] = l.org
  /\ pc[r] \in {"update.assignee", "update.write", "remove.write", "list.read", "send.commit"} =>
       l.conv \in Convs /\ Exists(l.conv) /\ conv[l.conv].org = l.org
  /\ pc[r] \in {"send.commit", "send.enqueue"} => l.channel = conv[l.conv].channel
  /\ pc[r] = "send.enqueue" =>
       /\ l.conv \in Convs /\ l.msg \in Msgs
       /\ message[l.msg] = [org |-> l.org, conv |-> l.conv]
  /\ pc[r] \in {"update.assignee", "update.write"} => MayAssign(l.role, l.assignee)
  /\ pc[r] = "update.write" /\ l.assignee \in Users => <<l.org, l.assignee>> \in Members

ResumesInTenant == \A r \in Requests : Resumes(r)

-----------------------------------------------------------------------------
(* What the comments and documents say and the code does not do.           *)

\* "One open conversation per contact per channel."
OneOpenPerContactChannel ==
  \A c, d \in Convs :
    /\ Live(c) /\ conv[c].status = "open"
    /\ Live(d) /\ conv[d].status = "open"
    /\ conv[c].contact = conv[d].contact /\ conv[c].channel = conv[d].channel
    => c = d
=============================================================================
