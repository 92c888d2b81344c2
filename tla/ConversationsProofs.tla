------------------------ MODULE ConversationsProofs -------------------------
(***************************************************************************)
(* Proofs about Conversations for every set of tenants, contacts, rows and *)
(* requests: type correctness, and that no interleaving of requests mixes  *)
(* tenants, and that what a handler tested is still true when it writes,   *)
(* unless another request has overtaken it.                                *)
(***************************************************************************)
EXTENDS Races, TLAPS

-----------------------------------------------------------------------------
(* How a handler step changes the request's own state.                     *)

PCs == Awaits \union {"idle", "done"}

\* The response keeps the tenant, the message and the rows read.
LEMMA ResponseTyped ==
  ASSUME NEW l \in Locals, NEW code \in Nat
  PROVE  /\ Response(l, code) \in Locals
         /\ Response(l, code).org = l.org
         /\ Response(l, code).msg = l.msg
         /\ Response(l, code).found = l.found
         /\ Response(l, code).code = code
BY DEF Response, Locals, Blank, Roles

\* The locals of a request that has just been admitted are well typed.
LEMMA WithTyped ==
  ASSUME NEW x \in Contexts
  PROVE  /\ With(x) \in Locals
         /\ With(x).org = x.org
         /\ With(x).found = {}
         /\ With(x).msg = None
BY RowsAssumption DEF With, Locals, Blank, Roles

LEMMA AboutTyped ==
  ASSUME NEW x \in Contexts, NEW c \in Convs
  PROVE  /\ About(x, c) \in Locals
         /\ About(x, c).org = x.org /\ About(x, c).conv = c
         /\ About(x, c).found = {}
BY WithTyped DEF About, Locals

LEMMA SendArgsTyped ==
  ASSUME TypeOK, NEW x \in Contexts, NEW c \in Convs
  PROVE  /\ SendArgs(x, c) \in Locals
         /\ SendArgs(x, c).org = x.org /\ SendArgs(x, c).conv = c
         /\ SendArgs(x, c).channel = conv[c].channel
         /\ SendArgs(x, c).found = {}
<1>1. conv[c].channel \in Channels \union {None}
  BY DEF TypeOK, ConversationRow
<1> QED
  BY <1>1, AboutTyped DEF SendArgs, Locals

LEMMA CreateArgsTyped ==
  ASSUME NEW x \in Contexts, NEW k \in Contacts, NEW ch \in Channels
  PROVE  /\ CreateArgs(x, k, ch) \in Locals
         /\ CreateArgs(x, k, ch).org = x.org
         /\ CreateArgs(x, k, ch).contact = k /\ CreateArgs(x, k, ch).channel = ch
         /\ CreateArgs(x, k, ch).found = {}
BY WithTyped DEF CreateArgs, Locals

LEMMA UpdateArgsTyped ==
  ASSUME NEW x \in Contexts, NEW c \in Convs, NEW s \in Statuses \union {Undefined},
         NEW a \in Users \union {None, Undefined}
  PROVE  /\ UpdateArgs(x, c, s, a) \in Locals
         /\ UpdateArgs(x, c, s, a).org = x.org /\ UpdateArgs(x, c, s, a).conv = c
         /\ UpdateArgs(x, c, s, a).role = x.role
         /\ UpdateArgs(x, c, s, a).assignee = a
         /\ UpdateArgs(x, c, s, a).found = {}
<1>1. With(x) \in Locals /\ With(x).org = x.org /\ With(x).found = {}
  BY WithTyped
<1>2. With(x).role = x.role
  BY DEF With, Blank
<1> QED
  BY <1>1, <1>2 DEF UpdateArgs, Locals

LEMMA BlankTyped == Blank \in Locals /\ Blank.found = {}
BY DEF Locals, Blank, Roles

-----------------------------------------------------------------------------
(* Type correctness.                                                       *)

\* The rows the writing statements leave behind are rows, of the same tenant and
\* contact.
LEMMA PatchedRow ==
  ASSUME NEW row \in ConversationRow, NEW s \in Statuses \union {Undefined},
         NEW a \in Users \union {None, Undefined}
  PROVE  /\ Patch(row, s, a) \in ConversationRow
         /\ Patch(row, s, a).org = row.org
         /\ Patch(row, s, a).contact = row.contact
         /\ Patch(row, s, a).channel = row.channel
         /\ Patch(row, s, a).status = Patched(row.status, s)
         /\ Patch(row, s, a).assigned = Patched(row.assigned, a)
<1> DEFINE first == [row EXCEPT !.status = Patched(row.status, s)]
<1>1. /\ Patched(row.status, s) \in Statuses \union {"absent"}
      /\ Patched(row.assigned, a) \in Users \union {None}
  BY DEF Patched, ConversationRow
<1>2. /\ first \in ConversationRow
      /\ first.org = row.org /\ first.contact = row.contact /\ first.channel = row.channel
      /\ first.status = Patched(row.status, s)
  BY <1>1 DEF ConversationRow
<1>3. Patch(row, s, a) = [first EXCEPT !.assigned = Patched(row.assigned, a)]
  BY DEF Patch
<1> QED
  BY <1>1, <1>2, <1>3 DEF ConversationRow

LEMMA TouchedRow ==
  ASSUME NEW row \in ConversationRow
  PROVE  /\ Touched(row) \in ConversationRow
         /\ Touched(row).org = row.org
         /\ Touched(row).contact = row.contact
         /\ Touched(row).channel = row.channel
         /\ Touched(row).status = "open"
         /\ Touched(row).assigned = row.assigned
<1> DEFINE first == [row EXCEPT !.lastMessageAt = TRUE]
<1>1. first \in ConversationRow /\ first.org = row.org /\ first.contact = row.contact
      /\ first.assigned = row.assigned /\ first.channel = row.channel
  BY DEF ConversationRow
<1>2. Touched(row) = [first EXCEPT !.status = "open"]
  BY DEF Touched
<1> QED
  BY <1>1, <1>2 DEF ConversationRow, Statuses

LEMMA InitTyped == Init => TypeOK
BY BlankTyped DEF Init, TypeOK, NoConversation, NoMessage, ConversationRow, MessageRow

\* Every step of a handler moves its request to some place of the program with
\* well-typed locals.
LEMMA HandlerMoves ==
  ASSUME TypeOK, NEW r \in Requests, Handle(r)
  PROVE  \E at \in PCs, l \in Locals : Await(r, at, l)
<1> USE DEF PCs, Awaits
<1>0. local[r] \in Locals
  BY DEF TypeOK
<1>1. CASE Refuse(r)
  <2>1. PICK x \in Contexts : Answer(r, With(x), 403)
    BY <1>1 DEF Refuse
  <2> QED
    BY <2>1, WithTyped, ResponseTyped DEF Answer
<1>2. CASE CreateStart(r)
  <2>1. PICK x \in Contexts, k \in Contacts, ch \in Channels :
          \/ Await(r, "create.check", CreateArgs(x, k, ch))
          \/ Answer(r, With(x), 404)
    BY <1>2 DEF CreateStart
  <2> QED
    BY <2>1, WithTyped, CreateArgsTyped, ResponseTyped DEF Answer
<1>3. CASE CreateCheck(r)
  BY <1>0, <1>3, ResponseTyped DEF CreateCheck, Answer
<1>4. CASE CreateInsert(r)
  BY <1>0, <1>4, ResponseTyped DEF CreateInsert, Answer
<1>5. CASE UpdateStart(r)
  <2>1. PICK x \in Contexts, c \in Convs, s \in Statuses \union {Undefined},
             a \in Users \union {None, Undefined} :
          \/ Answer(r, With(x), 404)
          \/ Answer(r, With(x), 403)
          \/ Await(r, IF a \in Users THEN "update.assignee" ELSE "update.write",
                   UpdateArgs(x, c, s, a))
    BY <1>5 DEF UpdateStart
  <2> QED
    BY <2>1, WithTyped, UpdateArgsTyped, ResponseTyped DEF Answer
<1>6. CASE UpdateAssignee(r)
  BY <1>0, <1>6, ResponseTyped DEF UpdateAssignee, Answer
<1>7. CASE UpdateWrite(r) \/ RemoveWrite(r) \/ SendEnqueue(r) \/ Fail(r)
  <2>1. PICK code \in {200, 204, 201, 500} : Answer(r, local[r], code)
    BY <1>7 DEF UpdateWrite, RemoveWrite, SendEnqueue, Fail
  <2> QED
    BY <1>0, <2>1, ResponseTyped DEF Answer
<1>8. CASE RemoveStart(r) \/ ListStart(r) \/ SendStart(r)
  <2>1. PICK x \in Contexts, c \in Convs :
          \/ Answer(r, With(x), 404)
          \/ Answer(r, With(x), 409)
          \/ \E at \in {"remove.write", "list.read"} : Await(r, at, About(x, c))
          \/ Await(r, "send.commit", SendArgs(x, c))
    BY <1>8 DEF RemoveStart, ListStart, SendStart
  <2> QED
    BY <2>1, WithTyped, AboutTyped, SendArgsTyped, ResponseTyped DEF Answer
<1>9. CASE Search(r)
  <2>1. PICK x \in Contexts, s \in Statuses \union {Undefined} :
          Answer(r, [With(x) EXCEPT !.found = {c \in Convs : FindConversation(x.org, c)
                                                    /\ s \in {Undefined, conv[c].status}}], 200)
    BY <1>9 DEF Search
  <2> DEFINE found == {c \in Convs : FindConversation(x.org, c) /\ s \in {Undefined, conv[c].status}}
  <2>2. [With(x) EXCEPT !.found = found] \in Locals
    BY WithTyped DEF Locals
  <2> QED
    BY <2>1, <2>2, ResponseTyped DEF Answer
<1>10. CASE FindOne(r)
  <2>1. PICK x \in Contexts, c \in Convs :
          Answer(r, [With(x) EXCEPT !.found = {c}], 200) \/ Answer(r, With(x), 404)
    BY <1>10 DEF FindOne
  <2>2. [With(x) EXCEPT !.found = {c}] \in Locals
    BY WithTyped DEF Locals
  <2> QED
    BY <2>1, <2>2, WithTyped, ResponseTyped DEF Answer
<1>11. CASE ListRead(r)
  <2> DEFINE found == ListForConversation(local[r].org, local[r].conv)
  <2>1. Answer(r, [local[r] EXCEPT !.found = found], 200)
    BY <1>11 DEF ListRead
  <2>2. [local[r] EXCEPT !.found = found] \in Locals
    BY <1>0 DEF Locals, ListForConversation
  <2> QED
    BY <2>1, <2>2, ResponseTyped DEF Answer
<1>12. CASE SendCommit(r)
  <2>1. PICK m \in Msgs : Await(r, "send.enqueue", [local[r] EXCEPT !.msg = m])
    BY <1>12 DEF SendCommit
  <2>2. [local[r] EXCEPT !.msg = m] \in Locals
    BY <1>0 DEF Locals
  <2> QED
    BY <2>1, <2>2
<1>13. CASE Reply(r)
  BY <1>13, BlankTyped DEF Reply
<1> QED
  BY <1>1, <1>2, <1>3, <1>4, <1>5, <1>6, <1>7, <1>8, <1>9, <1>10, <1>11, <1>12, <1>13
     DEF Handle

\* The four statements that write the tables leave rows of the tables' types.
LEMMA RowsTyped ==
  ASSUME TypeOK, NEW r \in Requests, Handle(r)
  PROVE  conv' \in [Convs -> ConversationRow] /\ message' \in [Msgs -> MessageRow]
<1>0. local[r] \in Locals
  BY DEF TypeOK
<1>1. CASE UNCHANGED rows
  BY <1>1 DEF TypeOK, rows
<1>2. CASE CreateInsert(r)
  <2>1. PICK c \in Convs :
          conv' = [conv EXCEPT ![c] = [NoConversation EXCEPT
                    !.org = local[r].org, !.contact = local[r].contact,
                    !.channel = local[r].channel, !.status = "open"]]
    BY <1>2 DEF CreateInsert
  <2>2. [NoConversation EXCEPT !.org = local[r].org, !.contact = local[r].contact,
           !.channel = local[r].channel, !.status = "open"] \in ConversationRow
    BY <1>0 DEF NoConversation, ConversationRow, Locals, Statuses
  <2> QED
    BY <1>2, <2>1, <2>2 DEF CreateInsert, TypeOK
<1>3. CASE UpdateWrite(r)
  <2> DEFINE c == local[r].conv
  <2>1. CASE c \notin Convs
    BY <1>3, <2>1 DEF UpdateWrite, TypeOK
  <2>2. CASE c \in Convs
    <3>1. Patch(conv[c], local[r].status, local[r].assignee) \in ConversationRow
      BY <1>0, <2>2, PatchedRow DEF TypeOK, Locals
    <3> QED
      BY <1>3, <2>2, <3>1 DEF UpdateWrite, TypeOK
  <2> QED
    BY <2>1, <2>2
<1>4. CASE RemoveWrite(r)
  BY <1>4 DEF RemoveWrite, TypeOK, ConversationRow
<1>5. CASE SendCommit(r)
  <2>1. message' \in [Msgs -> MessageRow]
    BY <1>0, <1>5 DEF SendCommit, TypeOK, MessageRow, Locals
  <2>2. CASE local[r].conv \notin Convs
    BY <1>5, <2>1, <2>2 DEF SendCommit, TypeOK
  <2>3. CASE local[r].conv \in Convs
    <3>1. conv[local[r].conv] \in ConversationRow
      BY <2>3 DEF TypeOK
    <3>2. Touched(conv[local[r].conv]) \in ConversationRow
      BY <3>1, TouchedRow
    <3> QED
      BY <1>5, <2>1, <2>3, <3>2 DEF SendCommit, TypeOK
  <2> QED
    BY <2>2, <2>3
<1> QED
  BY <1>1, <1>2, <1>3, <1>4, <1>5
  DEF Handle, rows, Refuse, CreateStart, CreateCheck, UpdateStart, UpdateAssignee,
      RemoveStart, Search, FindOne, ListStart, ListRead, SendStart, SendEnqueue, Fail, Reply

\* Handlers write neither contacts nor memberships.
LEMMA HandlersLeaveOthers ==
  ASSUME NEW r \in Requests, Handle(r)
  PROVE  UNCHANGED <<contactDeleted, member>>
BY DEF Handle, Refuse, CreateStart, CreateCheck, CreateInsert, UpdateStart, UpdateAssignee,
       UpdateWrite, RemoveStart, RemoveWrite, Search, FindOne, ListStart, ListRead, SendStart,
       SendCommit, SendEnqueue, Fail, Reply

LEMMA NextTyped == TypeOK /\ [Next]_vars => TypeOK'
<1> SUFFICES ASSUME TypeOK, [Next]_vars PROVE TypeOK'
  OBVIOUS
<1>1. ASSUME NEW r \in Requests, Handle(r) PROVE TypeOK'
  <2>1. PICK at \in PCs, l \in Locals : Await(r, at, l)
    BY <1>1, HandlerMoves
  <2>2. pc' \in [Requests -> PCs] /\ local' \in [Requests -> Locals]
    BY <2>1 DEF Await, TypeOK, PCs
  <2> QED
    BY <1>1, <2>2, RowsTyped, HandlersLeaveOthers DEF TypeOK, PCs
<1>2. ASSUME NEW k \in Contacts, ContactRemoved(k) PROVE TypeOK'
  BY <1>2 DEF ContactRemoved, TypeOK
<1>3. ASSUME NEW om \in Members, MemberChanges(om) PROVE TypeOK'
  BY <1>3 DEF MemberChanges, TypeOK
<1>4. CASE UNCHANGED vars
  BY <1>4 DEF vars, TypeOK
<1> QED
  BY <1>1, <1>2, <1>3, <1>4 DEF Next, Environment

\* Every variable keeps its type, for every number of tenants, contacts, rows and
\* concurrent requests.
THEOREM TypeCorrect == Spec => []TypeOK
BY InitTyped, NextTyped, PTL DEF Spec

-----------------------------------------------------------------------------
(* Tenant isolation.  The inductive invariant is the conjunction of what   *)
(* the tables satisfy and of what suspended handlers rely on: a write names *)
(* its row by id alone, so that the row is the tenant's can only be known  *)
(* from the read the handler made earlier, and only because no other step  *)
(* moves a row between tenants.                                            *)

TenantInv ==
  TypeOK /\ TenantAgreement /\ ResumesInTenant /\ ReadsStayInTenant /\ AssigneeBelonged

\* No step moves a conversation to another tenant, contact or channel, brings a row out of
\* existence, or changes a message.
Keeps ==
  /\ \A c \in Convs : Exists(c) =>
       /\ Exists(c)'
       /\ conv'[c].org = conv[c].org /\ conv'[c].contact = conv[c].contact
       /\ conv'[c].channel = conv[c].channel
  /\ \A m \in Msgs : message[m] # NoMessage => message'[m] = message[m]

LEMMA HandlersKeepRows ==
  ASSUME TypeOK, NEW r \in Requests, Handle(r)
  PROVE  Keeps
<1>0. local[r] \in Locals
  BY DEF TypeOK
<1>1. CASE UNCHANGED rows
  BY <1>1 DEF Keeps, rows, Exists
<1>2. CASE CreateInsert(r)
  BY <1>2 DEF CreateInsert, Keeps, Exists, TypeOK
<1>3. CASE UpdateWrite(r)
  <2>1. SUFFICES ASSUME NEW c \in Convs, Exists(c)
                 PROVE  /\ Exists(c)'
                        /\ conv'[c].org = conv[c].org /\ conv'[c].contact = conv[c].contact
                        /\ conv'[c].channel = conv[c].channel
    BY <1>3 DEF UpdateWrite, Keeps
  <2>2. CASE c # local[r].conv
    BY <1>3, <2>1, <2>2 DEF UpdateWrite, TypeOK, Exists
  <2>3. CASE c = local[r].conv
    <3>1. conv'[c] = Patch(conv[c], local[r].status, local[r].assignee)
      BY <1>3, <2>3 DEF UpdateWrite, TypeOK
    <3>2. /\ conv'[c].org = conv[c].org /\ conv'[c].contact = conv[c].contact
          /\ conv'[c].channel = conv[c].channel
          /\ conv'[c].status = Patched(conv[c].status, local[r].status)
      BY <1>0, <3>1, PatchedRow DEF TypeOK, Locals
    <3>3. conv'[c].status # "absent"
      BY <1>0, <2>1, <3>2 DEF Patched, Exists, Locals, Statuses
    <3> QED
      BY <3>2, <3>3 DEF Exists
  <2> QED
    BY <2>2, <2>3
<1>4. CASE RemoveWrite(r)
  BY <1>4 DEF RemoveWrite, Keeps, Exists, TypeOK, ConversationRow
<1>5. CASE SendCommit(r)
  <2>1. \A m \in Msgs : message[m] # NoMessage => message'[m] = message[m]
    BY <1>5 DEF SendCommit, TypeOK
  <2>2. ASSUME NEW c \in Convs, Exists(c)
        PROVE  /\ Exists(c)'
               /\ conv'[c].org = conv[c].org /\ conv'[c].contact = conv[c].contact
               /\ conv'[c].channel = conv[c].channel
    <3>1. CASE c # local[r].conv
      BY <1>5, <2>2, <3>1 DEF SendCommit, TypeOK, Exists
    <3>2. CASE c = local[r].conv
      <4>1. conv'[c] = Touched(conv[c])
        BY <1>5, <3>2 DEF SendCommit, TypeOK
      <4>2. /\ conv'[c].org = conv[c].org /\ conv'[c].contact = conv[c].contact
            /\ conv'[c].channel = conv[c].channel
            /\ conv'[c].status = "open"
        BY <4>1, TouchedRow DEF TypeOK
      <4> QED
        BY <4>2 DEF Exists
    <3> QED
      BY <3>1, <3>2
  <2> QED
    BY <2>1, <2>2 DEF Keeps
<1> QED
  BY <1>1, <1>2, <1>3, <1>4, <1>5
  DEF Handle, rows, Refuse, CreateStart, CreateCheck, UpdateStart, UpdateAssignee,
      RemoveStart, Search, FindOne, ListStart, ListRead, SendStart, SendEnqueue, Fail, Reply

\* What the tables satisfy survives every handler step.
LEMMA HandlersKeepAgreement ==
  ASSUME TenantInv, NEW r \in Requests, Handle(r)
  PROVE  TenantAgreement'
<1> USE DEF TenantInv
<1>0. local[r] \in Locals /\ Keeps /\ Resumes(r)
  BY HandlersKeepRows DEF TypeOK, ResumesInTenant
<1>1. CASE UNCHANGED rows
  BY <1>1 DEF TenantAgreement, rows, Exists
<1>2. CASE CreateInsert(r)
  <2>1. PICK n \in Convs :
          /\ ~Exists(n)
          /\ conv' = [conv EXCEPT ![n] = [NoConversation EXCEPT
                        !.org = local[r].org, !.contact = local[r].contact,
                        !.channel = local[r].channel, !.status = "open"]]
    BY <1>2 DEF CreateInsert
  <2>2. conv'[n].contact = local[r].contact /\ conv'[n].org = local[r].org
    BY <2>1 DEF TypeOK, NoConversation
  <2>3. \A c \in Convs \ {n} : conv'[c] = conv[c]
    BY <2>1 DEF TypeOK
  <2>4. local[r].contact \in Contacts /\ ContactOrg[local[r].contact] = local[r].org
    BY <1>0, <1>2 DEF Resumes, CreateInsert
  <2>5. \A c \in Convs : Exists(c)' =>
          conv'[c].contact \in Contacts /\ conv'[c].org = ContactOrg[conv'[c].contact]
    BY <2>2, <2>3, <2>4 DEF TenantAgreement, Exists
  <2>6. message' = message
    BY <1>2 DEF CreateInsert
  <2> QED
    BY <1>0, <2>5, <2>6 DEF TenantAgreement, Keeps
<1>3. CASE UpdateWrite(r) \/ RemoveWrite(r)
  <2>1. message' = message
    BY <1>3 DEF UpdateWrite, RemoveWrite
  <2>2. \A c \in Convs : Exists(c)' => Exists(c)
    BY <1>0, <1>3 DEF UpdateWrite, RemoveWrite, Exists, Resumes, TypeOK
  <2> QED
    BY <1>0, <2>1, <2>2 DEF TenantAgreement, Keeps
<1>4. CASE SendCommit(r)
  <2>1. /\ local[r].conv \in Convs /\ Exists(local[r].conv)
        /\ conv[local[r].conv].org = local[r].org
    BY <1>0, <1>4 DEF Resumes, SendCommit
  <2>2. PICK n \in Msgs :
          /\ message[n] = NoMessage
          /\ message' = [message EXCEPT ![n] = [org |-> local[r].org, conv |-> local[r].conv]]
    BY <1>4 DEF SendCommit
  <2>3. \A c \in Convs : Exists(c)' => Exists(c)
    BY <1>4, <2>1 DEF SendCommit, Exists, TypeOK
  <2>4. \A m \in Msgs \ {n} : message'[m] = message[m]
    BY <2>2 DEF TypeOK
  <2>5. message'[n].org = local[r].org /\ message'[n].conv = local[r].conv
    BY <2>2 DEF TypeOK
  <2> QED
    BY <1>0, <2>1, <2>3, <2>4, <2>5 DEF TenantAgreement, Keeps
<1> QED
  BY <1>1, <1>2, <1>3, <1>4
  DEF Handle, rows, Refuse, CreateStart, CreateCheck, UpdateStart, UpdateAssignee,
      RemoveStart, Search, FindOne, ListStart, ListRead, SendStart, SendEnqueue, Fail, Reply

\* A suspended handler's knowledge survives a step of another request.
LEMMA OthersKeepKnowledge ==
  ASSUME TenantInv, Keeps, NEW q \in Requests, Resumes(q), pc'[q] = pc[q], local'[q] = local[q]
  PROVE  Resumes(q)'
<1>1. ASSUME pc[q] \in {"update.assignee", "update.write", "remove.write", "list.read", "send.commit"}
      PROVE  Exists(local[q].conv)' /\ conv'[local[q].conv].org = local[q].org
  BY <1>1 DEF Keeps, Resumes
<1>2. ASSUME pc[q] = "send.enqueue"
      PROVE  message'[local[q].msg] = [org |-> local[q].org, conv |-> local[q].conv]
  <2>1. /\ local[q].conv \in Convs /\ local[q].msg \in Msgs
        /\ message[local[q].msg] = [org |-> local[q].org, conv |-> local[q].conv]
    BY <1>2 DEF Resumes
  <2>2. message[local[q].msg] # NoMessage
    BY <2>1, NullAssumption DEF NoMessage
  <2> QED
    BY <2>1, <2>2 DEF Keeps
<1>3. ASSUME pc[q] \in {"send.commit", "send.enqueue"}
      PROVE  conv'[local[q].conv].channel = local[q].channel
  <2>1. local[q].conv \in Convs /\ local[q].channel = conv[local[q].conv].channel
    BY <1>3 DEF Resumes
  <2>2. CASE pc[q] = "send.commit"
    BY <2>1, <2>2 DEF Resumes, Keeps
  <2>3. CASE pc[q] = "send.enqueue"
    <3>1. /\ local[q].msg \in Msgs
          /\ message[local[q].msg] = [org |-> local[q].org, conv |-> local[q].conv]
      BY <2>3 DEF Resumes
    <3>2. Exists(local[q].conv)
      BY <2>1, <3>1, NullAssumption DEF TenantInv, TenantAgreement, NoMessage
    <3> QED
      BY <2>1, <3>2 DEF Keeps
  <2> QED
    BY <1>3, <2>2, <2>3
<1> QED
  BY <1>1, <1>2, <1>3 DEF Resumes

\* A handler that suspends has just read what it relies on later.
LEMMA StepsRenewKnowledge ==
  ASSUME TenantInv, NEW r \in Requests, Handle(r)
  PROVE  Resumes(r)'
<1> USE DEF TenantInv
<1>0. /\ local[r] \in Locals /\ Keeps /\ Resumes(r)
      /\ pc \in [Requests -> PCs] /\ local \in [Requests -> Locals]
  BY HandlersKeepRows DEF TypeOK, ResumesInTenant, PCs
<1>1. ASSUME pc'[r] \in {"idle", "done"} PROVE Resumes(r)'
  BY <1>1 DEF Resumes
<1>2. CASE CreateStart(r)
  <2>1. PICK x \in Contexts, k \in Contacts, ch \in Channels :
          \/ FindContact(x.org, k) /\ Await(r, "create.check", CreateArgs(x, k, ch))
          \/ Answer(r, With(x), 404)
    BY <1>2 DEF CreateStart
  <2>2. CASE Answer(r, With(x), 404)
    BY <1>0, <1>1, <2>2 DEF Answer, Await
  <2>3. CASE FindContact(x.org, k) /\ Await(r, "create.check", CreateArgs(x, k, ch))
    <3>1. pc'[r] = "create.check" /\ local'[r] = CreateArgs(x, k, ch)
      BY <1>0, <2>3 DEF Await
    <3> QED
      BY <2>3, <3>1, CreateArgsTyped DEF Resumes, FindContact
  <2> QED
    BY <2>1, <2>2, <2>3
<1>3. CASE CreateCheck(r)
  <2>1. pc'[r] = "done" \/ (pc'[r] = "create.insert" /\ local'[r] = local[r])
    BY <1>0, <1>3 DEF CreateCheck, Answer, Await
  <2> QED
    BY <1>0, <1>1, <1>3, <2>1 DEF Resumes, CreateCheck
<1>4. CASE UpdateStart(r)
  <2>1. PICK x \in Contexts, c \in Convs, s \in Statuses \union {Undefined},
             a \in Users \union {None, Undefined} :
          \/ Answer(r, With(x), 404)
          \/ Answer(r, With(x), 403)
          \/ /\ FindConversation(x.org, c) /\ MayAssign(x.role, a)
             /\ Await(r, IF a \in Users THEN "update.assignee" ELSE "update.write",
                      UpdateArgs(x, c, s, a))
    BY <1>4 DEF UpdateStart
  <2>2. CASE Answer(r, With(x), 404) \/ Answer(r, With(x), 403)
    BY <1>0, <1>1, <2>2 DEF Answer, Await
  <2>3. CASE /\ FindConversation(x.org, c) /\ MayAssign(x.role, a)
             /\ Await(r, IF a \in Users THEN "update.assignee" ELSE "update.write",
                      UpdateArgs(x, c, s, a))
    <3>1. /\ pc'[r] = IF a \in Users THEN "update.assignee" ELSE "update.write"
          /\ local'[r] = UpdateArgs(x, c, s, a)
      BY <1>0, <2>3 DEF Await
    <3>2. Exists(c) /\ conv[c].org = x.org
      BY <2>3 DEF FindConversation, Live
    <3>3. Exists(c)' /\ conv'[c].org = x.org
      BY <1>0, <3>2 DEF Keeps
    <3>4. /\ local'[r].org = x.org /\ local'[r].conv = c /\ local'[r].role = x.role
          /\ local'[r].assignee = a
      BY <3>1, UpdateArgsTyped
    <3> QED
      BY <2>3, <3>1, <3>3, <3>4 DEF Resumes
  <2> QED
    BY <2>1, <2>2, <2>3
<1>5. CASE UpdateAssignee(r)
  <2>1. \/ pc'[r] = "done"
        \/ /\ pc'[r] = "update.write" /\ local'[r] = local[r]
           /\ <<local[r].org, local[r].assignee>> \in Members
    BY <1>0, <1>5 DEF UpdateAssignee, Answer, Await, TypeOK
  <2>2. pc[r] = "update.assignee"
    BY <1>5 DEF UpdateAssignee
  <2> QED
    BY <1>0, <1>1, <2>1, <2>2 DEF Resumes, Keeps
<1>6. CASE RemoveStart(r) \/ ListStart(r) \/ SendStart(r)
  <2>1. PICK x \in Contexts, c \in Convs :
          \/ Answer(r, With(x), 404)
          \/ Answer(r, With(x), 409)
          \/ /\ FindConversation(x.org, c)
             /\ \/ \E at \in {"remove.write", "list.read"} : Await(r, at, About(x, c))
                \/ Await(r, "send.commit", SendArgs(x, c))
    BY <1>6 DEF RemoveStart, ListStart, SendStart
  <2>2. CASE Answer(r, With(x), 404) \/ Answer(r, With(x), 409)
    BY <1>0, <1>1, <2>2 DEF Answer, Await
  <2>3. ASSUME FindConversation(x.org, c)
        PROVE  Exists(c)' /\ conv'[c].org = x.org /\ conv'[c].channel = conv[c].channel
    BY <1>0, <2>3 DEF Keeps, FindConversation, Live
  <2>4. CASE /\ FindConversation(x.org, c)
             /\ \E at \in {"remove.write", "list.read"} : Await(r, at, About(x, c))
    <3>1. pc'[r] \in {"remove.write", "list.read"} /\ local'[r] = About(x, c)
      BY <1>0, <2>4 DEF Await
    <3>2. local'[r].org = x.org /\ local'[r].conv = c
      BY <3>1, AboutTyped
    <3> QED
      BY <2>3, <2>4, <3>1, <3>2 DEF Resumes
  <2>5. CASE FindConversation(x.org, c) /\ Await(r, "send.commit", SendArgs(x, c))
    <3>1. pc'[r] = "send.commit" /\ local'[r] = SendArgs(x, c)
      BY <1>0, <2>5 DEF Await
    <3>2. local'[r].org = x.org /\ local'[r].conv = c /\ local'[r].channel = conv[c].channel
      BY <3>1, SendArgsTyped
    <3> QED
      BY <2>3, <2>5, <3>1, <3>2 DEF Resumes
  <2> QED
    BY <2>1, <2>2, <2>4, <2>5
<1>7. CASE SendCommit(r)
  <2>1. PICK m \in Msgs :
          /\ message' = [message EXCEPT ![m] = [org |-> local[r].org, conv |-> local[r].conv]]
          /\ Await(r, "send.enqueue", [local[r] EXCEPT !.msg = m])
    BY <1>7 DEF SendCommit
  <2>2. pc'[r] = "send.enqueue" /\ local'[r] = [local[r] EXCEPT !.msg = m]
    BY <1>0, <2>1 DEF Await
  <2>3. /\ local'[r].org = local[r].org /\ local'[r].conv = local[r].conv
        /\ local'[r].channel = local[r].channel /\ local'[r].msg = m
    BY <1>0, <2>2 DEF Locals
  <2>4. message'[m] = [org |-> local[r].org, conv |-> local[r].conv]
    BY <2>1 DEF TypeOK
  <2>5. /\ local[r].conv \in Convs /\ Exists(local[r].conv)
        /\ local[r].channel = conv[local[r].conv].channel
    BY <1>0, <1>7 DEF Resumes, SendCommit
  <2>6. conv'[local[r].conv].channel = conv[local[r].conv].channel
    BY <1>0, <2>5 DEF Keeps
  <2> QED
    BY <2>2, <2>3, <2>4, <2>5, <2>6 DEF Resumes
<1>8. CASE \/ Refuse(r) \/ CreateInsert(r) \/ UpdateWrite(r) \/ RemoveWrite(r)
           \/ Search(r) \/ FindOne(r) \/ ListRead(r) \/ SendEnqueue(r)
           \/ Fail(r) \/ Reply(r)
  <2>1. pc'[r] \in {"idle", "done"}
    BY <1>0, <1>8 DEF Refuse, CreateInsert, UpdateWrite, RemoveWrite, Search, FindOne,
                      ListRead, SendEnqueue, Fail, Reply, Answer, Await
  <2> QED
    BY <1>1, <2>1
<1> QED
  BY <1>2, <1>3, <1>4, <1>5, <1>6, <1>7, <1>8 DEF Handle

\* What a request holds after a read, it holds in its own tenant.
Holds(r) ==
  /\ \A c \in local[r].found \intersect Convs : Exists(c) /\ conv[c].org = local[r].org
  /\ \A m \in local[r].found \intersect Msgs :
       message[m] # NoMessage /\ message[m].org = local[r].org

LEMMA KeptRowsHold ==
  ASSUME Keeps, NEW r \in Requests, Holds(r),
         local'[r].org = local[r].org, local'[r].found = local[r].found
  PROVE  Holds(r)'
BY DEF Holds, Keeps

LEMMA NothingFoundHolds ==
  ASSUME NEW r \in Requests, local'[r].found = {}
  PROVE  Holds(r)'
BY DEF Holds

LEMMA StepsReadInTenant ==
  ASSUME TenantInv, NEW r \in Requests, Handle(r)
  PROVE  Holds(r)'
<1> USE DEF TenantInv
<1>0. /\ local[r] \in Locals /\ Keeps /\ Resumes(r) /\ Holds(r)
      /\ pc \in [Requests -> PCs] /\ local \in [Requests -> Locals]
  BY HandlersKeepRows DEF TypeOK, ResumesInTenant, ReadsStayInTenant, PCs, Holds
\* A new request, or an answer of one that read nothing.
<1>1. ASSUME NEW l \in Locals, l.found = {},
             \/ \E at \in PCs : Await(r, at, l)
             \/ \E code \in Nat : Answer(r, l, code)
      PROVE  Holds(r)'
  <2>1. local'[r].found = {}
    BY <1>0, <1>1, ResponseTyped DEF Await, Answer
  <2> QED
    BY <2>1, NothingFoundHolds
\* A step that carries the locals on.
<1>2. ASSUME local'[r].org = local[r].org, local'[r].found = local[r].found
      PROVE  Holds(r)'
  BY <1>0, <1>2, KeptRowsHold
<1>answer. ASSUME NEW l \in Locals, Answer(r, l, 200)
       PROVE  local'[r].org = l.org /\ local'[r].found = l.found
  BY <1>0, <1>answer, ResponseTyped DEF Answer, Await
<1>read. ASSUME NEW x \in Contexts, NEW found \in SUBSET (Convs \union Msgs),
              Answer(r, [With(x) EXCEPT !.found = found], 200)
       PROVE  local'[r].org = x.org /\ local'[r].found = found
  <2> DEFINE l == [With(x) EXCEPT !.found = found]
  <2>1. With(x) \in Locals /\ With(x).org = x.org
    BY WithTyped
  <2>2. l \in Locals /\ l.org = x.org /\ l.found = found
    BY <2>1 DEF Locals
  <2>3. Answer(r, l, 200)
    BY <1>read
  <2> HIDE DEF l
  <2> QED
    BY <1>answer, <2>2, <2>3
<1>3. CASE Refuse(r)
  <2>1. PICK x \in Contexts : Answer(r, With(x), 403)
    BY <1>3 DEF Refuse
  <2> QED
    BY <1>1, <2>1, WithTyped
<1>4. CASE CreateStart(r)
  <2>1. PICK x \in Contexts, k \in Contacts, ch \in Channels :
          \/ Await(r, "create.check", CreateArgs(x, k, ch))
          \/ Answer(r, With(x), 404)
    BY <1>4 DEF CreateStart
  <2> QED
    BY <1>1, <2>1, WithTyped, CreateArgsTyped DEF PCs, Awaits
<1>5. CASE UpdateStart(r)
  <2>1. PICK x \in Contexts, c \in Convs, s \in Statuses \union {Undefined},
             a \in Users \union {None, Undefined} :
          \/ Answer(r, With(x), 404)
          \/ Answer(r, With(x), 403)
          \/ Await(r, IF a \in Users THEN "update.assignee" ELSE "update.write",
                   UpdateArgs(x, c, s, a))
    BY <1>5 DEF UpdateStart
  <2> QED
    BY <1>1, <2>1, WithTyped, UpdateArgsTyped DEF PCs, Awaits
<1>6. CASE RemoveStart(r) \/ ListStart(r) \/ SendStart(r)
  <2>1. PICK x \in Contexts, c \in Convs :
          \/ Answer(r, With(x), 404)
          \/ Answer(r, With(x), 409)
          \/ \E at \in {"remove.write", "list.read"} : Await(r, at, About(x, c))
          \/ Await(r, "send.commit", SendArgs(x, c))
    BY <1>6 DEF RemoveStart, ListStart, SendStart
  <2> QED
    BY <1>1, <2>1, WithTyped, AboutTyped, SendArgsTyped DEF PCs, Awaits
<1>7. CASE Reply(r)
  BY <1>1, <1>7, BlankTyped DEF Reply, PCs
<1>8. CASE CreateCheck(r) \/ UpdateAssignee(r) \/ CreateInsert(r) \/ UpdateWrite(r)
           \/ RemoveWrite(r) \/ SendEnqueue(r) \/ Fail(r)
  <2>1. PICK at \in PCs, code \in Nat : Await(r, at, local[r]) \/ Answer(r, local[r], code)
    BY <1>8 DEF CreateCheck, UpdateAssignee, CreateInsert, UpdateWrite, RemoveWrite,
                SendEnqueue, Fail, PCs, Awaits
  <2> QED
    BY <1>0, <1>2, <2>1, ResponseTyped DEF Await, Answer
<1>9. CASE SendCommit(r)
  <2>1. PICK m \in Msgs : Await(r, "send.enqueue", [local[r] EXCEPT !.msg = m])
    BY <1>9 DEF SendCommit
  <2> QED
    BY <1>0, <1>2, <2>1 DEF Await, Locals
<1>10. CASE Search(r)
  <2>1. PICK x \in Contexts, s \in Statuses \union {Undefined} :
          Answer(r, [With(x) EXCEPT !.found = {c \in Convs : FindConversation(x.org, c)
                                                    /\ s \in {Undefined, conv[c].status}}], 200)
    BY <1>10 DEF Search
  <2> DEFINE found == {c \in Convs : FindConversation(x.org, c) /\ s \in {Undefined, conv[c].status}}
  <2>2. found \in SUBSET (Convs \union Msgs)
    OBVIOUS
  <2>3. local'[r].org = x.org /\ local'[r].found = found
    BY <1>0, <1>read, <2>1, <2>2
  <2>4. conv' = conv /\ message' = message
    BY <1>10 DEF Search
  <2> QED
    BY <2>3, <2>4, NullAssumption DEF Holds, FindConversation, Live, Exists
<1>11. CASE FindOne(r)
  <2>1. PICK x \in Contexts, c \in Convs :
          \/ FindConversation(x.org, c) /\ Answer(r, [With(x) EXCEPT !.found = {c}], 200)
          \/ Answer(r, With(x), 404)
    BY <1>11 DEF FindOne
  <2>2. CASE FindConversation(x.org, c) /\ Answer(r, [With(x) EXCEPT !.found = {c}], 200)
    <3>1. local'[r].org = x.org /\ local'[r].found = {c}
      BY <1>read, <2>2
    <3>2. conv' = conv /\ message' = message
      BY <1>11 DEF FindOne
    <3> QED
      BY <2>2, <3>1, <3>2, NullAssumption DEF Holds, FindConversation, Live, Exists
  <2> QED
    BY <1>1, <2>1, <2>2, WithTyped
<1>12. CASE ListRead(r)
  <2> DEFINE found == ListForConversation(local[r].org, local[r].conv)
             l == [local[r] EXCEPT !.found = found]
  <2>1. Answer(r, l, 200) /\ message' = message
    BY <1>12 DEF ListRead
  <2>2. l \in Locals /\ l.org = local[r].org /\ l.found = found
    BY <1>0 DEF Locals, ListForConversation
  <2> HIDE DEF l
  <2>3. local'[r].org = local[r].org /\ local'[r].found = found
    BY <1>answer, <2>1, <2>2
  <2>4. local[r].conv \in Convs
    BY <1>0, <1>12 DEF Resumes, ListRead
  <2>5. \A m \in found : /\ m \in Msgs
                          /\ message[m] = [org |-> local[r].org, conv |-> local[r].conv]
    BY DEF ListForConversation
  <2>6. \A m \in found : message[m] # NoMessage /\ message[m].org = local[r].org
    BY <2>4, <2>5, NullAssumption DEF NoMessage
  <2> QED
    BY <2>1, <2>3, <2>5, <2>6, NullAssumption DEF Holds
<1> QED
  BY <1>3, <1>4, <1>5, <1>6, <1>7, <1>8, <1>9, <1>10, <1>11, <1>12 DEF Handle

-----------------------------------------------------------------------------
(* Assignment.                                                             *)

\* Only update and create write assigned; update writes what UpdateAssignee saw.
LEMMA HandlersAssignMembers ==
  ASSUME TenantInv, NEW r \in Requests, Handle(r)
  PROVE  AssigneeBelonged'
<1> USE DEF TenantInv
<1>0. local[r] \in Locals /\ Keeps /\ Resumes(r)
  BY HandlersKeepRows DEF TypeOK, ResumesInTenant
<1>1. CASE conv' = conv
  BY <1>1 DEF AssigneeBelonged
<1>2. CASE CreateInsert(r)
  <2>1. PICK n \in Convs :
          conv' = [conv EXCEPT ![n] = [NoConversation EXCEPT
                    !.org = local[r].org, !.contact = local[r].contact,
                    !.channel = local[r].channel, !.status = "open"]]
    BY <1>2 DEF CreateInsert
  <2>2. conv'[n].assigned = None
    BY <2>1 DEF TypeOK, NoConversation
  <2>3. \A c \in Convs \ {n} : conv'[c] = conv[c]
    BY <2>1 DEF TypeOK
  <2> QED
    BY <2>2, <2>3, NullAssumption DEF AssigneeBelonged
<1>3. CASE UpdateWrite(r)
  <2> DEFINE n == local[r].conv
  <2>1. n \in Convs /\ conv[n].org = local[r].org
    BY <1>0, <1>3 DEF Resumes, UpdateWrite
  <2>2. conv'[n] = Patch(conv[n], local[r].status, local[r].assignee)
    BY <1>3, <2>1 DEF UpdateWrite, TypeOK
  <2>typed. /\ conv[n] \in ConversationRow /\ local[r].status \in Statuses \union {Undefined}
            /\ local[r].assignee \in Users \union {None, Undefined}
    BY <1>0, <2>1 DEF TypeOK, Locals
  <2>3. conv'[n].org = conv[n].org /\ conv'[n].assigned = Patched(conv[n].assigned, local[r].assignee)
    <3> DEFINE row == Patch(conv[n], local[r].status, local[r].assignee)
    <3>1. row.org = conv[n].org /\ row.assigned = Patched(conv[n].assigned, local[r].assignee)
      BY <2>typed, PatchedRow
    <3> HIDE DEF row
    <3> QED
      BY <2>2, <3>1 DEF row
  <2>4. \A c \in Convs \ {n} : conv'[c] = conv[c]
    BY <1>3 DEF UpdateWrite, TypeOK
  <2>5. local[r].assignee \in Users => <<local[r].org, local[r].assignee>> \in Members
    BY <1>0, <1>3 DEF Resumes, UpdateWrite
  <2> QED
    BY <2>1, <2>3, <2>4, <2>5 DEF AssigneeBelonged, Patched
<1>4. CASE RemoveWrite(r)
  BY <1>4 DEF RemoveWrite, AssigneeBelonged, TypeOK, ConversationRow
<1>5. CASE SendCommit(r)
  <2>1. \A c \in Convs : conv'[c] = conv[c] \/ conv'[c] = Touched(conv[c])
    BY <1>5 DEF SendCommit, TypeOK
  <2>2. \A c \in Convs : conv'[c].org = conv[c].org /\ conv'[c].assigned = conv[c].assigned
    BY <2>1, TouchedRow DEF TypeOK
  <2> QED
    BY <2>2 DEF AssigneeBelonged
<1> QED
  BY <1>1, <1>2, <1>3, <1>4, <1>5
  DEF Handle, Refuse, CreateStart, CreateCheck, UpdateStart, UpdateAssignee,
      RemoveStart, Search, FindOne, ListStart, ListRead, SendStart, SendEnqueue, Fail, Reply

-----------------------------------------------------------------------------
(* The invariant is inductive.                                             *)

LEMMA InitIsolated == Init => TenantInv
BY InitTyped, NullAssumption
   DEF Init, TenantInv, TenantAgreement, ResumesInTenant, Resumes, ReadsStayInTenant,
       AssigneeBelonged, NoConversation, NoMessage, Blank, Exists

\* A handler step keeps the invariant: its own request renews what it relies on,
\* and what the others rely on is untouched.
LEMMA HandlersIsolated ==
  ASSUME TenantInv, NEW r \in Requests, Handle(r)
  PROVE  TenantInv'
<1>1. TypeOK /\ Keeps
  BY HandlersKeepRows DEF TenantInv
<1>2. TypeOK'
  BY <1>1, NextTyped DEF Next
<1>3. PICK at \in PCs, l \in Locals : Await(r, at, l)
  BY <1>1, HandlerMoves
<1>4. \A q \in Requests \ {r} : pc'[q] = pc[q] /\ local'[q] = local[q]
  BY <1>1, <1>3 DEF Await, TypeOK
<1>5. ASSUME NEW q \in Requests PROVE Resumes(q)' /\ Holds(q)'
  <2>1. CASE q = r
    BY <2>1, StepsRenewKnowledge, StepsReadInTenant
  <2>2. CASE q # r
    <3>1. Resumes(q) /\ Holds(q)
      BY DEF TenantInv, ResumesInTenant, ReadsStayInTenant, Holds
    <3> QED
      BY <1>1, <1>4, <2>2, <3>1, OthersKeepKnowledge, KeptRowsHold
  <2> QED
    BY <2>1, <2>2
<1>6. ResumesInTenant' /\ ReadsStayInTenant'
  BY <1>5 DEF ResumesInTenant, ReadsStayInTenant, Holds
<1> QED
  BY <1>2, <1>6, HandlersKeepAgreement, HandlersAssignMembers DEF TenantInv

LEMMA NextIsolated == TenantInv /\ [Next]_vars => TenantInv'
<1> SUFFICES ASSUME TenantInv, [Next]_vars PROVE TenantInv'
  OBVIOUS
<1>1. TypeOK'
  BY NextTyped DEF TenantInv
<1>2. CASE UNCHANGED <<conv, message, pc, local>>
  BY <1>1, <1>2 DEF TenantInv, TenantAgreement, ResumesInTenant, Resumes, ReadsStayInTenant,
                    AssigneeBelonged, Exists
<1>3. ASSUME NEW r \in Requests, Handle(r) PROVE TenantInv'
  BY <1>3, HandlersIsolated
<1> QED
  BY <1>2, <1>3 DEF Next, Environment, ContactRemoved, MemberChanges, vars

\* Rows of two tenants never mix, whatever requests of whatever tenants
\* interleave, fail or die between the scoped read and the unscoped write.
THEOREM TenantIsolation == Spec => []TenantInv
BY InitIsolated, NextIsolated, PTL DEF Spec

\* The organizationId columns of contact, conversation and message agree.
THEOREM RowsAgree == Spec => []TenantAgreement
BY TenantIsolation, PTL DEF TenantInv

\* What a suspended handler relies on is of its tenant when it resumes.
THEOREM HandlersResumeInTenant == Spec => []ResumesInTenant
BY TenantIsolation, PTL DEF TenantInv

\* No response shows a row of another tenant.
THEOREM ReadsIsolated == Spec => []ReadsStayInTenant
BY TenantIsolation, PTL DEF TenantInv

\* An assignee has been a member of the conversation's tenant.
THEOREM AssigneesBelonged == Spec => []AssigneeBelonged
BY TenantIsolation, PTL DEF TenantInv

-----------------------------------------------------------------------------
(* What a step may never do.                                               *)

\* A row that was never inserted is blank: no statement writes one.
AbsentBlank == \A c \in Convs : ~Exists(c) => conv[c] = NoConversation

LEMMA AbsentStayBlank == TenantInv /\ AbsentBlank /\ [Next]_vars => AbsentBlank'
<1> SUFFICES ASSUME TenantInv, AbsentBlank, [Next]_vars PROVE AbsentBlank'
  OBVIOUS
<1>1. CASE conv' = conv
  BY <1>1 DEF AbsentBlank, Exists
<1>2. ASSUME NEW r \in Requests, CreateInsert(r) PROVE AbsentBlank'
  <2>1. PICK n \in Convs :
          conv' = [conv EXCEPT ![n] = [NoConversation EXCEPT
                    !.org = local[r].org, !.contact = local[r].contact,
                    !.channel = local[r].channel, !.status = "open"]]
    BY <1>2 DEF CreateInsert
  <2>2. conv'[n].status = "open" /\ \A c \in Convs \ {n} : conv'[c] = conv[c]
    BY <2>1 DEF TenantInv, TypeOK, NoConversation
  <2> QED
    BY <2>2 DEF AbsentBlank, Exists
<1>3. ASSUME NEW r \in Requests, UpdateWrite(r) \/ RemoveWrite(r) \/ SendCommit(r)
      PROVE  AbsentBlank'
  <2>1. Exists(local[r].conv) /\ Keeps
    BY <1>3, HandlersKeepRows
       DEF TenantInv, ResumesInTenant, Resumes, UpdateWrite, RemoveWrite, SendCommit, Handle
  <2>2. \A c \in Convs : c # local[r].conv => conv'[c] = conv[c]
    BY <1>3 DEF UpdateWrite, RemoveWrite, SendCommit, TenantInv, TypeOK
  <2> QED
    BY <2>1, <2>2 DEF AbsentBlank, Exists, Keeps
<1> QED
  BY <1>1, <1>2, <1>3
  DEF Next, Environment, ContactRemoved, MemberChanges, vars, Handle, Refuse, CreateStart,
      CreateCheck, UpdateStart, UpdateAssignee, RemoveStart, Search, FindOne, ListStart,
      ListRead, SendStart, SendEnqueue, Fail, Reply

\* Every step that changes a row is one of a handler at a writing await.
LEMMA WritersStep ==
  ASSUME TenantInv, [Next]_vars, rows' # rows
  PROVE  \E r \in Requests :
           /\ CreateInsert(r) \/ UpdateWrite(r) \/ RemoveWrite(r) \/ SendCommit(r)
           /\ pc'[r] # pc[r] /\ local'[r].org = local[r].org
<1>1. PICK r \in Requests : CreateInsert(r) \/ UpdateWrite(r) \/ RemoveWrite(r) \/ SendCommit(r)
  BY DEF Next, Environment, ContactRemoved, MemberChanges, vars, rows, Handle, Refuse,
         CreateStart, CreateCheck, UpdateStart, UpdateAssignee, RemoveStart, Search, FindOne,
         ListStart, ListRead, SendStart, SendEnqueue, Fail, Reply
<1>2. local[r] \in Locals /\ pc \in [Requests -> PCs] /\ local \in [Requests -> Locals]
  BY DEF TenantInv, TypeOK, PCs
<1>3. CASE SendCommit(r)
  <2>1. PICK m \in Msgs : pc[r] = "send.commit" /\ Await(r, "send.enqueue", [local[r] EXCEPT !.msg = m])
    BY <1>3 DEF SendCommit
  <2> QED
    BY <1>2, <1>3, <2>1 DEF Await, Locals
<1>4. CASE CreateInsert(r) \/ UpdateWrite(r) \/ RemoveWrite(r)
  <2>1. PICK code \in Nat : pc[r] # "done" /\ Answer(r, local[r], code)
    BY <1>4 DEF CreateInsert, UpdateWrite, RemoveWrite
  <2>2. pc'[r] = "done" /\ local'[r].org = local[r].org
    BY <1>2, <2>1, ResponseTyped DEF Answer, Await
  <2> QED
    BY <1>4, <2>1, <2>2
<1> QED
  BY <1>1, <1>3, <1>4

\* The step of WritesStayInTenant.
LEMMA StepsWriteInTenant ==
  ASSUME TenantInv, [Next]_vars, rows' # rows
  PROVE  /\ \A c \in Convs : conv'[c] # conv[c] =>
              \E r \in Requests : StepsFor(r, conv'[c].org)
         /\ \A m \in Msgs : message'[m] # message[m] =>
              \E r \in Requests : StepsFor(r, message'[m].org)
<1>1. PICK r \in Requests :
        /\ CreateInsert(r) \/ UpdateWrite(r) \/ RemoveWrite(r) \/ SendCommit(r)
        /\ pc'[r] # pc[r] /\ local'[r].org = local[r].org
  BY WritersStep
<1>2. Keeps /\ Resumes(r)
  BY <1>1, HandlersKeepRows DEF Handle, TenantInv, ResumesInTenant
<1>3. CASE CreateInsert(r)
  <2>1. PICK n \in Convs :
          conv' = [conv EXCEPT ![n] = [NoConversation EXCEPT
                    !.org = local[r].org, !.contact = local[r].contact,
                    !.channel = local[r].channel, !.status = "open"]]
    BY <1>3 DEF CreateInsert
  <2>2. conv'[n].org = local[r].org /\ \A c \in Convs \ {n} : conv'[c] = conv[c]
    BY <2>1 DEF TenantInv, TypeOK, NoConversation
  <2> QED
    BY <1>1, <1>3, <2>2 DEF StepsFor, CreateInsert
<1>4. CASE UpdateWrite(r) \/ RemoveWrite(r)
  <2>1. local[r].conv \in Convs /\ Exists(local[r].conv) /\ conv[local[r].conv].org = local[r].org
    BY <1>2, <1>4 DEF Resumes, UpdateWrite, RemoveWrite
  <2>2. \A c \in Convs : c # local[r].conv => conv'[c] = conv[c]
    BY <1>4 DEF UpdateWrite, RemoveWrite, TenantInv, TypeOK
  <2>3. message' = message
    BY <1>4 DEF UpdateWrite, RemoveWrite
  <2> QED
    BY <1>1, <1>2, <2>1, <2>2, <2>3 DEF StepsFor, Keeps
<1>5. CASE SendCommit(r)
  <2>1. local[r].conv \in Convs /\ Exists(local[r].conv) /\ conv[local[r].conv].org = local[r].org
    BY <1>2, <1>5 DEF Resumes, SendCommit
  <2>2. \A c \in Convs : c # local[r].conv => conv'[c] = conv[c]
    BY <1>5 DEF SendCommit, TenantInv, TypeOK
  <2>3. \A m \in Msgs : message'[m] = message[m] \/ message'[m].org = local[r].org
    BY <1>5 DEF SendCommit, TenantInv, TypeOK
  <2> QED
    BY <1>1, <1>2, <2>1, <2>2, <2>3 DEF StepsFor, Keeps
<1> QED
  BY <1>1, <1>3, <1>4, <1>5

\* Every write is made on behalf of the tenant of the row it changes.
THEOREM WritesIsolated == Spec => WritesStayInTenant
<1>1. TenantInv /\ [Next]_vars =>
        [/\ \A c \in Convs : conv'[c] # conv[c] =>
              \E r \in Requests : StepsFor(r, conv'[c].org)
         /\ \A m \in Msgs : message'[m] # message[m] =>
              \E r \in Requests : StepsFor(r, message'[m].org)]_rows
  BY StepsWriteInTenant
<1> QED
  BY <1>1, TenantIsolation, PTL DEF Spec, WritesStayInTenant

\* The step of PermittedAssignment.
LEMMA StepsAssignPermitted ==
  ASSUME TenantInv, AbsentBlank, [Next]_vars, NEW c \in Convs,
         conv'[c].assigned # conv[c].assigned
  PROVE  \E r \in Requests : /\ StepsFor(r, conv[c].org)
                              /\ HasPermission(local[r].role, "conversation:assign")
<1>1. PICK r \in Requests :
        /\ CreateInsert(r) \/ UpdateWrite(r) \/ RemoveWrite(r) \/ SendCommit(r)
        /\ pc'[r] # pc[r] /\ local'[r].org = local[r].org
  BY WritersStep DEF rows
<1>2. Resumes(r) /\ local[r] \in Locals
  BY DEF TenantInv, ResumesInTenant, TypeOK
<1>3. CASE CreateInsert(r)
  <2>1. PICK n \in Convs :
          /\ ~Exists(n)
          /\ conv' = [conv EXCEPT ![n] = [NoConversation EXCEPT
                        !.org = local[r].org, !.contact = local[r].contact,
                        !.channel = local[r].channel, !.status = "open"]]
    BY <1>3 DEF CreateInsert
  <2>2. conv[n].assigned = None /\ conv'[n].assigned = None
    BY <2>1 DEF AbsentBlank, NoConversation, TenantInv, TypeOK
  <2> QED
    BY <2>1, <2>2 DEF TenantInv, TypeOK
<1>4. CASE UpdateWrite(r)
  <2>1. c = local[r].conv /\ conv[c].org = local[r].org
    BY <1>2, <1>4 DEF Resumes, UpdateWrite, TenantInv, TypeOK
  <2>2. conv'[c] = Patch(conv[c], local[r].status, local[r].assignee)
    BY <1>4, <2>1 DEF UpdateWrite, TenantInv, TypeOK
  <2>3. conv'[c].assigned = Patched(conv[c].assigned, local[r].assignee)
    BY <1>2, <2>2, PatchedRow DEF TenantInv, TypeOK, Locals
  <2>4. local[r].assignee # Undefined
    BY <2>3 DEF Patched
  <2>5. HasPermission(local[r].role, "conversation:assign")
    BY <1>2, <1>4, <2>4 DEF Resumes, MayAssign, UpdateWrite
  <2> QED
    BY <1>1, <2>1, <2>5 DEF StepsFor
<1>5. CASE RemoveWrite(r)
  BY <1>5 DEF RemoveWrite, TenantInv, TypeOK, ConversationRow
<1>6. CASE SendCommit(r)
  <2>1. conv'[c] = conv[c] \/ conv'[c] = Touched(conv[c])
    BY <1>6 DEF SendCommit, TenantInv, TypeOK
  <2>2. conv'[c].assigned = conv[c].assigned
    BY <2>1, TouchedRow DEF TenantInv, TypeOK
  <2> QED
    BY <2>2
<1> QED
  BY <1>1, <1>3, <1>4, <1>5, <1>6

\* Nobody without conversation:assign changes an assignee, and whoever does is
\* of the conversation's tenant.
THEOREM AssignmentsPermitted == Spec => PermittedAssignment
<1>1. Init => AbsentBlank
  BY DEF Init, AbsentBlank
<1>2. TenantInv /\ AbsentBlank /\ [Next]_vars =>
        [\A c \in Convs : conv'[c].assigned # conv[c].assigned =>
           \E r \in Requests : /\ StepsFor(r, conv[c].org)
                                /\ HasPermission(local[r].role, "conversation:assign")]_conv
  BY StepsAssignPermitted
<1> QED
  BY <1>1, <1>2, AbsentStayBlank, TenantIsolation, PTL DEF Spec, PermittedAssignment

-----------------------------------------------------------------------------
(* Races.  What a handler concluded from its read is not only of its       *)
(* tenant; it is still true when the handler writes, except of the         *)
(* conversations that another request has written in between.  That those  *)
(* are remembered one by one is what makes the exception inductive: a step *)
(* of another request falsifies a conclusion only about rows it changes.   *)

StillTrue(r) ==
  LET l == local[r] IN
  /\ /\ pc[r] \in {"update.assignee", "update.write", "remove.write", "send.commit"}
     /\ conv[l.conv].deleted
     => l.conv \in overtaken[r]
  /\ pc[r] = "send.commit" /\ conv[l.conv].status = "closed" => l.conv \in overtaken[r]
  /\ pc[r] = "create.insert" => OpenThread(l.org, l.contact, l.channel) \subseteq overtaken[r]

ReadsStillTrue == \A r \in Requests : StillTrue(r)

\* A step with the history is a step without it.
LEMMA RaceSteps ==
  /\ InitRaces => Init
  /\ [NextRaces]_raceVars => [Next]_vars
BY DEF InitRaces, NextRaces, Step, Next, raceVars

LEMMA RacesConverse == RaceSpec => Spec
BY RaceSteps, PTL DEF RaceSpec, Spec

\* The history keeps its type with the rest.
THEOREM RaceTypeCorrect == RaceSpec => []RaceTypeOK
<1>1. InitRaces => RaceTypeOK
  BY InitTyped DEF InitRaces, RaceTypeOK
<1>2. RaceTypeOK /\ [NextRaces]_raceVars => RaceTypeOK'
  <2> SUFFICES ASSUME RaceTypeOK, [NextRaces]_raceVars PROVE RaceTypeOK'
    OBVIOUS
  <2>1. TypeOK'
    BY RaceSteps, NextTyped DEF RaceTypeOK
  <2>2. ASSUME NEW r \in Requests, Notice(r) PROVE overtaken' \in [Requests -> SUBSET Convs]
    BY <2>2 DEF Notice, RaceTypeOK
  <2> QED
    BY <2>1, <2>2 DEF NextRaces, Step, raceVars, RaceTypeOK
<1> QED
  BY <1>1, <1>2, PTL DEF RaceSpec

LEMMA InitStillTrue == InitRaces => ReadsStillTrue
BY DEF InitRaces, Init, ReadsStillTrue, StillTrue

\* A handler's own step leaves it with something true to rely on.
LEMMA StepsStayTrue ==
  ASSUME TenantInv, NEW r \in Requests, Step(r), StillTrue(r)
  PROVE  StillTrue(r)'
<1>0. /\ pc \in [Requests -> PCs] /\ local \in [Requests -> Locals]
      /\ local[r] \in Locals
  BY DEF TenantInv, TypeOK, PCs
<1> USE DEF Step
<1>1. ASSUME pc'[r] \in {"idle", "done", "create.check", "list.read", "send.enqueue"}
      PROVE  StillTrue(r)'
  BY <1>1 DEF StillTrue
<1>2. CASE CreateStart(r)
  <2>1. PICK x \in Contexts, k \in Contacts, ch \in Channels :
          \/ Await(r, "create.check", CreateArgs(x, k, ch))
          \/ Answer(r, With(x), 404)
    BY <1>2 DEF CreateStart
  <2> QED
    BY <1>0, <1>1, <2>1 DEF Answer, Await
<1>3. CASE CreateCheck(r)
  <2>1. CASE Answer(r, local[r], 409)
    BY <1>0, <1>1, <2>1 DEF Answer, Await
  <2>2. CASE /\ OpenThread(local[r].org, local[r].contact, local[r].channel) = {}
             /\ Await(r, "create.insert", local[r])
    <3>1. pc'[r] = "create.insert" /\ local'[r] = local[r] /\ conv' = conv
      BY <1>0, <1>3, <2>2 DEF Await, CreateCheck
    <3>2. OpenThread(local[r].org, local[r].contact, local[r].channel)' = {}
      BY <2>2, <3>1 DEF OpenThread, FindConversation, Live, Exists
    <3> QED
      BY <3>1, <3>2 DEF StillTrue, OpenThread, FindConversation, Live, Exists
  <2> QED
    BY <1>3, <2>1, <2>2 DEF CreateCheck
<1>4. CASE UpdateStart(r)
  <2>1. PICK x \in Contexts, c \in Convs, s \in Statuses \union {Undefined},
             a \in Users \union {None, Undefined} :
          \/ Answer(r, With(x), 404)
          \/ Answer(r, With(x), 403)
          \/ /\ FindConversation(x.org, c)
             /\ Await(r, IF a \in Users THEN "update.assignee" ELSE "update.write",
                      UpdateArgs(x, c, s, a))
    BY <1>4 DEF UpdateStart
  <2>2. CASE Answer(r, With(x), 404) \/ Answer(r, With(x), 403)
    BY <1>0, <1>1, <2>2 DEF Answer, Await
  <2>3. CASE /\ FindConversation(x.org, c)
             /\ Await(r, IF a \in Users THEN "update.assignee" ELSE "update.write",
                      UpdateArgs(x, c, s, a))
    <3>1. /\ pc'[r] \in {"update.assignee", "update.write"}
          /\ local'[r] = UpdateArgs(x, c, s, a)
      BY <1>0, <2>3 DEF Await
    <3>2. local'[r].conv = c /\ conv' = conv /\ ~conv[c].deleted
      BY <1>4, <2>3, <3>1, UpdateArgsTyped DEF UpdateStart, FindConversation, Live
    <3> QED
      BY <3>1, <3>2 DEF StillTrue
  <2> QED
    BY <2>1, <2>2, <2>3
<1>5. CASE UpdateAssignee(r)
  <2>1. pc'[r] = "done" \/ (pc'[r] = "update.write" /\ local'[r] = local[r])
    BY <1>0, <1>5 DEF UpdateAssignee, Answer, Await
  <2>2. /\ pc[r] = "update.assignee" /\ conv' = conv
        /\ overtaken'[r] = overtaken[r]
    BY <1>5 DEF UpdateAssignee, Notice
  <2> QED
    BY <1>1, <2>1, <2>2 DEF StillTrue
<1>6. CASE RemoveStart(r) \/ ListStart(r) \/ SendStart(r)
  <2>1. PICK x \in Contexts, c \in Convs :
          \/ Answer(r, With(x), 404)
          \/ Answer(r, With(x), 409)
          \/ FindConversation(x.org, c) /\ Await(r, "remove.write", About(x, c))
          \/ Await(r, "list.read", About(x, c))
          \/ /\ FindConversation(x.org, c) /\ conv[c].status # "closed"
             /\ Await(r, "send.commit", SendArgs(x, c))
    BY <1>6 DEF RemoveStart, ListStart, SendStart
  <2>2. CASE \/ Answer(r, With(x), 404) \/ Answer(r, With(x), 409)
             \/ Await(r, "list.read", About(x, c))
    BY <1>0, <1>1, <2>2 DEF Answer, Await
  <2>3. CASE FindConversation(x.org, c) /\ Await(r, "remove.write", About(x, c))
    <3>1. pc'[r] = "remove.write" /\ local'[r].conv = c
      BY <1>0, <2>3, AboutTyped DEF Await
    <3>2. conv' = conv /\ ~conv[c].deleted
      BY <1>6, <2>3 DEF RemoveStart, ListStart, SendStart, FindConversation, Live
    <3> QED
      BY <3>1, <3>2 DEF StillTrue
  <2>4. CASE /\ FindConversation(x.org, c) /\ conv[c].status # "closed"
             /\ Await(r, "send.commit", SendArgs(x, c))
    <3>1. pc'[r] = "send.commit" /\ local'[r].conv = c
      BY <1>0, <2>4, SendArgsTyped DEF Await, TenantInv
    <3>2. conv' = conv /\ ~conv[c].deleted
      BY <1>6, <2>4 DEF RemoveStart, ListStart, SendStart, FindConversation, Live
    <3> QED
      BY <2>4, <3>1, <3>2 DEF StillTrue
  <2> QED
    BY <2>1, <2>2, <2>3, <2>4
<1>7. CASE SendCommit(r)
  <2>1. PICK m \in Msgs : Await(r, "send.enqueue", [local[r] EXCEPT !.msg = m])
    BY <1>7 DEF SendCommit
  <2> QED
    BY <1>0, <1>1, <2>1 DEF Await
<1>8. CASE Reply(r)
  BY <1>0, <1>1, <1>8 DEF Reply, Await
<1>9. CASE \/ Refuse(r) \/ CreateInsert(r) \/ UpdateWrite(r) \/ RemoveWrite(r)
           \/ Search(r) \/ FindOne(r) \/ ListRead(r) \/ SendEnqueue(r) \/ Fail(r)
  <2>1. \E l, code : Answer(r, l, code)
    BY <1>9 DEF Refuse, CreateInsert, UpdateWrite, RemoveWrite, Search, FindOne, ListRead,
                SendEnqueue, Fail
  <2> QED
    BY <1>0, <1>1, <2>1 DEF Answer, Await
<1> QED
  BY <1>2, <1>3, <1>4, <1>5, <1>6, <1>7, <1>8, <1>9 DEF Handle

\* A step of another request changes what it is remembered for, and nothing else.
LEMMA OthersStayTrue ==
  ASSUME TenantInv, NEW q \in Requests, Step(q), NEW r \in Requests \ {q}, StillTrue(r)
  PROVE  StillTrue(r)'
<1> DEFINE changed == {c \in Convs : conv'[c] # conv[c]}
<1>1. pc'[r] = pc[r] /\ local'[r] = local[r]
  <2>1. PICK at \in PCs, l \in Locals : Await(q, at, l)
    BY HandlerMoves DEF TenantInv, Step
  <2> QED
    BY <2>1 DEF Await, TenantInv, TypeOK
<1>2. CASE pc[r] \notin Relying
  BY <1>1, <1>2 DEF StillTrue, Relying
<1>3. CASE pc[r] \in Relying
  <2>1. overtaken'[r] = overtaken[r] \union changed
    BY <1>3 DEF Step, Notice
  <2>2. pc[r] # "create.insert" => local[r].conv \in Convs
    BY <1>3 DEF TenantInv, ResumesInTenant, Resumes, Relying
  <2>3. ASSUME pc[r] = "create.insert"
        PROVE  OpenThread(local[r].org, local[r].contact, local[r].channel)'
                 \subseteq overtaken'[r]
    <3>1. OpenThread(local[r].org, local[r].contact, local[r].channel) \subseteq overtaken[r]
      BY <2>3 DEF StillTrue
    <3>2. ASSUME NEW d \in Convs \ changed,
                 d \in OpenThread(local[r].org, local[r].contact, local[r].channel)'
          PROVE  d \in OpenThread(local[r].org, local[r].contact, local[r].channel)
      BY <1>1, <3>2 DEF OpenThread, FindConversation, Live, Exists
    <3> QED
      BY <2>1, <3>1, <3>2 DEF OpenThread
  <2>4. ASSUME pc[r] # "create.insert", local[r].conv \notin overtaken'[r]
        PROVE  conv'[local[r].conv] = conv[local[r].conv] /\ local[r].conv \notin overtaken[r]
    BY <2>1, <2>2, <2>4
  <2>5. pc[r] = "create.insert" => StillTrue(r)'
    BY <1>1, <2>3 DEF StillTrue, OpenThread, FindConversation, Live, Exists
  <2>6. pc[r] # "create.insert" => StillTrue(r)'
    BY <1>1, <2>4 DEF StillTrue
  <2> QED
    BY <2>5, <2>6
<1> QED
  BY <1>2, <1>3

LEMMA NextStillTrue ==
  ASSUME TenantInv, ReadsStillTrue, [NextRaces]_raceVars
  PROVE  ReadsStillTrue'
<1>1. CASE UNCHANGED <<conv, pc, local, overtaken>>
  BY <1>1 DEF ReadsStillTrue, StillTrue, OpenThread, FindConversation, Live, Exists
<1>2. ASSUME NEW r \in Requests, Step(r) PROVE ReadsStillTrue'
  BY <1>2, StepsStayTrue, OthersStayTrue DEF ReadsStillTrue
<1> QED
  BY <1>1, <1>2
     DEF NextRaces, Environment, ContactRemoved, MemberChanges, raceVars, vars

\* What a handler tested is still true when it resumes, of every conversation that no
\* other request has written meanwhile.
THEOREM ReadsStayTrue == RaceSpec => []ReadsStillTrue
<1>1. TenantInv /\ ReadsStillTrue /\ [NextRaces]_raceVars => ReadsStillTrue'
  BY NextStillTrue
<1> QED
  BY <1>1, InitStillTrue, RacesConverse, TenantIsolation, PTL DEF RaceSpec

\* What the writing statements find in the rows they write.
LEMMA WritesFindTrue ==
  ASSUME TenantInv, ReadsStillTrue, [Next]_vars
  PROVE  /\ \A m \in Msgs :
              /\ message'[m] # message[m]
              /\ conv[message'[m].conv].deleted \/ conv[message'[m].conv].status = "closed"
              => \E r \in Requests : Overtaken(r, message'[m].conv)
         /\ \A c \in Convs : Exists(c) /\ conv'[c] # conv[c] /\ conv[c].deleted =>
              \E r \in Requests : Overtaken(r, c)
         /\ \A c \in Convs : ~Exists(c) /\ Exists(c)' =>
              \E r \in Requests :
                \A d \in OpenThread(conv'[c].org, conv'[c].contact, conv'[c].channel) :
                  Overtaken(r, d)
<1>1. CASE UNCHANGED rows
  BY <1>1 DEF rows, Exists
<1>2. CASE rows' # rows
  <2>1. PICK r \in Requests :
          /\ CreateInsert(r) \/ UpdateWrite(r) \/ RemoveWrite(r) \/ SendCommit(r)
          /\ pc'[r] # pc[r]
    BY <1>2, WritersStep
  <2>2. Resumes(r) /\ StillTrue(r) /\ local[r] \in Locals
    BY DEF TenantInv, ResumesInTenant, ReadsStillTrue, TypeOK
  <2>3. CASE CreateInsert(r)
    <3>1. PICK n \in Convs :
            /\ ~Exists(n)
            /\ conv' = [conv EXCEPT ![n] = [NoConversation EXCEPT
                          !.org = local[r].org, !.contact = local[r].contact,
                          !.channel = local[r].channel, !.status = "open"]]
      BY <2>3 DEF CreateInsert
    <3>2. /\ conv'[n].org = local[r].org /\ conv'[n].contact = local[r].contact
          /\ conv'[n].channel = local[r].channel
          /\ \A c \in Convs \ {n} : conv'[c] = conv[c]
      BY <3>1 DEF TenantInv, TypeOK, NoConversation
    <3>3. /\ OpenThread(local[r].org, local[r].contact, local[r].channel) \subseteq overtaken[r]
          /\ message' = message
      BY <2>2, <2>3 DEF StillTrue, CreateInsert
    <3>4. \A d \in OpenThread(conv'[n].org, conv'[n].contact, conv'[n].channel) : Overtaken(r, d)
      BY <2>1, <3>2, <3>3 DEF Overtaken
    <3> QED
      BY <3>1, <3>2, <3>3, <3>4 DEF Exists
  <2>4. CASE UpdateWrite(r) \/ RemoveWrite(r)
    <3>1. /\ Exists(local[r].conv) /\ message' = message
          /\ conv[local[r].conv].deleted => Overtaken(r, local[r].conv)
      BY <2>1, <2>2, <2>4 DEF StillTrue, Resumes, UpdateWrite, RemoveWrite, Overtaken
    <3>2. \A c \in Convs : c # local[r].conv => conv'[c] = conv[c]
      BY <2>4 DEF UpdateWrite, RemoveWrite, TenantInv, TypeOK
    <3> QED
      BY <3>1, <3>2 DEF Exists
  <2>5. CASE SendCommit(r)
    <3>1. /\ Exists(local[r].conv)
          /\ \/ conv[local[r].conv].deleted
             \/ conv[local[r].conv].status = "closed"
             => Overtaken(r, local[r].conv)
      BY <2>1, <2>2, <2>5 DEF StillTrue, Resumes, SendCommit, Overtaken
    <3>2. \A c \in Convs : c # local[r].conv => conv'[c] = conv[c]
      BY <2>5 DEF SendCommit, TenantInv, TypeOK
    <3>3. \A m \in Msgs : message'[m] = message[m] \/ message'[m].conv = local[r].conv
      BY <2>5 DEF SendCommit, TenantInv, TypeOK
    <3> QED
      BY <3>1, <3>2, <3>3 DEF Exists
  <2> QED
    BY <2>1, <2>3, <2>4, <2>5
<1> QED
  BY <1>1, <1>2

\* Whatever requests are in flight, a message enters a closed conversation only if
\* another request wrote it after the sender's status test.
THEOREM SendsToClosedRace == RaceSpec => SendToClosedIsRace
<1>1. TenantInv /\ ReadsStillTrue /\ [Next]_vars =>
        [\A m \in Msgs :
           (message'[m] # message[m] /\ conv[message'[m].conv].status = "closed") =>
             \E r \in Requests : Overtaken(r, message'[m].conv)]_message
  BY WritesFindTrue
<1> QED
  BY <1>1, ReadsStayTrue, RacesConverse, TenantIsolation, PTL DEF Spec, SendToClosedIsRace

\* A deleted conversation is written to only by a handler that was overtaken since it
\* saw the conversation live.
THEOREM WritesToDeletedRace == RaceSpec => WriteToDeletedIsRace
<1>1. ASSUME TenantInv, AbsentBlank, ReadsStillTrue, [Next]_vars
      PROVE  \A c \in Convs :
               (/\ conv[c].deleted
                /\ \/ conv'[c] # conv[c]
                   \/ \E m \in Msgs : message'[m].conv = c /\ message[m].conv # c) =>
                 \E r \in Requests : Overtaken(r, c)
  <2>1. \A c \in Convs : conv[c].deleted => Exists(c)
    BY <1>1 DEF AbsentBlank, NoConversation
  <2> QED
    BY <1>1, <2>1, WritesFindTrue
<1>2. TenantInv /\ AbsentBlank /\ ReadsStillTrue /\ [Next]_vars =>
        [\A c \in Convs :
           (/\ conv[c].deleted
            /\ \/ conv'[c] # conv[c]
               \/ \E m \in Msgs : message'[m].conv = c /\ message[m].conv # c) =>
             \E r \in Requests : Overtaken(r, c)]_rows
  BY <1>1
<1>3. Init => AbsentBlank
  BY DEF Init, AbsentBlank
<1> QED
  BY <1>2, <1>3, AbsentStayBlank, ReadsStayTrue, RacesConverse, TenantIsolation, PTL
     DEF Spec, WriteToDeletedIsRace

\* A second open conversation of a contact on a channel is inserted only beside
\* conversations that other requests wrote since the handler found none.
THEOREM SecondOpensRace == RaceSpec => SecondOpenIsRace
<1>1. TenantInv /\ ReadsStillTrue /\ [Next]_vars =>
        [\A c \in Convs : (~Exists(c) /\ Exists(c)') =>
           \E r \in Requests :
             \A d \in OpenThread(conv'[c].org, conv'[c].contact, conv'[c].channel) :
               Overtaken(r, d)]_conv
  BY WritesFindTrue
<1> QED
  BY <1>1, ReadsStayTrue, RacesConverse, TenantIsolation, PTL DEF Spec, SecondOpenIsRace
=============================================================================
