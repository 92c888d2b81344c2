--------------------------- MODULE MessagingProofs ---------------------------
(***************************************************************************)
(* Proofs about Messaging: what ConversationsProofs and                    *)
(* MessageDispatchProofs prove of the API and of the queue alone holds of  *)
(* the two together, no message is ever added to the queue twice, and      *)
(* every job agrees with the tables.                                       *)
(***************************************************************************)
EXTENDS Messaging, TLAPS

\* The two components again, with their theorems.  The history of Races plays no
\* part here.
A == INSTANCE ConversationsProofs WITH overtaken <- [r \in Requests |-> {}]
Q == INSTANCE MessageDispatchProofs

-----------------------------------------------------------------------------
(* Api and A, Queue and Q are instances of the same module, and an operator *)
(* is the same in both: first the helpers, then the actions built of them. *)

LEMMA AAssumptions == A!RowsAssumption /\ A!NullAssumption
BY MessagingAssumption
   DEF Api!RowsAssumption, A!RowsAssumption, Api!NullAssumption, A!NullAssumption,
       Api!Roles, A!Roles

LEMMA QAssumption == Q!QueueAssumption
BY MessagingAssumption DEF Queue!QueueAssumption, Q!QueueAssumption

LEMMA SameConstants ==
  /\ Api!Blank = A!Blank
  /\ Api!NoConversation = A!NoConversation
  /\ Api!NoMessage = A!NoMessage
  /\ Api!Statuses = A!Statuses
  /\ Api!Awaits = A!Awaits
BY DEF Api!Blank, A!Blank, Api!NoConversation, A!NoConversation, Api!NoMessage, A!NoMessage,
       Api!Statuses, A!Statuses, Api!Awaits, A!Awaits

LEMMA SamePermission ==
  \A role, p : Api!HasPermission(role, p) <=> A!HasPermission(role, p)
BY DEF Api!HasPermission, A!HasPermission, Api!OwnerPermissions, A!OwnerPermissions,
       Api!StaffPermissions, A!StaffPermissions,
       Api!EveryonesPermissions, A!EveryonesPermissions, Api!Roles, A!Roles

LEMMA SameAwait == \A r, at, l : Api!Await(r, at, l) <=> A!Await(r, at, l)
BY DEF Api!Await, A!Await

LEMMA SameAnswer == \A r, l, code : Api!Answer(r, l, code) <=> A!Answer(r, l, code)
<1>1. \A l, code : Api!Response(l, code) = A!Response(l, code)
  BY SameConstants DEF Api!Response, A!Response
<1> QED
  BY <1>1, SameAwait DEF Api!Answer, A!Answer

LEMMA SameWith == \A x : Api!With(x) = A!With(x)
BY SameConstants DEF Api!With, A!With

\* What a request brings along.
LEMMA SameArguments ==
  /\ \A r, x, p : Api!Admitted(r, x, p) <=> A!Admitted(r, x, p)
  /\ \A x, c : Api!About(x, c) = A!About(x, c)
  /\ \A x, c : Api!SendArgs(x, c) = A!SendArgs(x, c)
  /\ \A x, k, ch : Api!CreateArgs(x, k, ch) = A!CreateArgs(x, k, ch)
  /\ \A x, c, s, a : Api!UpdateArgs(x, c, s, a) = A!UpdateArgs(x, c, s, a)
  /\ \A role, a : Api!MayAssign(role, a) <=> A!MayAssign(role, a)
<1>1. \A r, x, p : Api!Admitted(r, x, p) <=> A!Admitted(r, x, p)
  BY SamePermission DEF Api!Admitted, A!Admitted
<1>2. \A x, c : Api!About(x, c) = A!About(x, c)
  BY SameWith DEF Api!About, A!About
<1>3. \A x, k, ch : Api!CreateArgs(x, k, ch) = A!CreateArgs(x, k, ch)
  BY SameWith DEF Api!CreateArgs, A!CreateArgs
<1>4. \A x, c, s, a : Api!UpdateArgs(x, c, s, a) = A!UpdateArgs(x, c, s, a)
  BY SameWith DEF Api!UpdateArgs, A!UpdateArgs
<1>5. \A role, a : Api!MayAssign(role, a) <=> A!MayAssign(role, a)
  BY SamePermission DEF Api!MayAssign, A!MayAssign
<1>6. \A x, c : Api!SendArgs(x, c) = A!SendArgs(x, c)
  BY <1>2 DEF Api!SendArgs, A!SendArgs
<1> QED
  BY <1>1, <1>2, <1>3, <1>4, <1>5, <1>6

\* What a query sees of the tables, and what an update makes of a row.
LEMMA SameRows ==
  /\ \A c : Api!Exists(c) <=> A!Exists(c)
  /\ \A org, c : Api!FindConversation(org, c) <=> A!FindConversation(org, c)
  /\ \A org, k : Api!FindContact(org, k) <=> A!FindContact(org, k)
  /\ \A org, k, ch : Api!OpenThread(org, k, ch) = A!OpenThread(org, k, ch)
  /\ \A org, c : Api!ListForConversation(org, c) = A!ListForConversation(org, c)
  /\ \A row, s, a : Api!Patch(row, s, a) = A!Patch(row, s, a)
  /\ \A row : Api!Touched(row) = A!Touched(row)
<1>1. \A c : Api!Exists(c) <=> A!Exists(c)
  BY DEF Api!Exists, A!Exists
<1>2. \A org, c : Api!FindConversation(org, c) <=> A!FindConversation(org, c)
  BY <1>1 DEF Api!FindConversation, A!FindConversation, Api!Live, A!Live
<1>3. \A org, k : Api!FindContact(org, k) <=> A!FindContact(org, k)
  BY DEF Api!FindContact, A!FindContact
<1>4. \A org, k, ch : Api!OpenThread(org, k, ch) = A!OpenThread(org, k, ch)
  BY <1>2 DEF Api!OpenThread, A!OpenThread
<1>5. \A org, c : Api!ListForConversation(org, c) = A!ListForConversation(org, c)
  BY DEF Api!ListForConversation, A!ListForConversation
<1>6. \A row, s, a : Api!Patch(row, s, a) = A!Patch(row, s, a)
  BY DEF Api!Patch, A!Patch, Api!Patched, A!Patched
<1>7. \A row : Api!Touched(row) = A!Touched(row)
  BY DEF Api!Touched, A!Touched
<1> QED
  BY <1>1, <1>2, <1>3, <1>4, <1>5, <1>6, <1>7

\* UpdateStart branches most: its body is the same for each input first.
LEMMA SameUpdateStart == ASSUME NEW r PROVE Api!UpdateStart(r) <=> A!UpdateStart(r)
<1> DEFINE
      Step(x, c, s, a) ==
        /\ Api!Admitted(r, x, "conversation:read")
        /\ \/ ~Api!FindConversation(x.org, c) /\ Api!Answer(r, Api!With(x), 404)
           \/ /\ Api!FindConversation(x.org, c)
              /\ \/ ~Api!MayAssign(x.role, a) /\ Api!Answer(r, Api!With(x), 403)
                 \/ /\ Api!MayAssign(x.role, a)
                    /\ Api!Await(r, IF a \in Users THEN "update.assignee" ELSE "update.write",
                                 Api!UpdateArgs(x, c, s, a))
      SameStep(x, c, s, a) ==
        /\ A!Admitted(r, x, "conversation:read")
        /\ \/ ~A!FindConversation(x.org, c) /\ A!Answer(r, A!With(x), 404)
           \/ /\ A!FindConversation(x.org, c)
              /\ \/ ~A!MayAssign(x.role, a) /\ A!Answer(r, A!With(x), 403)
                 \/ /\ A!MayAssign(x.role, a)
                    /\ A!Await(r, IF a \in Users THEN "update.assignee" ELSE "update.write",
                               A!UpdateArgs(x, c, s, a))
<1>1. \A x, c, s, a : Step(x, c, s, a) <=> SameStep(x, c, s, a)
  BY SameAwait, SameAnswer, SameWith, SameArguments, SameRows
<1>2. Api!UpdateStart(r) <=>
        /\ \E x \in Contexts, c \in Convs, s \in Api!Statuses \union {Undefined},
              a \in Users \union {None, Undefined} : Step(x, c, s, a)
        /\ UNCHANGED <<conv, message, contactDeleted, member>>
  BY Zenon DEF Api!UpdateStart
<1>3. A!UpdateStart(r) <=>
        /\ \E x \in Contexts, c \in Convs, s \in A!Statuses \union {Undefined},
              a \in Users \union {None, Undefined} : SameStep(x, c, s, a)
        /\ UNCHANGED <<conv, message, contactDeleted, member>>
  BY Zenon DEF A!UpdateStart
<1> HIDE DEF Step, SameStep
<1> QED
  BY <1>1, <1>2, <1>3, SameConstants

\* Every action of the API is an action of A.
LEMMA SameHandle ==
  ASSUME NEW r
  PROVE  /\ Api!SendCommit(r) <=> A!SendCommit(r)
         /\ Api!SendEnqueue(r) <=> A!SendEnqueue(r)
         /\ Api!Fail(r) <=> A!Fail(r)
         /\ Api!Handle(r) <=> A!Handle(r)
<1>1. Api!Refuse(r) <=> A!Refuse(r)
  BY SameConstants, SamePermission, SameAwait, SameAnswer, SameWith, SameArguments, SameRows
  DEF Api!Refuse, A!Refuse
<1>2. Api!CreateStart(r) <=> A!CreateStart(r)
  BY SameConstants, SamePermission, SameAwait, SameAnswer, SameWith, SameArguments, SameRows
  DEF Api!CreateStart, A!CreateStart
<1>3. Api!CreateCheck(r) <=> A!CreateCheck(r)
  BY SameConstants, SamePermission, SameAwait, SameAnswer, SameWith, SameArguments, SameRows
  DEF Api!CreateCheck, A!CreateCheck
<1>4. Api!CreateInsert(r) <=> A!CreateInsert(r)
  BY SameConstants, SamePermission, SameAwait, SameAnswer, SameWith, SameArguments, SameRows
  DEF Api!CreateInsert, A!CreateInsert
<1>5. Api!UpdateAssignee(r) <=> A!UpdateAssignee(r)
  BY SameConstants, SamePermission, SameAwait, SameAnswer, SameWith, SameArguments, SameRows
  DEF Api!UpdateAssignee, A!UpdateAssignee
<1>6. Api!UpdateWrite(r) <=> A!UpdateWrite(r)
  BY SameConstants, SamePermission, SameAwait, SameAnswer, SameWith, SameArguments, SameRows
  DEF Api!UpdateWrite, A!UpdateWrite
<1>7. Api!RemoveStart(r) <=> A!RemoveStart(r)
  BY SameConstants, SamePermission, SameAwait, SameAnswer, SameWith, SameArguments, SameRows
  DEF Api!RemoveStart, A!RemoveStart
<1>8. Api!RemoveWrite(r) <=> A!RemoveWrite(r)
  BY SameConstants, SamePermission, SameAwait, SameAnswer, SameWith, SameArguments, SameRows
  DEF Api!RemoveWrite, A!RemoveWrite
<1>9. Api!Search(r) <=> A!Search(r)
  BY SameConstants, SamePermission, SameAwait, SameAnswer, SameWith, SameArguments, SameRows
  DEF Api!Search, A!Search
<1>10. Api!FindOne(r) <=> A!FindOne(r)
  BY SameConstants, SamePermission, SameAwait, SameAnswer, SameWith, SameArguments, SameRows
  DEF Api!FindOne, A!FindOne
<1>11. Api!ListStart(r) <=> A!ListStart(r)
  BY SameConstants, SamePermission, SameAwait, SameAnswer, SameWith, SameArguments, SameRows
  DEF Api!ListStart, A!ListStart
<1>12. Api!ListRead(r) <=> A!ListRead(r)
  BY SameConstants, SamePermission, SameAwait, SameAnswer, SameWith, SameArguments, SameRows
  DEF Api!ListRead, A!ListRead
<1>13. Api!SendStart(r) <=> A!SendStart(r)
  BY SameConstants, SamePermission, SameAwait, SameAnswer, SameWith, SameArguments, SameRows
  DEF Api!SendStart, A!SendStart
<1>14. Api!SendCommit(r) <=> A!SendCommit(r)
  BY SameConstants, SamePermission, SameAwait, SameAnswer, SameWith, SameArguments, SameRows
  DEF Api!SendCommit, A!SendCommit
<1>15. Api!SendEnqueue(r) <=> A!SendEnqueue(r)
  BY SameConstants, SamePermission, SameAwait, SameAnswer, SameWith, SameArguments, SameRows
  DEF Api!SendEnqueue, A!SendEnqueue
<1>16. Api!Fail(r) <=> A!Fail(r)
  BY SameConstants, SamePermission, SameAwait, SameAnswer, SameWith, SameArguments, SameRows
  DEF Api!Fail, A!Fail
<1>17. Api!Reply(r) <=> A!Reply(r)
  BY SameConstants, SamePermission, SameAwait, SameAnswer, SameWith, SameArguments, SameRows
  DEF Api!Reply, A!Reply
<1> QED
  BY <1>1, <1>2, <1>3, <1>4, <1>5, <1>6, <1>7, <1>8, <1>9, <1>10,
     <1>11, <1>12, <1>13, <1>14, <1>15, <1>16, <1>17, SameUpdateStart
  DEF Api!Handle, A!Handle

LEMMA SameEnvironment == Api!Environment <=> A!Environment
BY DEF Api!Environment, A!Environment, Api!ContactRemoved, A!ContactRemoved,
       Api!MemberChanges, A!MemberChanges

LEMMA SameApi == Api!Spec => A!Spec
<1>1. Api!Init => A!Init
  BY SameConstants DEF Api!Init, A!Init
<1>2. [Api!Next]_(Api!vars) => [A!Next]_(A!vars)
  BY SameHandle, SameEnvironment DEF Api!Next, A!Next, Api!vars, A!vars
<1> QED
  BY <1>1, <1>2, PTL DEF Api!Spec, A!Spec

\* The same for the queue.
LEMMA SameQueueHelpers ==
  /\ \A m, to : Queue!Goes(m, to) <=> Q!Goes(m, to)
  /\ \A f, m : Queue!Inc(f, m) = Q!Inc(f, m)
  /\ \A m : Queue!MarkSent(m) <=> Q!MarkSent(m)
  /\ \A m : Queue!Retried(m) <=> Q!Retried(m)
  /\ \A m : Queue!Bury(m) <=> Q!Bury(m)
  /\ Queue!job = Q!job
<1>1. \A m, to : Queue!Goes(m, to) <=> Q!Goes(m, to)
  BY DEF Queue!Goes, Q!Goes
<1>2. \A f, m : Queue!Inc(f, m) = Q!Inc(f, m)
  BY DEF Queue!Inc, Q!Inc
<1>3. \A m : Queue!MarkSent(m) <=> Q!MarkSent(m)
  BY <1>2 DEF Queue!MarkSent, Q!MarkSent
<1>4. \A m : Queue!Bury(m) <=> Q!Bury(m)
  <2>1. \A S : Queue!Cardinality(S) = Q!Cardinality(S)
    BY DEF Queue!Cardinality, Q!Cardinality
  <2> QED
    BY <1>1, <2>1 DEF Queue!Bury, Q!Bury
<1>5. \A m : Queue!Retried(m) <=> Q!Retried(m)
  BY <1>1, <1>2, <1>4 DEF Queue!Retried, Q!Retried
<1>6. Queue!job = Q!job
  BY DEF Queue!job, Q!job
<1> QED
  BY <1>1, <1>2, <1>3, <1>4, <1>5, <1>6

LEMMA SameQueueSteps ==
  ASSUME NEW m
  PROVE  /\ Queue!Persist(m) <=> Q!Persist(m)
         /\ Queue!Produce(m) <=> Q!Produce(m)
         /\ Queue!Worker(m) <=> Q!Worker(m)
<1>1. Queue!Persist(m) <=> Q!Persist(m)
  BY SameQueueHelpers DEF Queue!Persist, Q!Persist, Queue!job, Q!job
<1>2. Queue!Produce(m) <=> Q!Produce(m)
  BY SameQueueHelpers DEF Queue!Produce, Q!Produce, Queue!Add, Q!Add
<1>3. Queue!Claim(m) <=> Q!Claim(m)
  BY SameQueueHelpers DEF Queue!Claim, Q!Claim
<1>4. Queue!Write(m) <=> Q!Write(m)
  BY SameQueueHelpers DEF Queue!Write, Q!Write
<1>5. Queue!WriteFails(m) <=> Q!WriteFails(m)
  BY SameQueueHelpers DEF Queue!WriteFails, Q!WriteFails
<1>6. Queue!WriteUnacknowledged(m) <=> Q!WriteUnacknowledged(m)
  BY SameQueueHelpers DEF Queue!WriteUnacknowledged, Q!WriteUnacknowledged
<1>7. Queue!Complete(m) <=> Q!Complete(m)
  BY SameQueueHelpers DEF Queue!Complete, Q!Complete
<1>8. Queue!BackoffExpires(m) <=> Q!BackoffExpires(m)
  BY SameQueueHelpers DEF Queue!BackoffExpires, Q!BackoffExpires
<1>9. Queue!Stall(m) <=> Q!Stall(m)
  BY SameQueueHelpers DEF Queue!Stall, Q!Stall
<1>10. Queue!ZombieWrites(m) <=> Q!ZombieWrites(m)
  BY SameQueueHelpers DEF Queue!ZombieWrites, Q!ZombieWrites, Queue!job, Q!job
<1>11. Queue!ZombieFails(m) <=> Q!ZombieFails(m)
  BY SameQueueHelpers DEF Queue!ZombieFails, Q!ZombieFails, Queue!job, Q!job
<1>12. Queue!Replay(m) <=> Q!Replay(m)
  BY SameQueueHelpers DEF Queue!Replay, Q!Replay
<1> QED
  BY <1>1, <1>2, <1>3, <1>4, <1>5, <1>6, <1>7, <1>8, <1>9, <1>10,
     <1>11, <1>12
  DEF Queue!Worker, Q!Worker, Queue!Execution, Q!Execution

LEMMA SameQueue ==
  /\ Queue!Init => Q!Init
  /\ [Queue!Next]_(Queue!vars) => [Q!Next]_(Q!vars)
<1>1. Queue!Init => Q!Init
  BY DEF Queue!Init, Q!Init, Queue!Zero, Q!Zero
<1>2. ASSUME NEW m \in Msgs
      PROVE  (Queue!Persist(m) \/ Queue!Produce(m) \/ Queue!Worker(m))
               => (Q!Persist(m) \/ Q!Produce(m) \/ Q!Worker(m))
  BY SameQueueSteps
<1>3. [Queue!Next]_(Queue!vars) => [Q!Next]_(Q!vars)
  BY <1>2 DEF Queue!Next, Q!Next, Queue!vars, Q!vars, Queue!job, Q!job
<1> QED
  BY <1>1, <1>3

-----------------------------------------------------------------------------
(* The API inside Messaging is the behaviour of module Conversations.      *)

\* Every step of the whole is a step of Conversations or leaves the API alone.
LEMMA ApiStandsAlone == Safety => Api!Spec
<1>1. Init => Api!Init
  BY DEF Init
<1>2. [Next]_vars => [Api!Next]_(Api!vars)
  <2>1. ASSUME NEW r \in Requests, Handle(r) PROVE Api!Handle(r)
    BY <2>1 DEF Handle, ApiStep, SendCommit, SendEnqueue, SendEnqueueUnacknowledged, Api!Handle
  <2>2. ASSUME UNCHANGED apiVars PROVE UNCHANGED Api!vars
    BY <2>2 DEF apiVars, Api!vars
  <2> QED
    BY <2>1, <2>2 DEF Next, Work, Environment, vars, Api!Next
<1> QED
  BY <1>1, <1>2, PTL DEF Safety, Api!Spec

\* So the tenants stay apart while messages travel: every conjunct of the
\* invariant of ConversationsProofs holds here.
LEMMA ApiInvariant == Safety => []A!TenantInv
<1>1. A!Spec => []A!TenantInv
  BY AAssumptions, A!TenantIsolation
<1> QED
  BY <1>1, SameApi, ApiStandsAlone, PTL

-----------------------------------------------------------------------------
(* The two stores.  messageQueue.add asks for nothing: that the queue gets  *)
(* what MessageDispatch assumes of a producer, a job of a stored message,  *)
(* is a fact about the handlers' order of commit and add, proved together  *)
(* with what the queue makes of it.  A message without a row has no job,   *)
(* or SendCommit could reuse an identifier the queue knows already.        *)

StoresAgree ==
  \A m \in Msgs :
    /\ status[m] = "absent" <=> message[m] = Api!NoMessage
    /\ state[m] # "none" => status[m] # "absent"

SendingInv == OneProducerPerMessage /\ StoresAgree

LEMMA InitSending == Init => SendingInv
BY DEF Init, Api!Init, Queue!Init, SendingInv, OneProducerPerMessage, StoresAgree

\* The message that SendCommit persists is the one its handler goes on with.
LEMMA CommitPersists ==
  ASSUME A!TenantInv, NEW r \in Requests, SendCommit(r)
  PROVE  \E m \in Msgs :
           /\ Queue!Persist(m)
           /\ message[m] = Api!NoMessage
           /\ message' = [message EXCEPT ![m] = [org |-> local[r].org, conv |-> local[r].conv]]
           /\ pc' = [pc EXCEPT ![r] = "send.enqueue"]
           /\ local' = [local EXCEPT ![r] = [local[r] EXCEPT !.msg = m]]
           /\ local'[r].msg = m
<1>1. PICK m \in Msgs :
        /\ message[m] = Api!NoMessage
        /\ message' = [message EXCEPT ![m] = [org |-> local[r].org, conv |-> local[r].conv]]
        /\ Api!Await(r, "send.enqueue", [local[r] EXCEPT !.msg = m])
  BY DEF SendCommit, Api!SendCommit
<1>2. local \in [Requests -> A!Locals]
  BY DEF A!TenantInv, A!TypeOK
<1>3. local'[r].msg = m
  BY <1>1, <1>2 DEF Api!Await, A!Locals
<1> QED
  BY <1>1, <1>3 DEF SendCommit, Api!Await

\* A handler that is about to enqueue names a message that is stored.
LEMMA EnqueuesStored ==
  ASSUME A!TenantInv, NEW r \in Requests, pc[r] = "send.enqueue"
  PROVE  local[r].msg \in Msgs /\ message[local[r].msg] # Api!NoMessage
<1>1. /\ local[r].msg \in Msgs
      /\ message[local[r].msg] = [org |-> local[r].org, conv |-> local[r].conv]
      /\ local[r].conv \in Convs
  BY DEF A!TenantInv, A!ResumesInTenant, A!Resumes
<1> QED
  BY <1>1, AAssumptions DEF Api!NoMessage, A!NullAssumption

\* So every step of the whole is a step of the queue, its producer included, or
\* leaves the queue alone.
LEMMA QueueSteps ==
  ASSUME A!TenantInv, SendingInv, [Next]_vars
  PROVE  [Queue!Next]_(Queue!vars)
<1>1. CASE UNCHANGED queueVars
  BY <1>1 DEF queueVars, Queue!vars, Queue!job
<1>2. ASSUME NEW r \in Requests, SendCommit(r) PROVE Queue!Next
  BY <1>2, CommitPersists DEF Queue!Next
<1>3. ASSUME NEW r \in Requests, SendEnqueue(r) \/ SendEnqueueUnacknowledged(r)
      PROVE  Queue!Next
  <2>1. local[r].msg \in Msgs /\ message[local[r].msg] # Api!NoMessage
    BY <1>3, EnqueuesStored DEF SendEnqueue, SendEnqueueUnacknowledged, Api!SendEnqueue
  <2>2. Queue!Add(local[r].msg)
    BY <1>3 DEF SendEnqueue, SendEnqueueUnacknowledged, AddJob
  <2>3. status[local[r].msg] # "absent"
    BY <2>1 DEF SendingInv, StoresAgree
  <2> QED
    BY <2>1, <2>2, <2>3 DEF Queue!Produce, Queue!Next
<1>4. ASSUME NEW m \in Msgs, Work(m) PROVE Queue!Next
  BY <1>4 DEF Work, Queue!Next
<1> QED
  BY <1>1, <1>2, <1>3, <1>4 DEF Next, Handle, ApiStep, Environment, vars

\* A step of the worker gives no job to a message that has none.
LEMMA WorkerFindsJobs ==
  ASSUME Q!DispatchInv, NEW k \in Msgs, Queue!Worker(k), NEW m \in Msgs
  PROVE  /\ state[m] = "none" <=> state'[m] = "none"
         /\ status'[m] = status[m] \/ (state[m] # "none" /\ status'[m] = "sent")
<1> USE QAssumption
<1>1. /\ Q!Worker(k) /\ Q!TypeOK /\ Q!Account(k)
      /\ status \in [Msgs -> {"absent", "queued", "sent", "failed"}]
  BY SameQueueSteps DEF Q!DispatchInv, Q!TypeOK
<1>2. CASE m # k
  BY <1>1, <1>2, Q!StepsAreLocal DEF Q!Elsewhere
<1>3. CASE m = k
  <2> USE DEF Q!JobStates
  <2>1. CASE Q!Claim(k) \/ Q!Complete(k) \/ Q!BackoffExpires(k) \/ Q!Replay(k)
    BY <1>1, <1>3, <2>1, Q!GoesMoves DEF Q!Claim, Q!Complete, Q!BackoffExpires, Q!Replay
  <2>2. CASE Q!Write(k)
    BY <1>1, <1>3, <2>2, Q!GoesMoves DEF Q!Write, Q!MarkSent
  <2>3. CASE Q!WriteFails(k)
    BY <1>1, <1>3, <2>3, Q!GoesMoves, Q!BuryMoves DEF Q!WriteFails, Q!Retried
  <2>4. CASE Q!WriteUnacknowledged(k)
    BY <1>1, <1>3, <2>4, Q!GoesMoves, Q!BuryMoves
       DEF Q!WriteUnacknowledged, Q!MarkSent, Q!Retried
  <2>5. CASE Q!Stall(k)
    BY <1>1, <1>3, <2>5, Q!GoesMoves, Q!BuryMoves DEF Q!Stall
  <2>6. CASE Q!ZombieWrites(k) \/ Q!ZombieFails(k)
    BY <1>1, <1>3, <2>6 DEF Q!ZombieWrites, Q!ZombieFails, Q!MarkSent, Q!job, Q!Account
  <2> QED
    BY <1>1, <2>1, <2>2, <2>3, <2>4, <2>5, <2>6 DEF Q!Worker, Q!Execution
<1> QED
  BY <1>2, <1>3

\* Only SendCommit brings a handler to "send.enqueue", and the other steps of
\* the API create no message.
LEMMA OthersSendNothing ==
  ASSUME A!TenantInv, NEW r \in Requests, ApiStep(r)
  PROVE  /\ message' = message
         /\ \A s \in Requests : pc'[s] = "send.enqueue" =>
              pc[s] = "send.enqueue" /\ local'[s] = local[s]
<1>0. pc \in [Requests -> A!PCs] /\ local \in [Requests -> A!Locals]
  BY DEF A!TenantInv, A!TypeOK, A!PCs
<1>1. \E at, l : at # "send.enqueue" /\ Api!Await(r, at, l)
  <2>1. CASE \/ Api!Refuse(r) \/ Api!CreateCheck(r) \/ Api!CreateInsert(r)
             \/ Api!UpdateAssignee(r) \/ Api!UpdateWrite(r) \/ Api!RemoveWrite(r)
             \/ Api!Search(r) \/ Api!FindOne(r) \/ Api!ListRead(r) \/ Api!Fail(r)
             \/ Api!Reply(r)
    BY <2>1 DEF Api!Refuse, Api!CreateCheck, Api!CreateInsert, Api!UpdateAssignee,
                Api!UpdateWrite, Api!RemoveWrite, Api!Search, Api!FindOne, Api!ListRead,
                Api!Fail, Api!Reply, Api!Answer
  <2>2. CASE \/ Api!CreateStart(r) \/ Api!RemoveStart(r) \/ Api!ListStart(r) \/ Api!SendStart(r)
    BY <2>2 DEF Api!CreateStart, Api!RemoveStart, Api!ListStart, Api!SendStart, Api!Answer
  <2>3. CASE Api!UpdateStart(r)
    BY <2>3 DEF Api!UpdateStart, Api!Answer
  <2> QED
    BY <2>1, <2>2, <2>3 DEF ApiStep
<1>2. message' = message
  BY DEF ApiStep, Api!Refuse, Api!CreateStart, Api!CreateCheck, Api!CreateInsert,
         Api!UpdateStart, Api!UpdateAssignee, Api!UpdateWrite, Api!RemoveStart,
         Api!RemoveWrite, Api!Search, Api!FindOne, Api!ListStart, Api!ListRead,
         Api!SendStart, Api!Fail, Api!Reply
<1> QED
  BY <1>0, <1>1, <1>2 DEF Api!Await

LEMMA ApiStepsSend ==
  ASSUME A!TenantInv, SendingInv, NEW r \in Requests, ApiStep(r)
  PROVE  SendingInv'
<1>1. UNCHANGED queueVars
  BY DEF ApiStep, queueVars
<1> QED
  BY <1>1, OthersSendNothing DEF SendingInv, StoresAgree, OneProducerPerMessage, queueVars,
     Api!NoMessage

\* The transaction takes an identifier that neither a handler nor a job has.
LEMMA CommitsSend ==
  ASSUME A!TenantInv, Q!DispatchInv, SendingInv, NEW r \in Requests, SendCommit(r)
  PROVE  SendingInv'
<1>1. PICK m \in Msgs :
        /\ Queue!Persist(m)
        /\ message[m] = Api!NoMessage
        /\ message' = [message EXCEPT ![m] = [org |-> local[r].org, conv |-> local[r].conv]]
        /\ pc' = [pc EXCEPT ![r] = "send.enqueue"]
        /\ local' = [local EXCEPT ![r] = [local[r] EXCEPT !.msg = m]]
        /\ local'[r].msg = m
  BY CommitPersists
<1>2. state' = state /\ status' = [status EXCEPT ![m] = "queued"]
  BY <1>1 DEF Queue!Persist, Queue!job
<1>3. /\ status \in [Msgs -> {"absent", "queued", "sent", "failed"}]
      /\ message \in [Msgs -> A!MessageRow]
      /\ pc \in [Requests -> A!PCs] /\ local \in [Requests -> A!Locals]
  BY DEF Q!DispatchInv, Q!TypeOK, A!TenantInv, A!TypeOK, A!PCs
<1>4. /\ state[m] = "none"
      /\ \A s \in Requests : pc[s] = "send.enqueue" => local[s].msg # m
  BY <1>1, EnqueuesStored DEF SendingInv, StoresAgree, Queue!Persist
<1>5. message'[m] # Api!NoMessage
  <2>1. local[r].conv \in Convs
    BY DEF SendCommit, Api!SendCommit, A!TenantInv, A!ResumesInTenant, A!Resumes
  <2> QED
    BY <1>1, <1>3, <2>1, AAssumptions DEF Api!NoMessage, A!NullAssumption
<1>6. StoresAgree'
  <2>1. \A n \in Msgs \ {m} : message'[n] = message[n] /\ status'[n] = status[n]
    BY <1>1, <1>2, <1>3
  <2>2. status'[m] = "queued"
    BY <1>2, <1>3
  <2> QED
    BY <1>2, <1>5, <2>1, <2>2 DEF SendingInv, StoresAgree, Api!NoMessage
<1>7. OneProducerPerMessage'
  <2>1. \A s \in Requests \ {r} : pc'[s] = pc[s] /\ local'[s] = local[s]
    BY <1>1, <1>3
  <2> QED
    BY <1>1, <1>2, <1>4, <2>1 DEF SendingInv, OneProducerPerMessage
<1> QED
  BY <1>6, <1>7 DEF SendingInv

\* After the add, acknowledged or not, its handler is no producer any more.
LEMMA EnqueuesSend ==
  ASSUME A!TenantInv, Q!DispatchInv, SendingInv, NEW r \in Requests,
         SendEnqueue(r) \/ SendEnqueueUnacknowledged(r)
  PROVE  SendingInv'
<1> DEFINE m == local[r].msg
<1>1. m \in Msgs /\ message[m] # Api!NoMessage /\ pc[r] = "send.enqueue"
  BY EnqueuesStored DEF SendEnqueue, SendEnqueueUnacknowledged, Api!SendEnqueue
<1>2. /\ status' = status /\ message' = message
      /\ state' = [state EXCEPT ![m] = "waiting"]
      /\ \E code : Api!Answer(r, local[r], code)
  BY DEF SendEnqueue, SendEnqueueUnacknowledged, Api!SendEnqueue, Api!Fail, AddJob, Queue!Add,
         Queue!Goes
<1>3. /\ state \in [Msgs -> Q!JobStates]
      /\ pc \in [Requests -> A!PCs] /\ local \in [Requests -> A!Locals]
  BY DEF Q!DispatchInv, Q!TypeOK, A!TenantInv, A!TypeOK, A!PCs
<1>4. /\ pc'[r] = "done"
      /\ \A s \in Requests \ {r} : pc'[s] = pc[s] /\ local'[s] = local[s]
  BY <1>2, <1>3 DEF Api!Answer, Api!Await
<1>5. StoresAgree'
  BY <1>1, <1>2, <1>3 DEF SendingInv, StoresAgree, Api!NoMessage
<1>6. OneProducerPerMessage'
  <2>1. \A s \in Requests \ {r} : pc[s] = "send.enqueue" => local[s].msg # m
    BY <1>1 DEF SendingInv, OneProducerPerMessage
  <2>2. \A n \in Msgs \ {m} : state'[n] = state[n]
    BY <1>2, <1>3
  <2>3. ASSUME NEW s \in Requests, pc'[s] = "send.enqueue"
        PROVE  s # r /\ pc[s] = "send.enqueue" /\ local'[s] = local[s]
               /\ local[s].msg \in Msgs \ {m}
    BY <1>4, <2>1, <2>3, EnqueuesStored
  <2> QED
    BY <2>2, <2>3 DEF SendingInv, OneProducerPerMessage
<1> QED
  BY <1>5, <1>6 DEF SendingInv

\* The worker has no handler, and gives no message its first job.
LEMMA WorkersSend ==
  ASSUME A!TenantInv, Q!DispatchInv, SendingInv, NEW k \in Msgs, Work(k)
  PROVE  SendingInv'
<1>1. UNCHANGED apiVars /\ Queue!Worker(k)
  BY DEF Work
<1>2. StoresAgree'
  BY <1>1, WorkerFindsJobs DEF SendingInv, StoresAgree, apiVars, Api!NoMessage
<1>3. OneProducerPerMessage'
  <2>1. \A r \in Requests : pc[r] = "send.enqueue" => local[r].msg \in Msgs
    BY EnqueuesStored
  <2> QED
    BY <1>1, <2>1, WorkerFindsJobs DEF SendingInv, OneProducerPerMessage, apiVars
<1> QED
  BY <1>2, <1>3 DEF SendingInv

LEMMA NextSending ==
  A!TenantInv /\ Q!DispatchInv /\ SendingInv /\ [Next]_vars => SendingInv'
<1> SUFFICES ASSUME A!TenantInv, Q!DispatchInv, SendingInv, [Next]_vars PROVE SendingInv'
  OBVIOUS
<1>1. CASE UNCHANGED <<message, pc, local, status, state>>
  BY <1>1 DEF SendingInv, OneProducerPerMessage, StoresAgree, Api!NoMessage
<1>2. ASSUME NEW r \in Requests, Handle(r) PROVE SendingInv'
  BY <1>2, ApiStepsSend, CommitsSend, EnqueuesSend DEF Handle
<1>3. ASSUME NEW m \in Msgs, Work(m) PROVE SendingInv'
  BY <1>3, WorkersSend
<1> QED
  BY <1>1, <1>2, <1>3
  DEF Next, Environment, Api!Environment, Api!ContactRemoved, Api!MemberChanges,
      vars, apiVars, queueVars

\* What is assumed of the producer and what the queue does with its jobs hold
\* together, each by the other.
LEMMA SendingInvariant == Safety => [](SendingInv /\ Q!DispatchInv)
<1>1. Init => SendingInv /\ Q!DispatchInv
  <2>1. Q!Init => Q!DispatchInv
    BY QAssumption, Q!InitDispatch
  <2> QED
    BY <2>1, InitSending, SameQueue DEF Init
<1>2. A!TenantInv /\ SendingInv /\ Q!DispatchInv /\ [Next]_vars
        => (SendingInv /\ Q!DispatchInv)'
  <2>1. Q!DispatchInv /\ [Q!Next]_(Q!vars) => Q!DispatchInv'
    BY QAssumption, Q!NextDispatch
  <2> QED
    BY <2>1, NextSending, QueueSteps, SameQueue
<1> QED
  BY <1>1, <1>2, ApiInvariant, PTL DEF Safety

\* The queue inside Messaging is the behaviour of module MessageDispatch.
LEMMA QueueStandsAlone == Safety => Q!Safety
<1>1. Init => Q!Init
  BY SameQueue DEF Init
<1>2. A!TenantInv /\ SendingInv /\ [Next]_vars => [Q!Next]_(Q!vars)
  BY QueueSteps, SameQueue
<1> QED
  BY <1>1, <1>2, ApiInvariant, SendingInvariant, PTL DEF Safety, Q!Safety

\* No message is added to the queue twice: a handler between commit and add is
\* the only one there with its message, and the message has no job yet.
THEOREM OneProducer == Safety => []OneProducerPerMessage
BY SendingInvariant, PTL DEF SendingInv

-----------------------------------------------------------------------------
(* Jobs and tables.                                                        *)

Data == [org : Orgs \union {None}, conv : Convs \union {None}, channel : Channels \union {None}]

JobsInv == data \in [Msgs -> Data] /\ JobsMatchTheirRows

\* No step changes what a job's data speaks of.
LEMMA StepsKeepRows ==
  ASSUME A!TenantInv, [Next]_vars
  PROVE  A!Keeps
<1>1. CASE UNCHANGED <<conv, message>>
  BY <1>1 DEF A!Keeps, A!Exists
<1>2. ASSUME NEW r \in Requests, Handle(r) PROVE A!Keeps
  <2>1. Api!Handle(r)
    BY <1>2 DEF Handle, ApiStep, SendCommit, SendEnqueue, SendEnqueueUnacknowledged, Api!Handle
  <2>2. A!Handle(r) /\ A!TypeOK
    BY <2>1, SameHandle DEF A!TenantInv
  <2> QED
    BY <2>2, AAssumptions, A!HandlersKeepRows
<1> QED
  BY <1>1, <1>2
  DEF Next, Environment, Api!Environment, Api!ContactRemoved, Api!MemberChanges,
      Work, vars, apiVars

\* The job of m, where it has one, still agrees with the tables.
Matches(m) ==
  /\ message[m] = [org |-> data[m].org, conv |-> data[m].conv]
  /\ data[m].conv \in Convs
  /\ Api!Exists(data[m].conv)
  /\ conv[data[m].conv].org = data[m].org
  /\ conv[data[m].conv].channel = data[m].channel

LEMMA KeptJobsMatch ==
  ASSUME A!Keeps, NEW m \in Msgs, Matches(m), data'[m] = data[m]
  PROVE  Matches(m)'
<1>1. message[m] # A!NoMessage
  BY AAssumptions DEF Matches, A!NoMessage, A!NullAssumption
<1>2. message'[m] = message[m]
  BY <1>1 DEF A!Keeps
<1>3. A!Exists(data[m].conv)
  BY SameRows DEF Matches
<1>4. /\ A!Exists(data[m].conv)'
      /\ conv'[data[m].conv].org = conv[data[m].conv].org
      /\ conv'[data[m].conv].channel = conv[data[m].conv].channel
  BY <1>3 DEF A!Keeps, Matches
<1> QED
  BY <1>2, <1>4 DEF Matches, A!Exists, Api!Exists

\* The handler's locals, from three places, agree with the row it committed.
LEMMA AddedJobMatches ==
  ASSUME A!TenantInv, NEW r \in Requests, pc[r] = "send.enqueue"
  PROVE  LET l == local[r] IN
         /\ message[l.msg] = [org |-> l.org, conv |-> l.conv]
         /\ l.conv \in Convs /\ Api!Exists(l.conv)
         /\ conv[l.conv].org = l.org /\ conv[l.conv].channel = l.channel
         /\ JobData(l) \in Data
<1> DEFINE l == local[r]
<1>1. /\ l.conv \in Convs /\ l.msg \in Msgs
      /\ message[l.msg] = [org |-> l.org, conv |-> l.conv]
      /\ l.channel = conv[l.conv].channel
  BY DEF A!TenantInv, A!ResumesInTenant, A!Resumes
<1>2. message[l.msg] # A!NoMessage
  BY <1>1, AAssumptions DEF A!NoMessage, A!NullAssumption
<1>3. A!Exists(l.conv) /\ conv[l.conv].org = l.org
  BY <1>1, <1>2 DEF A!TenantInv, A!TenantAgreement
<1>4. JobData(l) \in Data
  BY DEF JobData, Data, A!TenantInv, A!TypeOK, A!Locals
<1> QED
  BY <1>1, <1>3, <1>4, SameRows

LEMMA NextJobs ==
  ASSUME A!TenantInv, Q!DispatchInv, JobsInv, [Next]_vars
  PROVE  JobsInv'
<1>0. A!Keeps /\ data \in [Msgs -> Data] /\ \A m \in Msgs : state[m] # "none" => Matches(m)
  BY StepsKeepRows DEF JobsInv, JobsMatchTheirRows, Matches
<1>1. SUFFICES ASSUME TRUE
               PROVE  /\ data' \in [Msgs -> Data]
                      /\ \A m \in Msgs : state'[m] # "none" => Matches(m)'
  BY DEF JobsInv, JobsMatchTheirRows, Matches
<1>2. ASSUME data' = data, \A m \in Msgs : state'[m] # "none" => state[m] # "none"
      PROVE  /\ data' \in [Msgs -> Data]
             /\ \A m \in Msgs : state'[m] # "none" => Matches(m)'
  BY <1>0, <1>2, KeptJobsMatch
<1>3. ASSUME NEW r \in Requests, SendEnqueue(r) \/ SendEnqueueUnacknowledged(r)
      PROVE  /\ data' \in [Msgs -> Data]
             /\ \A m \in Msgs : state'[m] # "none" => Matches(m)'
  <2>1. /\ pc[r] = "send.enqueue" /\ AddJob(local[r].msg, local[r])
        /\ UNCHANGED <<conv, message>>
    BY <1>3 DEF SendEnqueue, SendEnqueueUnacknowledged, Api!SendEnqueue, Api!Fail
  <2>2. PICK n \in Msgs : n = local[r].msg
    BY <2>1, EnqueuesStored
  <2>3. data' = [data EXCEPT ![n] = JobData(local[r])] /\ state' = [state EXCEPT ![n] = "waiting"]
    BY <2>1, <2>2 DEF AddJob, Queue!Add, Queue!Goes
  <2>4. data'[n] = JobData(local[r]) /\ JobData(local[r]) \in Data
    BY <1>0, <2>1, <2>2, <2>3, AddedJobMatches
  <2>5. Matches(n)'
    <3>1. /\ data'[n].org = local[r].org /\ data'[n].conv = local[r].conv
          /\ data'[n].channel = local[r].channel
      BY <2>4 DEF JobData
    <3> QED
      BY <2>1, <2>2, <3>1, AddedJobMatches DEF Matches, Api!Exists
  <2>6. ASSUME NEW m \in Msgs \ {n}, state'[m] # "none" PROVE Matches(m)'
    <3>1. state'[m] = state[m] /\ data'[m] = data[m]
      BY <1>0, <2>3 DEF Q!DispatchInv, Q!TypeOK
    <3> QED
      BY <1>0, <2>6, <3>1, KeptJobsMatch
  <2> QED
    BY <1>0, <2>2, <2>3, <2>4, <2>5, <2>6
<1>4. ASSUME NEW r \in Requests, ApiStep(r) \/ SendCommit(r)
      PROVE  data' = data /\ state' = state
  <2>1. CASE ApiStep(r)
    BY <2>1 DEF ApiStep, queueVars
  <2>2. CASE SendCommit(r)
    BY <2>2 DEF SendCommit, Queue!Persist, Queue!job
  <2> QED
    BY <1>4, <2>1, <2>2
<1>5. ASSUME NEW k \in Msgs, Work(k)
      PROVE  data' = data /\ \A m \in Msgs : state'[m] # "none" => state[m] # "none"
  BY <1>5, WorkerFindsJobs DEF Work
<1>6. ASSUME Environment \/ UNCHANGED vars PROVE data' = data /\ state' = state
  BY <1>6 DEF Environment, vars, queueVars
<1> QED
  BY <1>2, <1>3, <1>4, <1>5, <1>6 DEF Next, Handle

\* A job is never about a message that is not stored, although the two stores share
\* no transaction, and it speaks of the tenant, the conversation and the channel
\* the tables have.
THEOREM JobsMatch == Safety => []JobsMatchTheirRows
<1>1. Init => JobsInv
  BY DEF Init, Queue!Init, NoData, Data, JobsInv, JobsMatchTheirRows
<1>2. A!TenantInv /\ Q!DispatchInv /\ JobsInv /\ [Next]_vars => JobsInv'
  BY NextJobs
<1>3. JobsInv => JobsMatchTheirRows
  BY DEF JobsInv
<1> QED
  BY <1>1, <1>2, <1>3, ApiInvariant, SendingInvariant, PTL DEF Safety

-----------------------------------------------------------------------------
(* What the components promise, the whole keeps.                           *)

\* What ConversationsProofs shows of the tenants holds while messages travel.
THEOREM TenantsStayApart ==
  Safety => [](Api!TenantAgreement /\ Api!ResumesInTenant /\ Api!ReadsStayInTenant)
<1>1. A!TenantAgreement => Api!TenantAgreement
  BY SameRows, SameConstants DEF A!TenantAgreement, Api!TenantAgreement
<1>2. A!ResumesInTenant => Api!ResumesInTenant
  BY SameRows, SameArguments
     DEF A!ResumesInTenant, Api!ResumesInTenant, A!Resumes, Api!Resumes
<1>3. A!ReadsStayInTenant => Api!ReadsStayInTenant
  BY SameRows, SameConstants DEF A!ReadsStayInTenant, Api!ReadsStayInTenant
<1> QED
  BY <1>1, <1>2, <1>3, ApiInvariant, PTL DEF A!TenantInv

\* So do the account of the duplicates and the meaning of a completed job ...
THEOREM DispatchKept ==
  Safety => [](Queue!CompletedMeansSent /\ Queue!DuplicatesExplained)
<1>1. Q!Safety => []Q!CompletedMeansSent
  BY QAssumption, Q!CompletedSent
<1>2. Q!Safety => []Q!DuplicatesExplained
  BY QAssumption, Q!DuplicatesPaid
<1>3. Q!CompletedMeansSent => Queue!CompletedMeansSent
  BY DEF Q!CompletedMeansSent, Queue!CompletedMeansSent
<1>4. Q!DuplicatesExplained => Queue!DuplicatesExplained
  BY DEF Q!DuplicatesExplained, Queue!DuplicatesExplained
<1> QED
  BY <1>1, <1>2, <1>3, <1>4, QueueStandsAlone, PTL

\* ... and the promise of module Delivery: API, queue and worker together accept
\* a message only after it was stored, and once sent it stays sent.
THEOREM SendingKeepsPromise == Safety => Queue!Promise!Safety
<1>1. Q!Safety => Q!Promise!Safety
  BY QAssumption, Q!DeliveryKept
<1>2. Q!Promise!Safety => Queue!Promise!Safety
  <2>1. \A m : Queue!DeliveryPhase(m) = Q!DeliveryPhase(m)
    BY DEF Queue!DeliveryPhase, Q!DeliveryPhase
  <2>2. Q!Promise!Init => Queue!Promise!Init
    BY <2>1 DEF Q!Promise!Init, Queue!Promise!Init
  <2>3. [Q!Promise!Next]_[m \in Msgs |-> Q!DeliveryPhase(m)]
          => [Queue!Promise!Next]_[m \in Msgs |-> Queue!DeliveryPhase(m)]
    <3>1. [m \in Msgs |-> Q!DeliveryPhase(m)] = [m \in Msgs |-> Queue!DeliveryPhase(m)]
      BY <2>1
    <3>2. [m \in Msgs |-> Q!DeliveryPhase(m)]' = [m \in Msgs |-> Queue!DeliveryPhase(m)]'
      BY DEF Queue!DeliveryPhase, Q!DeliveryPhase
    <3>3. ASSUME NEW m, NEW from, NEW to
          PROVE Q!Promise!Move(m, from, to) <=> Queue!Promise!Move(m, from, to)
      BY <3>1, <3>2 DEF Q!Promise!Move, Queue!Promise!Move
    <3>4. Q!Promise!Next => Queue!Promise!Next
      BY <3>3
         DEF Q!Promise!Next, Queue!Promise!Next, Q!Promise!Store, Queue!Promise!Store,
             Q!Promise!Accept, Queue!Promise!Accept, Q!Promise!Send, Queue!Promise!Send,
             Q!Promise!GiveUp, Queue!Promise!GiveUp, Q!Promise!Replay, Queue!Promise!Replay
    <3> QED
      BY <3>1, <3>2, <3>4
  <2> QED
    BY <2>2, <2>3, PTL DEF Q!Promise!Safety, Queue!Promise!Safety
<1> QED
  BY <1>1, <1>2, QueueStandsAlone, PTL
=============================================================================
