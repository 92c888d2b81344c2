------------------------------ MODULE Messaging ------------------------------
(***************************************************************************)
(* Conversations and MessageDispatch together: sendMessage stores the      *)
(* message in PostgreSQL and, two awaits later, adds its job to the queue  *)
(* in Redis.  The two stores share no transaction, so everything between   *)
(* the commit and the add (a Redis error, a crash of the process) is seen  *)
(* here and in neither module alone.                                       *)
(***************************************************************************)
EXTENDS Rbac, FiniteSets

CONSTANTS
  Orgs, Users, Contacts, ContactOrg, Channels, Convs, Msgs, Requests, Contexts,
  Members, None, Undefined,                        \* of Conversations
  Attempts, KeepFailed, MaxStalls, MaxReplays      \* of MessageDispatch

VARIABLES
  conv, message, contactDeleted, member, pc, local,
  status, writes, state, attempts, stalls, zombies, replays, incidents,
  data       \* job.data of the message's job, beside the message's id

Api == INSTANCE Conversations
Queue == INSTANCE MessageDispatch

\* The constants satisfy what the two modules ask of theirs.
ASSUME MessagingAssumption ==
  Api!RowsAssumption /\ Api!NullAssumption /\ Queue!QueueAssumption

apiVars == <<conv, message, contactDeleted, member, pc, local>>
queueVars == <<status, writes, state, attempts, stalls, zombies, replays, incidents>>
vars == <<apiVars, queueVars, data>>

\* MessageDispatchJobData: what the worker is told beside the message's id.
NoData == [org |-> None, conv |-> None, channel |-> None]
JobData(l) == [org |-> l.org, conv |-> l.conv, channel |-> l.channel]

Init == Api!Init /\ Queue!Init /\ data = [m \in Msgs |-> NoData]

\* messageQueue.add: a job for message m, with what the handler's locals say.
AddJob(m, l) == Queue!Add(m) /\ data' = [data EXCEPT ![m] = JobData(l)]

MutSendCommitEnqueuesFirst(r) ==
  /\ pc[r] = "send.commit"
  /\ \E m \in Msgs :
       /\ message[m] = Api!NoMessage
       /\ AddJob(m, local[r])
       /\ Api!Await(r, "send.enqueue", [local[r] EXCEPT !.msg = m])
  /\ UNCHANGED <<conv, message, contactDeleted, member>>

\* The transaction creates the row with status 'queued'.
SendCommit(r) == Api!SendCommit(r) /\ Queue!Persist(local'[r].msg) /\ UNCHANGED data

\* messageQueue.add resolves: the job is in Redis, the client gets its 201.
MutSendEnqueueForgotten(r) == Api!SendEnqueue(r) /\ UNCHANGED <<queueVars, data>>
SendEnqueue(r) == Api!SendEnqueue(r) /\ AddJob(local[r].msg, local[r])

MutSendEnqueueRetriesAdd(r) ==
  /\ pc[r] = "send.enqueue"
  /\ AddJob(local[r].msg, local[r])
  /\ UNCHANGED apiVars

\* messageQueue.add rejects although Redis executed it: 500, and yet a job.
SendEnqueueUnacknowledged(r) ==
  /\ pc[r] = "send.enqueue"
  /\ Api!Fail(r)
  /\ AddJob(local[r].msg, local[r])

\* The other steps of the handlers leave the queue alone.
ApiStep(r) ==
  /\ \/ Api!Refuse(r)
     \/ Api!CreateStart(r) \/ Api!CreateCheck(r) \/ Api!CreateInsert(r)
     \/ Api!UpdateStart(r) \/ Api!UpdateAssignee(r) \/ Api!UpdateWrite(r)
     \/ Api!RemoveStart(r) \/ Api!RemoveWrite(r)
     \/ Api!Search(r) \/ Api!FindOne(r) \/ Api!ListStart(r) \/ Api!ListRead(r)
     \/ Api!SendStart(r) \/ Api!Fail(r) \/ Api!Reply(r)
  /\ UNCHANGED <<queueVars, data>>

Handle(r) ==
  ApiStep(r) \/ SendCommit(r) \/ SendEnqueue(r) \/ SendEnqueueUnacknowledged(r)

Environment == Api!Environment /\ UNCHANGED <<queueVars, data>>

Work(m) == Queue!Worker(m) /\ UNCHANGED <<apiVars, data>>

Next ==
  \/ \E r \in Requests : Handle(r)
  \/ \E m \in Msgs : Work(m)
  \/ Environment

Safety == Init /\ [][Next]_vars

\* The event loop runs a handler to its answer, and the worker is fair.
Fairness ==
  /\ \A r \in Requests : WF_vars(pc[r] \in Api!Awaits /\ Handle(r))
  /\ \A m \in Msgs : /\ WF_vars(Queue!Claim(m) /\ UNCHANGED <<apiVars, data>>)
                     /\ WF_vars(Queue!Execution(m) /\ UNCHANGED <<apiVars, data>>)
                     /\ WF_vars(Queue!Complete(m) /\ UNCHANGED <<apiVars, data>>)
                     /\ WF_vars(Queue!BackoffExpires(m) /\ UNCHANGED <<apiVars, data>>)

Spec == Safety /\ Fairness

-----------------------------------------------------------------------------
(* Properties.                                                             *)

Settled(m) == status[m] = "sent" \/ state[m] \in {"failed", "removed"}

\* A handler between commit and add is the only one that will add this job:
\* no message is enqueued twice, whatever the requests in flight do.
OneProducerPerMessage ==
  \A r, s \in Requests :
    (pc[r] = "send.enqueue" /\ pc[s] = "send.enqueue" /\ local[r].msg = local[s].msg)
      => r = s /\ state[local[r].msg] = "none"

\* An accepted message is eventually sent or in the dead-letter queue.
AcceptedIsSettled ==
  \A m \in Msgs :
    (\E r \in Requests : pc[r] = "done" /\ local[r].code = 201 /\ local[r].msg = m) ~> Settled(m)

\* "a background job dispatches it": every message that is stored is eventually
\* sent or in the dead-letter queue.
StoredIsSettled == \A m \in Msgs : (message[m] # Api!NoMessage) ~> Settled(m)

\* Whatever job there is, the message it names is stored, and what the job says of
\* its tenant, conversation and channel is what the tables say.  Nothing but the
\* order of two awaits puts the row before the job, and the three come from three
\* places: the request context, the URL, and a row read two awaits earlier.
JobsMatchTheirRows ==
  \A m \in Msgs : state[m] # "none" =>
    /\ message[m] = [org |-> data[m].org, conv |-> data[m].conv]
    /\ data[m].conv \in Convs
    /\ Api!Exists(data[m].conv)
    /\ conv[data[m].conv].org = data[m].org
    /\ conv[data[m].conv].channel = data[m].channel
=============================================================================
