--------------------------- MODULE MessageDispatch ---------------------------
(***************************************************************************)
(* The message-dispatch queue and its worker.  QueuesModule configures the *)
(* queue (attempts, backoff, how many failed jobs are kept), BullMQ, which *)
(* is external, runs the jobs, and MessageDispatchProcessor.process is the *)
(* code a job runs: one update of the message row.                         *)
(*                                                                         *)
(* A worker holds a lock on the job it runs and renews it; when the        *)
(* process dies or its event loop is blocked the lock expires and the job  *)
(* is STALLED: another execution starts.  The first one may be alive, and  *)
(* then it still performs its update: it is a ZOMBIE.                      *)
(***************************************************************************)
EXTENDS Naturals, FiniteSets

CONSTANTS
  Msgs,        \* messages; the job of a message carries its id
  Attempts,    \* defaultJobOptions.attempts
  KeepFailed,  \* defaultJobOptions.removeOnFail.count: size of the DLQ
  MaxStalls,   \* BullMQ's maxStalledCount
  MaxReplays   \* bound: times an operator retries a failed job

ASSUME QueueAssumption ==
  /\ Attempts \in Nat \ {0}
  /\ KeepFailed \in Nat \ {0}
  /\ MaxStalls \in Nat
  /\ MaxReplays \in Nat

VARIABLES
  status,    \* message.status
  writes,    \* how often the message row was marked sent; each time with
             \* a new externalId (in Phase 6: how often the provider was called)
  state,     \* state of the message's job in Redis
  attempts,  \* attemptsMade of the job
  stalls,    \* its stalled counter
  zombies,   \* executions the queue gave up on that have yet to write
  replays,   \* how often an operator retried the job
  incidents  \* history: failures, stalls and replays of the job so far

job == <<state, attempts, stalls, replays>>
vars == <<status, writes, state, attempts, stalls, zombies, replays, incidents>>

\* "written" is a running execution whose update is done and whose completion
\* the queue has not yet recorded; "removed" is a failed job that was evicted.
JobStates == {"none", "waiting", "active", "written", "delayed",
              "completed", "failed", "removed"}

Zero == [m \in Msgs |-> 0]

Init ==
  /\ status = [m \in Msgs |-> "absent"]
  /\ state = [m \in Msgs |-> "none"]
  /\ writes = Zero /\ attempts = Zero /\ stalls = Zero
  /\ zombies = Zero /\ replays = Zero /\ incidents = Zero

Inc(f, m) == [f EXCEPT ![m] = @ + 1]
Goes(m, to) == state' = [state EXCEPT ![m] = to]

-----------------------------------------------------------------------------
(* The producer: the API stores the message, later it adds the job.        *)

Persist(m) ==
  /\ status[m] = "absent"
  /\ status' = [status EXCEPT ![m] = "queued"]
  /\ UNCHANGED <<writes, job, zombies, incidents>>

MutAddAgain(m) ==
  /\ status[m] # "absent" /\ state[m] \in {"none", "completed"}
  /\ Goes(m, "waiting")
  /\ UNCHANGED <<status, writes, attempts, stalls, replays, zombies, incidents>>

\* messageQueue.add looks at nothing: Redis takes a job for a message that is
\* stored and for one that is not.  (One job per message is all that is modelled;
\* that nobody asks for a second is OneProducerPerMessage of Messaging.)
Add(m) ==
  /\ state[m] = "none"
  /\ Goes(m, "waiting")
  /\ UNCHANGED <<status, writes, attempts, stalls, replays, zombies, incidents>>

\* What this module assumes of its producer, where it stands alone: it adds the job
\* of a message that is stored.  In Messaging the producer is sendMessage, which
\* calls Add and nothing else.
Produce(m) == status[m] # "absent" /\ Add(m)

-----------------------------------------------------------------------------
(* The worker: process() and what the queue makes of its result.           *)

Claim(m) ==
  /\ state[m] = "waiting"
  /\ Goes(m, "active")
  /\ UNCHANGED <<status, writes, attempts, stalls, replays, zombies, incidents>>

\* The update of the processor: status 'sent' and a fresh externalId.  Where there
\* is no row of that id it is rejected (P2025).
MarkSent(m) ==
  /\ status[m] # "absent"
  /\ status' = [status EXCEPT ![m] = "sent"]
  /\ writes' = Inc(writes, m)

Write(m) ==
  /\ state[m] = "active"
  /\ MarkSent(m)
  /\ Goes(m, "written")
  /\ UNCHANGED <<attempts, stalls, replays, zombies, incidents>>

\* The job is terminally failed; beyond KeepFailed an older one is evicted.
\* (The queue evicts the oldest; their order is not kept here.)
Bury(m) ==
  LET older == {n \in Msgs \ {m} : state[n] = "failed"} IN
  \/ /\ Cardinality(older) < KeepFailed
     /\ Goes(m, "failed")
  \/ /\ Cardinality(older) >= KeepFailed
     /\ \E n \in older : state' = [state EXCEPT ![m] = "failed", ![n] = "removed"]

\* process() threw: try again after the backoff, or give up.
Retried(m) ==
  /\ attempts' = Inc(attempts, m)
  /\ incidents' = Inc(incidents, m)
  /\ \/ attempts[m] + 1 < Attempts  /\ Goes(m, "delayed")
     \/ attempts[m] + 1 >= Attempts /\ Bury(m)
  /\ UNCHANGED <<stalls, replays, zombies>>

MutWriteErrorSwallowed(m) ==
  /\ state[m] = "active"
  /\ Goes(m, "written")
  /\ UNCHANGED <<status, writes, attempts, stalls, replays, zombies, incidents>>

\* The update is rejected and did not happen ...
WriteFails(m) ==
  /\ state[m] = "active"
  /\ Retried(m)
  /\ UNCHANGED <<status, writes>>

\* ... or it was committed and its acknowledgement lost.
WriteUnacknowledged(m) ==
  /\ state[m] = "active"
  /\ MarkSent(m)
  /\ Retried(m)

Complete(m) ==
  /\ state[m] = "written"
  /\ Goes(m, "completed")
  /\ UNCHANGED <<status, writes, attempts, stalls, replays, zombies, incidents>>

BackoffExpires(m) ==
  /\ state[m] = "delayed"
  /\ Goes(m, "waiting")
  /\ UNCHANGED <<status, writes, attempts, stalls, replays, zombies, incidents>>

-----------------------------------------------------------------------------
(* Stalled executions and the operator.                                    *)

MutStallOffByOne(m) ==
  /\ state[m] \in {"active", "written"}
  /\ incidents' = Inc(incidents, m)
  /\ \/ stalls[m] <= MaxStalls /\ stalls' = Inc(stalls, m) /\ Goes(m, "waiting")
     \/ stalls[m] > MaxStalls  /\ stalls' = stalls /\ Bury(m)
  /\ zombies' \in {zombies, Inc(zombies, m)}
  /\ UNCHANGED <<status, writes, attempts, replays>>

Stall(m) ==
  /\ state[m] \in {"active", "written"}
  /\ incidents' = Inc(incidents, m)
  /\ \/ stalls[m] < MaxStalls  /\ stalls' = Inc(stalls, m) /\ Goes(m, "waiting")
     \/ stalls[m] >= MaxStalls /\ stalls' = stalls /\ Bury(m)
  /\ \/ zombies' = zombies                                       \* the process died
     \/ state[m] = "active" /\ zombies' = Inc(zombies, m)        \* it lives on
  /\ UNCHANGED <<status, writes, attempts, replays>>

\* The zombie's update is done; its completion is refused, the lock is gone.
ZombieWrites(m) ==
  /\ zombies[m] > 0
  /\ zombies' = [zombies EXCEPT ![m] = @ - 1]
  /\ MarkSent(m)
  /\ UNCHANGED <<job, incidents>>

ZombieFails(m) ==
  /\ zombies[m] > 0
  /\ zombies' = [zombies EXCEPT ![m] = @ - 1]
  /\ UNCHANGED <<status, writes, job, incidents>>

MutReplayRequeuesMessage(m) ==
  /\ state[m] = "failed" /\ replays[m] < MaxReplays
  /\ Goes(m, "waiting")
  /\ replays' = Inc(replays, m)
  /\ incidents' = Inc(incidents, m)
  /\ status' = [status EXCEPT ![m] = "queued"]
  /\ UNCHANGED <<writes, attempts, stalls, zombies>>

\* Bull Board's retry of a failed job.  Whether the counters start again is
\* up to the library's version.
Replay(m) ==
  /\ state[m] = "failed" /\ replays[m] < MaxReplays
  /\ Goes(m, "waiting")
  /\ replays' = Inc(replays, m)
  /\ incidents' = Inc(incidents, m)
  /\ \/ UNCHANGED <<attempts, stalls>>
     \/ /\ attempts' = [attempts EXCEPT ![m] = 0]
        /\ stalls' = [stalls EXCEPT ![m] = 0]
  /\ UNCHANGED <<status, writes, zombies>>

-----------------------------------------------------------------------------
Execution(m) == Write(m) \/ WriteFails(m) \/ WriteUnacknowledged(m)

Worker(m) ==
  \/ Claim(m) \/ Execution(m) \/ Complete(m) \/ BackoffExpires(m)
  \/ Stall(m) \/ ZombieWrites(m) \/ ZombieFails(m) \/ Replay(m)

Next == \E m \in Msgs : Persist(m) \/ Produce(m) \/ Worker(m)

Safety == Init /\ [][Next]_vars

\* A running worker takes jobs, an execution ends, completions are recorded and
\* the delay timer fires.  Nothing is assumed of producers, stalls, zombies or
\* the operator.
Fairness ==
  \A m \in Msgs : /\ WF_vars(Claim(m))
                  /\ WF_vars(Execution(m))
                  /\ WF_vars(Complete(m))
                  /\ WF_vars(BackoffExpires(m))

Spec == Safety /\ Fairness

-----------------------------------------------------------------------------
(* Properties.                                                             *)

\* Every variable has its type.
TypeOK ==
  /\ status \in [Msgs -> {"absent", "queued", "sent", "failed"}]
  /\ state \in [Msgs -> JobStates]
  /\ writes \in [Msgs -> Nat]
  /\ attempts \in [Msgs -> Nat]
  /\ stalls \in [Msgs -> 0 .. MaxStalls]
  /\ zombies \in [Msgs -> Nat]
  /\ replays \in [Msgs -> 0 .. MaxReplays]
  /\ incidents \in [Msgs -> Nat]

\* A job that the queue calls completed has marked its message sent, whatever
\* stalls, zombies and lost acknowledgements came before.
CompletedMeansSent == \A m \in Msgs : state[m] = "completed" => status[m] = "sent"

\* A message is dispatched once, and once more at most for every failure, stall
\* or replay: the processor has no guard against a second dispatch of its own,
\* so every duplicate must be the trace of an incident.
DuplicatesExplained == \A m \in Msgs : writes[m] <= 1 + incidents[m]

\* How far a message has come, as the abstract specification sees it.
DeliveryPhase(m) ==
  IF status[m] = "sent" THEN "sent"
  ELSE IF state[m] \in {"failed", "removed"} THEN "dead"
  ELSE IF state[m] # "none" THEN "accepted"
  ELSE IF status[m] = "queued" THEN "stored"
  ELSE "new"

Promise == INSTANCE Delivery WITH phase <- [m \in Msgs |-> DeliveryPhase(m)]

\* The queue and its worker deliver what module Delivery promises.
DeliverySpec == Promise!Spec
=============================================================================
