----------------------- MODULE MessageDispatchProofs -----------------------
(***************************************************************************)
(* Proofs about MessageDispatch for every set of messages, every number of *)
(* attempts, stalls and replays and every size of the dead-letter queue.   *)
(***************************************************************************)
EXTENDS MessageDispatch, TLAPS

-----------------------------------------------------------------------------
(* Type correctness.                                                       *)

\* Burying a job touches failed jobs only: one of them may be evicted.
LEMMA BuryMoves ==
  ASSUME TypeOK, NEW m \in Msgs, Bury(m)
  PROVE  /\ state' \in [Msgs -> JobStates]
         /\ state'[m] = "failed"
         /\ \A n \in Msgs \ {m} :
              state'[n] = state[n] \/ (state[n] = "failed" /\ state'[n] = "removed")
<1> DEFINE older == {n \in Msgs \ {m} : state[n] = "failed"}
<1>1. CASE Goes(m, "failed")
  BY <1>1 DEF Goes, TypeOK, JobStates
<1>2. CASE \E n \in older : state' = [state EXCEPT ![m] = "failed", ![n] = "removed"]
  BY <1>2 DEF TypeOK, JobStates
<1> QED
  BY <1>1, <1>2 DEF Bury

LEMMA GoesMoves ==
  ASSUME TypeOK, NEW m \in Msgs, NEW to \in JobStates, Goes(m, to)
  PROVE  /\ state' \in [Msgs -> JobStates]
         /\ state'[m] = to
         /\ \A n \in Msgs \ {m} : state'[n] = state[n]
BY DEF Goes, TypeOK

LEMMA IncTyped ==
  ASSUME NEW f \in [Msgs -> Nat], NEW m \in Msgs
  PROVE  /\ Inc(f, m) \in [Msgs -> Nat]
         /\ Inc(f, m)[m] = f[m] + 1
         /\ \A n \in Msgs \ {m} : Inc(f, m)[n] = f[n]
BY DEF Inc

LEMMA InitTyped == Init => TypeOK
BY QueueAssumption DEF Init, TypeOK, JobStates, Zero

LEMMA NextTyped == TypeOK /\ [Next]_vars => TypeOK'
<1> SUFFICES ASSUME TypeOK, [Next]_vars PROVE TypeOK'
  OBVIOUS
<1> USE DEF JobStates
<1>0. /\ MaxStalls \in Nat /\ MaxReplays \in Nat
      /\ status \in [Msgs -> {"absent", "queued", "sent", "failed"}]
      /\ stalls \in [Msgs -> 0 .. MaxStalls] /\ replays \in [Msgs -> 0 .. MaxReplays]
      /\ writes \in [Msgs -> Nat] /\ attempts \in [Msgs -> Nat]
      /\ zombies \in [Msgs -> Nat] /\ incidents \in [Msgs -> Nat]
  BY QueueAssumption DEF TypeOK
<1>1. ASSUME NEW m \in Msgs, Persist(m) PROVE TypeOK'
  BY <1>1 DEF Persist, job, TypeOK
<1>2. ASSUME NEW m \in Msgs, Produce(m) PROVE TypeOK'
  BY <1>2, GoesMoves DEF Produce, Add, TypeOK
<1>3. ASSUME NEW m \in Msgs, Claim(m) PROVE TypeOK'
  BY <1>3, GoesMoves DEF Claim, TypeOK
<1>4. ASSUME NEW m \in Msgs, Write(m) PROVE TypeOK'
  BY <1>0, <1>4, GoesMoves, IncTyped DEF Write, MarkSent, TypeOK
<1>5. ASSUME NEW m \in Msgs, Retried(m)
      PROVE  /\ state' \in [Msgs -> JobStates] /\ attempts' \in [Msgs -> Nat]
             /\ incidents' \in [Msgs -> Nat] /\ UNCHANGED <<stalls, replays, zombies>>
  BY <1>0, <1>5, GoesMoves, BuryMoves, IncTyped DEF Retried
<1>6. ASSUME NEW m \in Msgs, WriteFails(m) PROVE TypeOK'
  BY <1>5, <1>6 DEF WriteFails, TypeOK
<1>7. ASSUME NEW m \in Msgs, WriteUnacknowledged(m) PROVE TypeOK'
  BY <1>0, <1>5, <1>7, IncTyped DEF WriteUnacknowledged, MarkSent, TypeOK
<1>8. ASSUME NEW m \in Msgs, Complete(m) PROVE TypeOK'
  BY <1>8, GoesMoves DEF Complete, TypeOK
<1>9. ASSUME NEW m \in Msgs, BackoffExpires(m) PROVE TypeOK'
  BY <1>9, GoesMoves DEF BackoffExpires, TypeOK
<1>10. ASSUME NEW m \in Msgs, Stall(m) PROVE TypeOK'
  <2>1. state' \in [Msgs -> JobStates]
    BY <1>10, GoesMoves, BuryMoves DEF Stall
  <2>2. stalls' \in [Msgs -> 0 .. MaxStalls]
    BY <1>0, <1>10 DEF Stall, Inc
  <2>3. incidents' \in [Msgs -> Nat] /\ zombies' \in [Msgs -> Nat]
    BY <1>0, <1>10, IncTyped DEF Stall
  <2> QED
    BY <1>10, <2>1, <2>2, <2>3 DEF Stall, TypeOK
<1>11. ASSUME NEW m \in Msgs, ZombieWrites(m) PROVE TypeOK'
  BY <1>0, <1>11, IncTyped DEF ZombieWrites, MarkSent, job, TypeOK
<1>12. ASSUME NEW m \in Msgs, ZombieFails(m) PROVE TypeOK'
  BY <1>0, <1>12 DEF ZombieFails, job, TypeOK
<1>13. ASSUME NEW m \in Msgs, Replay(m) PROVE TypeOK'
  <2>1. state' \in [Msgs -> JobStates]
    BY <1>13, GoesMoves DEF Replay
  <2>2. replays' \in [Msgs -> 0 .. MaxReplays]
    BY <1>0, <1>13 DEF Replay, Inc
  <2>3. incidents' \in [Msgs -> Nat]
    BY <1>0, <1>13, IncTyped DEF Replay
  <2>4. attempts' \in [Msgs -> Nat] /\ stalls' \in [Msgs -> 0 .. MaxStalls]
    BY <1>0, <1>13 DEF Replay
  <2> QED
    BY <1>13, <2>1, <2>2, <2>3, <2>4 DEF Replay, TypeOK
<1>14. CASE UNCHANGED vars
  BY <1>14 DEF vars, job, TypeOK
<1> QED
  BY <1>1, <1>2, <1>3, <1>4, <1>6, <1>7, <1>8, <1>9, <1>10, <1>11, <1>12, <1>13, <1>14
     DEF Next, Worker, Execution

\* Every variable keeps its type; in particular no job stalls or is replayed more
\* often than the configuration allows.
THEOREM TypeCorrect == Safety => []TypeOK
BY InitTyped, NextTyped, PTL DEF Safety

-----------------------------------------------------------------------------
(* Completed jobs and duplicates.                                          *)

\* The execution a job still owes: it is wanted and no update has been made.
Owed(m) == IF state[m] \in {"none", "waiting", "active", "delayed"} THEN 1 ELSE 0

\* DuplicatesExplained alone is not inductive: an update that is still to come,
\* of the current execution or of a zombie, has to be paid for already.
Account(m) ==
  /\ state[m] \in {"written", "completed"} => status[m] = "sent"
  /\ writes[m] + zombies[m] + Owed(m) <= 1 + incidents[m]
  /\ zombies[m] > 0 => state[m] # "none"
  /\ state[m] = "none" => status[m] \in {"absent", "queued"}

DispatchInv == TypeOK /\ \A m \in Msgs : Account(m)

LEMMA InitDispatch == Init => DispatchInv
BY InitTyped DEF Init, DispatchInv, Account, Owed, Zero

\* A step of one message leaves the account of another one as it is, though it
\* may evict its failed job.
Elsewhere(m) ==
  \A n \in Msgs \ {m} :
    /\ state'[n] = state[n] \/ (state[n] = "failed" /\ state'[n] = "removed")
    /\ status'[n] = status[n] /\ writes'[n] = writes[n]
    /\ zombies'[n] = zombies[n] /\ incidents'[n] = incidents[n]

LEMMA StepsAreLocal ==
  ASSUME TypeOK, NEW m \in Msgs, Persist(m) \/ Produce(m) \/ Worker(m)
  PROVE  Elsewhere(m)
<1>0. /\ status \in [Msgs -> {"absent", "queued", "sent", "failed"}]
      /\ writes \in [Msgs -> Nat] /\ zombies \in [Msgs -> Nat] /\ incidents \in [Msgs -> Nat]
  BY DEF TypeOK
<1>1. CASE Persist(m)
  BY <1>0, <1>1 DEF Persist, Elsewhere, job
<1>2. CASE Produce(m) \/ Claim(m) \/ Complete(m) \/ BackoffExpires(m)
  BY <1>2, GoesMoves DEF Produce, Add, Claim, Complete, BackoffExpires, Elsewhere, JobStates
<1>3. CASE Write(m)
  BY <1>0, <1>3, GoesMoves, IncTyped DEF Write, MarkSent, Elsewhere, JobStates
<1>4. CASE WriteFails(m)
  BY <1>0, <1>4, GoesMoves, BuryMoves, IncTyped DEF WriteFails, Retried, Elsewhere, JobStates
<1>5. CASE WriteUnacknowledged(m)
  BY <1>0, <1>5, GoesMoves, BuryMoves, IncTyped
     DEF WriteUnacknowledged, MarkSent, Retried, Elsewhere, JobStates
<1>6. CASE Stall(m)
  <2>1. \A n \in Msgs \ {m} :
          state'[n] = state[n] \/ (state[n] = "failed" /\ state'[n] = "removed")
    BY <1>6, GoesMoves, BuryMoves DEF Stall, JobStates
  <2>2. \A n \in Msgs \ {m} : zombies'[n] = zombies[n] /\ incidents'[n] = incidents[n]
    BY <1>0, <1>6, IncTyped DEF Stall
  <2> QED
    BY <1>6, <2>1, <2>2 DEF Stall, Elsewhere
<1>7. CASE ZombieWrites(m)
  BY <1>0, <1>7, IncTyped DEF ZombieWrites, MarkSent, Elsewhere, job
<1>8. CASE ZombieFails(m)
  BY <1>0, <1>8 DEF ZombieFails, Elsewhere, job
<1>9. CASE Replay(m)
  BY <1>0, <1>9, GoesMoves, IncTyped DEF Replay, Elsewhere, JobStates
<1> QED
  BY <1>1, <1>2, <1>3, <1>4, <1>5, <1>6, <1>7, <1>8, <1>9 DEF Worker, Execution

\* A step balances the account of its own message.
LEMMA AccountsBalance ==
  ASSUME TypeOK, NEW m \in Msgs, Account(m), Persist(m) \/ Produce(m) \/ Worker(m)
  PROVE  Account(m)'
<1>0. /\ status \in [Msgs -> {"absent", "queued", "sent", "failed"}]
      /\ writes \in [Msgs -> Nat] /\ zombies \in [Msgs -> Nat] /\ incidents \in [Msgs -> Nat]
  BY DEF TypeOK
<1> USE DEF Account, Owed, JobStates
<1>1. CASE Persist(m)
  BY <1>0, <1>1 DEF Persist, job
<1>2. CASE Produce(m) \/ Claim(m) \/ BackoffExpires(m)
  BY <1>2, GoesMoves DEF Produce, Add, Claim, BackoffExpires
<1>3. CASE Complete(m)
  BY <1>3, GoesMoves DEF Complete
<1>4. CASE Write(m)
  <2>1. state[m] = "active" /\ state'[m] = "written" /\ status'[m] = "sent"
    BY <1>0, <1>4, GoesMoves DEF Write, MarkSent
  <2>2. writes'[m] = writes[m] + 1 /\ zombies'[m] = zombies[m] /\ incidents'[m] = incidents[m]
    BY <1>0, <1>4, IncTyped DEF Write, MarkSent
  <2> QED
    BY <1>0, <2>1, <2>2
<1>5. ASSUME Retried(m)
      PROVE  /\ state'[m] \in {"delayed", "failed"} /\ incidents'[m] = incidents[m] + 1
             /\ zombies'[m] = zombies[m]
  BY <1>0, <1>5, GoesMoves, BuryMoves, IncTyped DEF Retried
<1>6. CASE WriteFails(m)
  BY <1>0, <1>5, <1>6 DEF WriteFails
<1>7. CASE WriteUnacknowledged(m)
  <2>1. writes'[m] = writes[m] + 1 /\ state[m] = "active"
    BY <1>0, <1>7, IncTyped DEF WriteUnacknowledged, MarkSent
  <2> QED
    BY <1>0, <1>5, <1>7, <2>1 DEF WriteUnacknowledged
<1>8. CASE Stall(m)
  <2>1. state[m] \in {"active", "written"} /\ state'[m] \in {"waiting", "failed"}
    BY <1>8, GoesMoves, BuryMoves DEF Stall
  <2>2. incidents'[m] = incidents[m] + 1 /\ writes'[m] = writes[m]
    BY <1>0, <1>8, IncTyped DEF Stall
  <2>3. zombies'[m] = zombies[m] \/ (state[m] = "active" /\ zombies'[m] = zombies[m] + 1)
    BY <1>0, <1>8, IncTyped DEF Stall
  <2> QED
    BY <1>0, <2>1, <2>2, <2>3
<1>9. CASE ZombieWrites(m)
  <2>1. /\ writes'[m] = writes[m] + 1 /\ zombies'[m] = zombies[m] - 1 /\ zombies[m] > 0
        /\ status'[m] = "sent"
    BY <1>0, <1>9, IncTyped DEF ZombieWrites, MarkSent
  <2>2. state' = state /\ incidents' = incidents
    BY <1>9 DEF ZombieWrites, job
  <2> QED
    BY <1>0, <2>1, <2>2
<1>10. CASE ZombieFails(m)
  <2>1. zombies'[m] = zombies[m] - 1 /\ zombies[m] > 0
    BY <1>0, <1>10 DEF ZombieFails
  <2>2. state' = state /\ incidents' = incidents /\ writes' = writes /\ status' = status
    BY <1>10 DEF ZombieFails, job
  <2> QED
    BY <1>0, <2>1, <2>2
<1>11. CASE Replay(m)
  <2>1. state[m] = "failed" /\ state'[m] = "waiting"
    BY <1>11, GoesMoves DEF Replay
  <2>2. incidents'[m] = incidents[m] + 1 /\ writes' = writes /\ zombies' = zombies
    BY <1>0, <1>11, IncTyped DEF Replay
  <2> QED
    BY <1>0, <2>1, <2>2
<1> QED
  BY <1>1, <1>2, <1>3, <1>4, <1>6, <1>7, <1>8, <1>9, <1>10, <1>11 DEF Worker, Execution

LEMMA NextDispatch == DispatchInv /\ [Next]_vars => DispatchInv'
<1> SUFFICES ASSUME DispatchInv, [Next]_vars PROVE DispatchInv'
  OBVIOUS
<1>1. TypeOK /\ TypeOK' /\ \A m \in Msgs : Account(m)
  BY NextTyped DEF DispatchInv, Account
<1>2. ASSUME NEW m \in Msgs, Persist(m) \/ Produce(m) \/ Worker(m)
      PROVE  \A n \in Msgs : Account(n)'
  <2>1. Account(m)'
    BY <1>1, <1>2, AccountsBalance
  <2>2. ASSUME NEW n \in Msgs \ {m} PROVE Account(n)'
    BY <1>1, <1>2, StepsAreLocal DEF Elsewhere, Account, Owed
  <2> QED
    BY <2>1, <2>2
<1>3. ASSUME UNCHANGED vars PROVE \A n \in Msgs : Account(n)'
  BY <1>1, <1>3 DEF vars, job, Account, Owed
<1>4. \A n \in Msgs : Account(n)'
  BY <1>2, <1>3 DEF Next
<1> QED
  BY <1>1, <1>4 DEF DispatchInv, Account

\* The account of each message balances at every moment: what is written or may still be
\* written never exceeds its incidents plus one.
THEOREM DispatchInvariant == Safety => []DispatchInv
BY InitDispatch, NextDispatch, PTL DEF Safety

\* A completed job has marked its message sent.
THEOREM CompletedSent == Safety => []CompletedMeansSent
<1>1. DispatchInv => CompletedMeansSent
  BY DEF DispatchInv, Account, CompletedMeansSent
<1> QED
  BY <1>1, DispatchInvariant, PTL

\* Every dispatch of a message beyond the first is paid for by an incident.
THEOREM DuplicatesPaid == Safety => []DuplicatesExplained
<1>1. DispatchInv => DuplicatesExplained
  <2> SUFFICES ASSUME DispatchInv, NEW m \in Msgs PROVE writes[m] <= 1 + incidents[m]
    BY DEF DuplicatesExplained
  <2>1. writes[m] \in Nat /\ zombies[m] \in Nat /\ incidents[m] \in Nat
    BY DEF DispatchInv, TypeOK
  <2> QED
    BY <2>1 DEF DispatchInv, Account, Owed
<1> QED
  BY <1>1, DispatchInvariant, PTL

-----------------------------------------------------------------------------
(* The queue and its worker implement module Delivery (its safety part).   *)

phases == [m \in Msgs |-> DeliveryPhase(m)]

\* The steps of one message move its phase as Delivery allows, or not at all.
LEMMA PhaseMoves ==
  ASSUME DispatchInv, NEW m \in Msgs, Persist(m) \/ Produce(m) \/ Worker(m)
  PROVE  \/ DeliveryPhase(m)' = DeliveryPhase(m)
         \/ DeliveryPhase(m) = "new" /\ DeliveryPhase(m)' = "stored"
         \/ DeliveryPhase(m) = "stored" /\ DeliveryPhase(m)' = "accepted"
         \/ DeliveryPhase(m) \in {"accepted", "dead"} /\ DeliveryPhase(m)' = "sent"
         \/ DeliveryPhase(m) = "accepted" /\ DeliveryPhase(m)' = "dead"
         \/ DeliveryPhase(m) = "dead" /\ DeliveryPhase(m)' = "accepted"
<1>0. /\ TypeOK /\ (zombies[m] > 0 => state[m] # "none")
      /\ state[m] = "none" => status[m] \in {"absent", "queued"}
  BY DEF DispatchInv, Account
<1>1. status \in [Msgs -> {"absent", "queued", "sent", "failed"}]
  BY <1>0 DEF TypeOK
<1> USE DEF DeliveryPhase, JobStates
<1>2. CASE Persist(m)
  BY <1>1, <1>2 DEF Persist, job
<1>3. CASE Produce(m) \/ Claim(m) \/ Complete(m) \/ BackoffExpires(m) \/ Replay(m)
  BY <1>0, <1>3, GoesMoves DEF Produce, Add, Claim, Complete, BackoffExpires, Replay
<1>4. CASE Write(m)
  BY <1>0, <1>1, <1>4, GoesMoves DEF Write, MarkSent
<1>5. CASE WriteFails(m)
  BY <1>0, <1>5, GoesMoves, BuryMoves DEF WriteFails, Retried
<1>6. CASE WriteUnacknowledged(m)
  BY <1>1, <1>6 DEF WriteUnacknowledged, MarkSent
<1>7. CASE Stall(m)
  BY <1>0, <1>7, GoesMoves, BuryMoves DEF Stall
<1>8. CASE ZombieWrites(m)
  BY <1>0, <1>1, <1>8 DEF ZombieWrites, MarkSent, job
<1>9. CASE ZombieFails(m)
  BY <1>9 DEF ZombieFails, job
<1> QED
  BY <1>2, <1>3, <1>4, <1>5, <1>6, <1>7, <1>8, <1>9 DEF Worker, Execution

\* Every step of the queue is a step of Delivery or leaves the phases alone.
LEMMA StepsRefine == DispatchInv /\ [Next]_vars => [Promise!Next]_phases
<1> SUFFICES ASSUME DispatchInv, Next, phases' # phases PROVE Promise!Next
  BY DEF vars, job, phases, DeliveryPhase
<1>1. PICK m \in Msgs : Persist(m) \/ Produce(m) \/ Worker(m)
  BY DEF Next
<1>2. \A n \in Msgs \ {m} : DeliveryPhase(n)' = DeliveryPhase(n)
  BY <1>1, StepsAreLocal DEF Elsewhere, DeliveryPhase, DispatchInv
<1>3. phases' = [phases EXCEPT ![m] = DeliveryPhase(m)']
  BY <1>2 DEF phases
<1>4. phases[m] = DeliveryPhase(m) /\ DeliveryPhase(m)' # DeliveryPhase(m)
  BY <1>2 DEF phases
<1>5. \/ Promise!Store(m) \/ Promise!Accept(m) \/ Promise!Send(m) \/ Promise!GiveUp(m)
      \/ Promise!Replay(m)
  BY <1>1, <1>3, <1>4, PhaseMoves
     DEF Promise!Store, Promise!Accept, Promise!Send, Promise!GiveUp, Promise!Replay,
         Promise!Move, phases
<1> QED
  BY <1>5 DEF Promise!Next

\* The detailed queue keeps the promise of Delivery: a message is accepted only
\* after it was stored, and once sent it stays sent, whatever fails, stalls or is
\* replayed.
THEOREM DeliveryKept == Safety => Promise!Safety
<1>1. Init => Promise!Init
  BY DEF Init, Promise!Init, DeliveryPhase
<1> QED
  BY <1>1, StepsRefine, DispatchInvariant, PTL DEF Safety, Promise!Safety, phases
=============================================================================
