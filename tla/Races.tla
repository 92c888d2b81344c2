-------------------------------- MODULE Races --------------------------------
(***************************************************************************)
(* Conversations with a memory of who wrote behind whose back.  A handler  *)
(* tests a row on one await and relies on the test at a later one, and the *)
(* test is no lock.  The history variable changes nothing of what the       *)
(* requests do: it lets a property tell a write that goes wrong because of *)
(* a race from one that goes wrong in any order of calls.                  *)
(***************************************************************************)
EXTENDS Conversations

VARIABLE
  overtaken  \* for each request, the conversations that other requests have
             \* written since it made the read it is going to write on

raceVars == <<vars, overtaken>>

InitRaces == Init /\ overtaken = [r \in Requests |-> {}]

\* The awaits of a handler that is going to write on what it has read before.
Relying == {"create.insert", "update.assignee", "update.write", "remove.write", "send.commit"}

\* A handler makes that read when it starts, or, on create, in the step to its
\* insert; the membership read of an update renews nothing.
Notice(r) ==
  overtaken' = [q \in Requests |->
    IF q = r THEN IF pc[r] = "update.assignee" THEN overtaken[r] ELSE {}
    ELSE IF pc[q] \in Relying THEN overtaken[q] \union {c \in Convs : conv'[c] # conv[c]}
    ELSE {}]

Step(r) == Handle(r) /\ Notice(r)

NextRaces ==
  \/ \E r \in Requests : Step(r)
  \/ Environment /\ UNCHANGED overtaken

RaceSpec == InitRaces /\ [][NextRaces]_raceVars

-----------------------------------------------------------------------------
(* Properties.                                                             *)

\* Every variable has its type.
RaceTypeOK == TypeOK /\ overtaken \in [Requests -> SUBSET Convs]

\* Request r takes this step after another request wrote c behind its back.
Overtaken(r, c) == pc'[r] # pc[r] /\ c \in overtaken[r]

\* A message enters a closed conversation only if another request wrote the
\* conversation between the sender's status test and its transaction; no sequence
\* of calls gets there that do not overlap.
SendToClosedIsRace ==
  [][\A m \in Msgs :
       (message'[m] # message[m] /\ conv[message'[m].conv].status = "closed") =>
         \E r \in Requests : Overtaken(r, message'[m].conv)]_message

\* A soft-deleted conversation is changed, or gets a message, only by a handler
\* that another request has overtaken since it saw the conversation live.
WriteToDeletedIsRace ==
  [][\A c \in Convs :
       (/\ conv[c].deleted
        /\ \/ conv'[c] # conv[c]
           \/ \E m \in Msgs : message'[m].conv = c /\ message[m].conv # c) =>
         \E r \in Requests : Overtaken(r, c)]_rows

\* An insert makes a second open conversation of a contact on a channel only
\* beside conversations that other requests wrote (made, or opened again) since the
\* handler found none.
SecondOpenIsRace ==
  [][\A c \in Convs : (~Exists(c) /\ Exists(c)') =>
       \E r \in Requests :
         \A d \in OpenThread(conv'[c].org, conv'[c].contact, conv'[c].channel) :
           Overtaken(r, d)]_conv
=============================================================================
