------------------------------- MODULE Delivery -------------------------------
(***************************************************************************)
(* What the messaging part of the API promises about an outbound message:  *)
(* it is stored, then accepted for delivery, and an accepted message is    *)
(* eventually sent or given up on, where an operator may ask for another   *)
(* try.  A sent message stays sent.  MessageDispatch implements this.      *)
(***************************************************************************)
CONSTANT Msgs

VARIABLE phase   \* how far each message has come

Phases == {"new", "stored", "accepted", "sent", "dead"}

Init == phase = [m \in Msgs |-> "new"]

Move(m, from, to) == phase[m] \in from /\ phase' = [phase EXCEPT ![m] = to]

Store(m)  == Move(m, {"new"}, "stored")
Accept(m) == Move(m, {"stored"}, "accepted")
\* An execution that was given up on may still finish its work.
Send(m)   == Move(m, {"accepted", "dead"}, "sent")
GiveUp(m) == Move(m, {"accepted"}, "dead")
Replay(m) == Move(m, {"dead"}, "accepted")

Settle(m) == phase[m] = "accepted" /\ (Send(m) \/ GiveUp(m))

Next == \E m \in Msgs : Store(m) \/ Accept(m) \/ Send(m) \/ GiveUp(m) \/ Replay(m)

Safety == Init /\ [][Next]_phase

Spec == Safety /\ \A m \in Msgs : WF_phase(Settle(m))
=============================================================================
