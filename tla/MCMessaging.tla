----------------------------- MODULE MCMessaging -----------------------------
(* Instances of Messaging for TLC: one tenant, one contact.                *)
EXTENDS Messaging, TLC

CONSTANTS A, ka

MCOrgs == {A}
MCContacts == {ka}
MCContactOrg == ka :> A
MCContexts == {[org |-> A, role |-> "admin"]}

Symmetry == Permutations(Requests) \union Permutations(Msgs)
=============================================================================
