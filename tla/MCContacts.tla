------------------------------ MODULE MCContacts ------------------------------
(* Instances of Contacts for TLC.                                          *)
EXTENDS Contacts, TLC

CONSTANTS A, B

\* All names have one slug, so that they collide.
Slugged == [n \in Names |-> "vip"]

\* An admin in each tenant, a member, who may not delete, and the context of a
\* session without an active organization.
MCContexts == [org : Orgs, role : {"admin"}] \union [org : {A, None}, role : {"member"}]

Symmetry == Permutations(Contacts) \union Permutations(Tags) \union Permutations(Requests)
=============================================================================
