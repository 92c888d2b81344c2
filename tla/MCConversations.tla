--------------------------- MODULE MCConversations ---------------------------
(* Instances of Conversations for TLC: two tenants with one contact each.  *)
EXTENDS Races, TLC

CONSTANTS A, B, ka, kb, u

MCOrgs == {A, B}
MCUsers == {u}
MCContacts == {ka, kb}
MCContactOrg == (ka :> A) @@ (kb :> B)
\* The user was a member of A at some time and never one of B.
MCMembers == {<<A, u>>}

\* An admin of each tenant, a plain member, and a session without tenant.
MCContexts == {[org |-> A, role |-> "admin"], [org |-> A, role |-> "member"],
               [org |-> B, role |-> "owner"], [org |-> None, role |-> "member"]}

\* One tenant with one contact: what its requests do to each other.
MCOneOrg == {A}
MCOneContact == {ka}
MCOneContactOrg == ka :> A
MCOneTenant == {[org |-> A, role |-> "admin"], [org |-> A, role |-> "member"]}

Symmetry == Permutations(Requests) \union Permutations(Convs) \union Permutations(Msgs)
=============================================================================
