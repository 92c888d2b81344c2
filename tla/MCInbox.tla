------------------------------- MODULE MCInbox -------------------------------
(* An instance of Inbox for TLC: one tenant, one writing request at a time, *)
(* and pages of one row.                                                    *)
EXTENDS Inbox, TLC

CONSTANTS A, ka

MCContactOrg == ka :> A
MCContexts == {[org |-> A, role |-> "admin"]}
MCFilters == {Undefined, "open"}

Symmetry == Permutations(Convs) \union Permutations(Msgs)
=============================================================================
