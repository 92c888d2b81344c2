------------------------------ MODULE MCOrgAuth ------------------------------
(* Instances of OrgAuth for TLC.                                           *)
EXTENDS OrgAuth, TLC

Symmetry == Permutations(Orgs)
=============================================================================
