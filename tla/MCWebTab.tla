------------------------------ MODULE MCWebTab ------------------------------
(* Instances of WebTab for TLC: a tab and two organizations.               *)
EXTENDS WebTab, TLC

CONSTANTS A, B

\* An owner of one organization and admin of another, or of the first alone,
\* who may create the second.
MCGrants == {A :> "owner" @@ B :> "admin", A :> "owner" @@ B :> None}
=============================================================================
