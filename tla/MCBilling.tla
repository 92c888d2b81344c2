------------------------------ MODULE MCBilling ------------------------------
(* Instances of Billing for TLC.                                           *)
EXTENDS Billing, TLC

Symmetry == Permutations(Customers) \union Permutations(Subs)
            \union Permutations(Hooks) \union Permutations(Requests)
=============================================================================
