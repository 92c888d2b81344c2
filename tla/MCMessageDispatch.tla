-------------------------- MODULE MCMessageDispatch --------------------------
(* Instances of MessageDispatch for TLC.                                   *)
EXTENDS MessageDispatch, TLC

Symmetry == Permutations(Msgs)
=============================================================================
