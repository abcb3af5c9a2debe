-------------------------- MODULE MCCommandDispatch --------------------------
(***************************************************************************)
(* Instances of command dispatch: boots that replace one another under one  *)
(* worker identity.                                                         *)
(***************************************************************************)
EXTENDS CommandDispatch, TLC

CONSTANT w1

OneWorker == [b \in Boots |-> w1]
Symmetry == Permutations(Boots)
==============================================================================
