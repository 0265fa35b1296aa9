-------------------------- MODULE MCCommandDispatch --------------------------
(* Instances of CommandDispatch.                                           *)
EXTENDS CommandDispatch, TLC

Symmetry == Permutations(Calls) \cup Permutations(Nodes)
==============================================================================
