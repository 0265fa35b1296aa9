---------------------------- MODULE MCNodeGateway ----------------------------
(* Instances of NodeGateway: handlers and administrative calls are         *)
(* interchangeable.                                                        *)
EXTENDS NodeGateway, TLC

Symmetry == Permutations(Handlers) \cup Permutations(Admins)
==============================================================================
