----------------------------- MODULE MCJobEngine -----------------------------
(* JobEngine for TLC: two engines or two goroutines, one or two jobs. *)
EXTENDS JobEngine, TLC

MCBaseDelays == <<1>>

\* Engines and callers only ever index functions and mark rows.
Symmetry == Permutations(Engines) \cup Permutations(Callers)
==============================================================================
