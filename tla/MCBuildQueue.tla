--------------------------- MODULE MCBuildQueue ---------------------------
(* BuildQueue on small instances. *)
EXTENDS BuildQueue, TLC

(* Goroutines are interchangeable. *)
Symmetry == Permutations(Procs)
=============================================================================
