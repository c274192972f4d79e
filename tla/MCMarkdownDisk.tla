---------------------------- MODULE MCMarkdownDisk ----------------------------
EXTENDS MarkdownDisk, TLC
CONSTANTS p, q, k1, k2, k3
MCCost == k1 :> 1 @@ k2 :> 1 @@ k3 :> 2
MCBudget == p :> 4 @@ q :> 2
Symmetry == Permutations(Workers) \cup Permutations(Temps) \cup Permutations({k1, k2})
===============================================================================
