------------------------ MODULE MCSelectionLeases --------------------------
(* SelectionLeases for TLC: runs, threads and assets are interchangeable. *)
EXTENDS SelectionLeases, TLC

Symmetry == Permutations(Runs) \cup Permutations(Threads) \cup Permutations(Assets)
=============================================================================
