------------------------------ MODULE MCStorage ------------------------------
(* Two processes that may back up at once, one or two data files.          *)
EXTENDS Storage, TLC

CONSTANTS p1, p2, d1, d2

Symmetry == Permutations(Processes) \cup Permutations(DataFiles)
=============================================================================
