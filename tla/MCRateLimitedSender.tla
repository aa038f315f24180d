------------------------ MODULE MCRateLimitedSender ------------------------
(* RateLimitedSender for TLC. The lines are interchangeable, but the runs   *)
(* that check liveness use no symmetry.                                     *)
EXTENDS RateLimitedSender, TLC
LineSymmetry == Permutations(Lines)
=============================================================================
