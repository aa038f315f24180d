--------------------------- MODULE MCChannelState ---------------------------
(* A small instance of ChannelState for TLC. *)
EXTENDS ChannelState, TLC

MCSymmetry == Permutations(Nicks) \cup Permutations(Channels)
=============================================================================
